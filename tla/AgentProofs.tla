---------------------------- MODULE AgentProofs ----------------------------
(***************************************************************************)
(* No message is returned by two reads unless two reads overlapped while   *)
(* the agent had no cursor row, the SQLite mailbox implements the queue of *)
(* Inbox, no session of a stream agent is lost sight of, and what the      *)
(* daemon knows of its Running batch agents is true: for any messages,     *)
(* readers, lives of the name, spawns, kills, faults, tasks, requests,     *)
(* processes and deployments.                                              *)
(***************************************************************************)
EXTENDS Mailbox, StreamAgents, DirectAgents, FiniteSetTheorems, SequenceTheorems, TLAPS

(***************************************************************************)
(* The inductive invariant                                                 *)
(***************************************************************************)

Given(m)    == sends[m].at \in {"inserted", "sent"}
Sent(w)     == sends[w.msg].at = "sent" /\ w.id = sends[w.msg].id /\ w.to = sends[w.msg].to
InRead(r)   == reads[r].at \in {"select", "advance", "commit"}

\* Every INSERT took the next id of the sequence, for an agent that had the
\* name (Send).
Numbered ==
  /\ lastId = Cardinality({m \in Msg : Given(m)})
  /\ \A m \in Msg : Given(m) => sends[m].id \in 1 .. lastId
  /\ \A m, n \in Msg : Given(m) /\ Given(n) /\ sends[m].id = sends[n].id => m = n
  /\ \A m \in Msg : sends[m].at \in {"found", "inserted", "sent"} => sends[m].to \in 1 .. MaxLives
  /\ sqlite => \A m \in Msg : sends[m].at # "inserted"

\* Every row, in the table or read from it, is the row of a send that
\* committed, and the cursor is at an id that was given (Send, Read).
RowsSent ==
  /\ \A w \in table : Sent(w)
  /\ \A r \in Reader : \A w \in reads[r].rows : Sent(w)
  /\ \A r \in Reader : reads[r].at \in {"idle", "begin", "select"} => reads[r].rows = {}
  /\ \A r \in Reader : reads[r].at # "idle" => reads[r].by \in 1 .. MaxLives
  /\ cursor <= lastId

\* Unless two reads overlapped without a cursor row, one read runs at a
\* time: it has the lock, or there is no row to lock (Read).
OneRead ==
  /\ sqlite => ~raced
  /\ ~raced =>
       /\ \A q, r \in Reader : InRead(q) /\ InRead(r) => q = r
       /\ \A r \in Reader : InRead(r) => \/ lock = r
                                         \/ ~sqlite /\ cursor = NoRow /\ lock = Nobody
       /\ \A r \in Reader : lock = r => InRead(r)

\* What was returned is gone: from the table, and from the read in flight.
ReturnedGone ==
  ~raced =>
    \A i \in DOMAIN log :
      /\ sends[log[i].row.msg].at = "sent"
      /\ \A w \in table : w.msg # log[i].row.msg
      /\ \A r \in Reader : \A w \in reads[r].rows : w.msg # log[i].row.msg

\* A read of SQLite works on the mailbox as it was when it began.
Snapshot ==
  sqlite => \A r \in Reader :
              /\ InRead(r) => reads[r].last = cursor
              /\ reads[r].at \in {"advance", "commit"} => reads[r].rows = Unread

MailInv ==
  MailTypeOK /\ Numbered /\ RowsSent /\ OneRead /\ ReturnedGone /\ Snapshot /\ DeliveredOnce


(***************************************************************************)
(* Rows in the order of their ids                                          *)
(***************************************************************************)

\* Rows of a table: no two have the same id (PRIMARY KEY).
Keyed(S) == S \subseteq Row /\ \A v, w \in S : v.id = w.id => v = w

\* There are finitely many ids, so finitely many rows (messages).
LEMMA RowsFinite ==
  ASSUME NEW S, Keyed(S)
  PROVE  IsFiniteSet(S) /\ Cardinality(S) \in Nat
<1>1. Cardinality(Msg) \in Nat
  BY MailboxAssumption, FS_CardinalityType
<1>2. IsFiniteSet(Id)
  BY <1>1, FS_Interval DEF Id
<1> DEFINE key == [w \in S |-> w.id]
<1>3. key \in [S -> Id] /\ \A v, w \in S : key[v] = key[w] => v = w
  BY DEF Keyed, Row
<1> HIDE DEF key
<1>4. key \in Injection(S, Id)
  BY <1>3 DEF Injection, IsInjective
<1>. QED
  BY <1>2, <1>4, FS_Injection, FS_CardinalityType

\* A set of rows has no more of them than any set with them (Rank).
LEMMA SmallerPart ==
  ASSUME NEW S, Keyed(S), NEW A \in SUBSET S, NEW B \in SUBSET A
  PROVE  /\ Keyed(A) /\ IsFiniteSet(A) /\ Cardinality(A) \in Nat
         /\ Cardinality(B) <= Cardinality(A)
         /\ Cardinality(A) = Cardinality(B) => A = B
<1>1. Keyed(A)
  BY DEF Keyed
<1>. QED
  BY <1>1, RowsFinite, FS_Subset

\* The rank of a row tells its place: it grows with the id, and every place
\* is taken (ORDER BY id).
LEMMA Ranks ==
  ASSUME NEW S, Keyed(S)
  PROVE  /\ \A w \in S : Rank(w, S) \in 1 .. Cardinality(S)
         /\ \A v, w \in S : v.id < w.id => Rank(v, S) < Rank(w, S)
         /\ \A v, w \in S : Rank(v, S) = Rank(w, S) => v = w
         /\ \A i \in 1 .. Cardinality(S) : \E w \in S : Rank(w, S) = i
<1> DEFINE Upto(w) == {v \in S : v.id <= w.id}
<1>1. \A w \in S : w.id \in Nat
  BY MailboxAssumption, FS_CardinalityType DEF Keyed, Row, Id
<1>2. \A w \in S : Rank(w, S) = Cardinality(Upto(w)) /\ Upto(w) \subseteq S
  BY DEF Rank
<1>3. ASSUME NEW w \in S
      PROVE  Rank(w, S) \in 1 .. Cardinality(S)
  <2>1. w \in Upto(w)
    BY <1>1
  <2>2. Keyed(Upto(w)) /\ Cardinality(Upto(w)) <= Cardinality(S)
    BY <1>2, SmallerPart DEF Keyed
  <2>3. Cardinality(Upto(w)) \in Nat /\ Cardinality(Upto(w)) # 0
    BY <2>1, <2>2, RowsFinite, FS_EmptySet
  <2>. QED
    BY <1>2, <2>2, <2>3, RowsFinite
<1>4. ASSUME NEW v \in S, NEW w \in S, v.id < w.id
      PROVE  Rank(v, S) < Rank(w, S)
  <2>1. Upto(v) \subseteq Upto(w)
    BY <1>1, <1>4
  <2>2. w \in Upto(w) /\ w \notin Upto(v)
    BY <1>1, <1>4
  <2>3. Cardinality(Upto(v)) <= Cardinality(Upto(w)) /\ Cardinality(Upto(w)) # Cardinality(Upto(v))
    BY <1>2, <2>1, <2>2, SmallerPart
  <2>4. Rank(v, S) \in Nat /\ Rank(w, S) \in Nat
    BY <1>3, RowsFinite
  <2>. QED
    BY <1>2, <2>3, <2>4
<1>5. ASSUME NEW v \in S, NEW w \in S, Rank(v, S) = Rank(w, S)
      PROVE  v = w
  <2>1. Rank(v, S) \in Nat
    BY <1>3, RowsFinite
  <2>2. ~(v.id < w.id) /\ ~(w.id < v.id)
    BY <1>4, <1>5, <2>1
  <2>. QED
    BY <1>1, <2>2 DEF Keyed
<1>6. \A i \in 1 .. Cardinality(S) : \E w \in S : Rank(w, S) = i
  <2> DEFINE T == 1 .. Cardinality(S)
             f == [w \in S |-> Rank(w, S)]
  <2>0. f \in [S -> T] /\ \A v, w \in S : f[v] = f[w] => v = w
    BY <1>3, <1>5
  <2>4. \A w \in S : f[w] = Rank(w, S)
    OBVIOUS
  <2> HIDE DEF f
  <2>1. f \in Injection(S, T)
    BY <2>0 DEF Injection, IsInjective
  <2>2. IsFiniteSet(T) /\ Cardinality(T) = Cardinality(S)
    BY RowsFinite, FS_Interval
  <2>3. f \in Surjection(S, T)
    BY <2>1, <2>2, FS_Injection
  <2>. QED
    BY <2>3, <2>4 DEF Surjection
<1>. QED
  BY <1>3, <1>4, <1>5, <1>6

\* InOrder lists every row once (Read's result).
LEMMA InOrderRows ==
  ASSUME NEW S, Keyed(S)
  PROVE  /\ InOrder(S) \in [1 .. Cardinality(S) -> S]
         /\ \A i \in 1 .. Cardinality(S) : Rank(InOrder(S)[i], S) = i
         /\ \A w \in S : Rank(w, S) \in 1 .. Cardinality(S) /\ InOrder(S)[Rank(w, S)] = w
<1>1. ASSUME NEW i \in 1 .. Cardinality(S)
      PROVE  InOrder(S)[i] \in S /\ Rank(InOrder(S)[i], S) = i
  BY Ranks DEF InOrder
<1>2. InOrder(S) \in [1 .. Cardinality(S) -> S]
  BY <1>1 DEF InOrder
<1>. QED
  BY <1>1, <1>2, Ranks

\* The row with the highest id is what Read deletes up to (maxID).
LEMMA HighestId ==
  ASSUME NEW S, Keyed(S), S # {}
  PROVE  /\ MaxIdOf(S) \in Id
         /\ \A v \in S : v.id <= MaxIdOf(S)
         /\ \E w \in S : w.id = MaxIdOf(S)
<1>1. Cardinality(S) \in Nat /\ Cardinality(S) # 0
  BY RowsFinite, FS_EmptySet
<1>2. PICK w \in S : Rank(w, S) = Cardinality(S)
  BY <1>1, Ranks
<1>3. {v \in S : v.id <= w.id} = S
  BY <1>2, SmallerPart DEF Rank, Keyed
<1>4. w.id \in Id /\ \A v \in S : v.id <= w.id
  BY <1>3 DEF Keyed, Row
<1>. QED
  BY <1>4 DEF MaxIdOf

\* A row with a higher id than all the others comes last (SendInsert, Read).
LEMMA NewestLast ==
  ASSUME NEW S, Keyed(S), NEW x \in Row, \A w \in S : w.id < x.id
  PROVE  /\ Keyed(S \union {x}) /\ Cardinality(S \union {x}) = Cardinality(S) + 1
         /\ \A i \in 1 .. Cardinality(S) : InOrder(S \union {x})[i] = InOrder(S)[i]
         /\ InOrder(S \union {x})[Cardinality(S) + 1] = x
<1> DEFINE T == S \union {x}
<1>1. \A w \in T : w.id \in Nat
  BY MailboxAssumption, FS_CardinalityType DEF Keyed, Row, Id
<1>2. Keyed(T) /\ x \notin S
  BY <1>1 DEF Keyed
<1>3. Cardinality(T) = Cardinality(S) + 1
  BY <1>2, RowsFinite, FS_AddElement
<1>4. \A w \in S : Rank(w, T) = Rank(w, S)
  <2>1. ASSUME NEW w \in S PROVE {v \in T : v.id <= w.id} = {v \in S : v.id <= w.id}
    BY <1>1
  <2>. QED
    BY <2>1 DEF Rank
<1>5. Rank(x, T) = Cardinality(S) + 1
  <2>1. {v \in T : v.id <= x.id} = T
    BY <1>1
  <2>. QED
    BY <1>3, <2>1 DEF Rank
<1>6. ASSUME NEW i \in 1 .. Cardinality(S)
      PROVE  InOrder(T)[i] = InOrder(S)[i]
  <2>1. InOrder(S)[i] \in T /\ Rank(InOrder(S)[i], T) = i
    BY <1>4, InOrderRows
  <2>. QED
    BY <1>2, <2>1, InOrderRows
<1>7. InOrder(T)[Cardinality(S) + 1] = x
  BY <1>2, <1>5, InOrderRows
<1>. QED
  BY <1>2, <1>3, <1>6, <1>7

(***************************************************************************)
(* Every action preserves every part of the invariant                      *)
(***************************************************************************)

\* The rows of the table, and the unread ones, have a key each (Send).
LEMMA TableKeyed ==
  ASSUME MailInv
  PROVE  /\ Keyed(table) /\ Keyed(Unread)
         /\ \A r \in Reader : Keyed(reads[r].rows)
         /\ \A w \in table : w.id <= lastId
<1>1. ASSUME NEW v \in Row, NEW w \in Row, Sent(v), Sent(w), v.id = w.id
      PROVE  v = w
  <2>1. v.msg = w.msg
    BY <1>1 DEF Sent, Row, MailInv, Numbered, Given
  <2>. QED
    BY <1>1, <2>1 DEF Sent, Row
<1>2. table \subseteq Row /\ \A r \in Reader : reads[r].rows \subseteq Row
  BY DEF MailInv, MailTypeOK, ReadCall
<1>3. Keyed(table) /\ Keyed(Unread)
  BY <1>1, <1>2 DEF Keyed, Unread, MailInv, RowsSent
<1>4. \A r \in Reader : Keyed(reads[r].rows)
  BY <1>1, <1>2 DEF Keyed, MailInv, RowsSent
<1>5. \A w \in table : w.id <= lastId
  BY <1>2 DEF MailInv, RowsSent, Numbered, Sent, Given, Row
<1>. QED
  BY <1>3, <1>4, <1>5

\* An INSERT finds an id that no other took, and one more is left for every
\* message not inserted yet (BIGSERIAL, AUTOINCREMENT).
LEMMA IdsLeft ==
  ASSUME MailInv, NEW m \in Msg, sends[m].at = "found"
  PROVE  /\ lastId \in Nat /\ lastId + 1 \in 1 .. Cardinality(Msg)
         /\ Cardinality({n \in Msg : Given(n)} \union {m}) = lastId + 1
<1> DEFINE G == {n \in Msg : Given(n)}
<1>1. m \notin G /\ G \union {m} \subseteq Msg
  BY DEF Given
<1>2. IsFiniteSet(G) /\ Cardinality(G) = lastId
  BY <1>1, MailboxAssumption, FS_Subset DEF MailInv, Numbered
<1>3. Cardinality(G) \in Nat /\ Cardinality(Msg) \in Nat
  BY <1>2, MailboxAssumption, FS_CardinalityType
<1>4. Cardinality(G \union {m}) = Cardinality(G) + 1
  BY <1>1, <1>2, FS_AddElement
<1>5. Cardinality(G \union {m}) <= Cardinality(Msg)
  BY <1>1, MailboxAssumption, FS_Subset
<1>. QED
  BY <1>2, <1>3, <1>4, <1>5

\* Read returns its rows, each once, in the order of their ids.
LEMMA MessagesOf ==
  ASSUME MailInv, NEW r \in Reader, reads[r].at = "commit"
  PROVE  /\ Messages(r) \in Seq(Answer)
         /\ Len(Messages(r)) = Cardinality(reads[r].rows)
         /\ Cardinality(reads[r].rows) \in Nat
         /\ \A i \in 1 .. Cardinality(reads[r].rows) :
              Messages(r)[i].row = InOrder(reads[r].rows)[i] /\ Messages(r)[i].row \in reads[r].rows
         /\ \A i, j \in 1 .. Cardinality(reads[r].rows) :
              Messages(r)[i].row = Messages(r)[j].row => i = j
<1> DEFINE rows == reads[r].rows
<1>1. Keyed(rows) /\ Cardinality(rows) \in Nat
  BY TableKeyed, RowsFinite
<1>2. reads[r].by \in 1 .. MaxLives
  BY DEF MailInv, RowsSent
<1>3. rows \subseteq Row
  BY <1>1 DEF Keyed
<1>4. InOrder(rows) \in [1 .. Cardinality(rows) -> rows]
  BY <1>1, InOrderRows
<1>5. \A i, j \in 1 .. Cardinality(rows) : InOrder(rows)[i] = InOrder(rows)[j] => i = j
  BY <1>1, InOrderRows
<1>6. \A i \in 1 .. Cardinality(rows) :
        Messages(r)[i] = [row |-> InOrder(rows)[i], by |-> reads[r].by]
  BY DEF Messages
<1>7. Messages(r) \in [1 .. Cardinality(rows) -> Answer]
  BY <1>2, <1>3, <1>4 DEF Messages, Answer
<1>8. Messages(r) \in Seq(Answer) /\ Len(Messages(r)) = Cardinality(rows)
  BY <1>1, <1>7, SeqDef, LenProperties
<1>. QED
  BY <1>1, <1>4, <1>5, <1>6, <1>8

\* What was returned are rows (Read).
LEMMA LoggedRows ==
  ASSUME MailInv
  PROVE  \A i \in DOMAIN log : log[i].row \in Row
<1>1. log \in Seq(Answer)
  BY DEF MailInv, MailTypeOK
<1>2. \A i \in DOMAIN log : log[i] \in Answer
  BY <1>1, LenProperties, ElementOfSeq
<1>. QED
  BY <1>2 DEF Answer

\* A read adds its rows at the end of what was returned.
LEMMA LogGrows ==
  ASSUME MailInv, NEW r \in Reader, reads[r].at = "commit", log' = log \o Messages(r)
  PROVE  /\ Len(log) \in Nat /\ DOMAIN log' \subseteq Nat
         /\ Len(log') = Len(log) + Cardinality(reads[r].rows)
         /\ DOMAIN log' = 1 .. Len(log')
         /\ \A i \in DOMAIN log :
              i \in DOMAIN log' /\ log'[i] = log[i] /\ i \in 1 .. Len(log)
         /\ \A i \in DOMAIN log' :
              \/ i \in DOMAIN log /\ log'[i] = log[i]
              \/ /\ i - Len(log) \in 1 .. Cardinality(reads[r].rows)
                 /\ log'[i] = Messages(r)[i - Len(log)]
                 /\ log'[i].row \in reads[r].rows
<1>1. log \in Seq(Answer) /\ Messages(r) \in Seq(Answer)
  BY MessagesOf DEF MailInv, MailTypeOK
<1>2. Len(Messages(r)) = Cardinality(reads[r].rows) /\ Cardinality(reads[r].rows) \in Nat
  BY MessagesOf
<1>3. /\ log' \in Seq(Answer)
      /\ Len(log') = Len(log) + Len(Messages(r))
      /\ \A i \in 1 .. Len(log) + Len(Messages(r)) :
           log'[i] = IF i <= Len(log) THEN log[i] ELSE Messages(r)[i - Len(log)]
  BY <1>1, ConcatProperties
<1>4. /\ DOMAIN log = 1 .. Len(log) /\ DOMAIN log' = 1 .. Len(log') /\ Len(log) \in Nat
  BY <1>1, <1>3, LenProperties
<1>5. \A i \in DOMAIN log : i \in DOMAIN log' /\ log'[i] = log[i] /\ i \in 1 .. Len(log)
  BY <1>2, <1>3, <1>4
<1>6. ASSUME NEW i \in DOMAIN log', i \notin DOMAIN log
      PROVE  /\ i - Len(log) \in 1 .. Cardinality(reads[r].rows)
             /\ log'[i] = Messages(r)[i - Len(log)]
  BY <1>2, <1>3, <1>4, <1>6
<1>7. \A k \in 1 .. Cardinality(reads[r].rows) : Messages(r)[k].row \in reads[r].rows
  BY MessagesOf
<1>. QED
  BY <1>2, <1>3, <1>4, <1>5, <1>6, <1>7

\* Every step keeps the state typed (MailTypeOK).
LEMMA TypeStep ==
  ASSUME MailInv, [MailNext]_mailVars
  PROVE  MailTypeOK'
<1>. USE MailboxAssumption DEF MailInv
<1>. USE MailboxAssumption, FS_CardinalityType DEF MailTypeOK
<1>1. ASSUME NEW m \in Msg, SendFind(m), UNCHANGED sqlite PROVE MailTypeOK'
  <2>11. sends' = [sends EXCEPT ![m] = [sends[m] EXCEPT !.at = IF life = 0 THEN "refused" ELSE "found", !.to = life]]
    BY <1>1 DEF SendFind
  <2>12. [sends[m] EXCEPT !.at = IF life = 0 THEN "refused" ELSE "found", !.to = life] \in SendCall
    BY <1>1 DEF SendFind, SendCall
  <2>. QED
    BY <1>1, <2>11, <2>12 DEF SendFind
<1>2. ASSUME NEW m \in Msg, SendInsert(m), UNCHANGED sqlite PROVE MailTypeOK'
  <2>1. lastId \in Nat /\ lastId + 1 \in 1 .. Cardinality(Msg)
    BY <1>2, IdsLeft DEF SendInsert
  <2>2. sends[m].to \in 1 .. MaxLives
    BY <1>2 DEF SendInsert, Numbered
  <2>3. table' \subseteq Row
    BY <1>2, <2>1, <2>2 DEF SendInsert, NextId, Row, Id
  <2>4. NextId \in 0 .. Cardinality(Msg)
    BY <2>1 DEF NextId
  <2>11. sends' = [sends EXCEPT ![m] = [sends[m] EXCEPT !.at = IF sqlite THEN "sent" ELSE "inserted", !.id = NextId]]
    BY <1>2 DEF SendInsert, NextId
  <2>12. [sends[m] EXCEPT !.at = IF sqlite THEN "sent" ELSE "inserted", !.id = NextId] \in SendCall
    BY <1>2, <2>4 DEF SendInsert, SendCall
  <2>. QED
    BY <1>2, <2>11, <2>12, <2>1, <2>3 DEF SendInsert, NextId
<1>3. ASSUME NEW m \in Msg, SendCommit(m), UNCHANGED sqlite PROVE MailTypeOK'
  <2>1. sends[m].id \in Id /\ sends[m].to \in 1 .. MaxLives
    BY <1>3 DEF SendCommit, Numbered, Given, Id
  <2>2. table' \subseteq Row
    BY <1>3, <2>1 DEF SendCommit, Row
  <2>11. sends' = [sends EXCEPT ![m] = [sends[m] EXCEPT !.at = "sent"]]
    BY <1>3 DEF SendCommit
  <2>12. [sends[m] EXCEPT !.at = "sent"] \in SendCall
    BY <1>3 DEF SendCommit, SendCall
  <2>. QED
    BY <1>3, <2>11, <2>12, <2>2 DEF SendCommit
<1>4. ASSUME NEW r \in Reader, ReadFind(r), UNCHANGED sqlite PROVE MailTypeOK'
  <2>1. reads' = [reads EXCEPT ![r] = [reads[r] EXCEPT !.at = "begin", !.by = life]]
    BY <1>4 DEF ReadFind
  <2>2. [reads[r] EXCEPT !.at = "begin", !.by = life] \in ReadCall
    BY <1>4 DEF ReadFind, ReadCall
  <2>. QED
    BY <1>4, <2>1, <2>2 DEF ReadFind
<1>5. ASSUME NEW r \in Reader, ReadCursor(r), UNCHANGED sqlite PROVE MailTypeOK'
  <2>0. cursor \in 0 .. Cardinality(Msg)
    BY DEF Id, NoRow
  <2>1. reads' = [reads EXCEPT ![r] = [reads[r] EXCEPT !.at = "select", !.last = cursor]]
    BY <1>5 DEF ReadCursor
  <2>2. [reads[r] EXCEPT !.at = "select", !.last = cursor] \in ReadCall
    BY <2>0 DEF ReadCall
  <2>. QED
    BY <1>5, <2>1, <2>2 DEF ReadCursor
<1>6. ASSUME NEW r \in Reader, ReadSelect(r), UNCHANGED sqlite PROVE MailTypeOK'
  <2>1. reads' = [reads EXCEPT ![r] = [reads[r] EXCEPT !.at = "advance", !.rows = {w \in table : After(w.id, reads[r].last)}]]
    BY <1>6 DEF ReadSelect
  <2>2. [reads[r] EXCEPT !.at = "advance", !.rows = {w \in table : After(w.id, reads[r].last)}] \in ReadCall
    BY <1>6 DEF ReadSelect, ReadCall
  <2>. QED
    BY <1>6, <2>1, <2>2, ZenonT(60) DEF ReadSelect
<1>7. ASSUME NEW r \in Reader, ReadAdvance(r), UNCHANGED sqlite PROVE MailTypeOK'
  <2>1. reads' = [reads EXCEPT ![r] = [reads[r] EXCEPT !.at = "commit"]]
    BY <1>7 DEF ReadAdvance
  <2>2. [reads[r] EXCEPT !.at = "commit"] \in ReadCall
    BY <1>7 DEF ReadAdvance, ReadCall
  <2>. QED
    BY <1>7, <2>1, <2>2 DEF ReadAdvance
<1>8. ASSUME NEW r \in Reader, ReadCommit(r), UNCHANGED sqlite PROVE MailTypeOK'
  <2>1. /\ table' \subseteq Row
        /\ cursor' \in Id \union {NoRow}
    BY <1>8, HighestId, TableKeyed DEF ReadCommit
  <2>2. log' \in Seq(Answer)
    BY <1>8, MessagesOf, ConcatProperties DEF ReadCommit
  <2>3. lock' \in Reader \union {Nobody}
    BY <1>8 DEF ReadCommit, Release
  <2>4. NewRead \in ReadCall
    BY DEF NewRead, ReadCall
  <2>. QED
    BY <1>8, <2>1, <2>2, <2>3, <2>4 DEF ReadCommit
<1>9. ASSUME NEW r \in Reader, ReadFail(r), UNCHANGED sqlite PROVE MailTypeOK'
  <2>1. NewRead \in ReadCall
    BY DEF NewRead, ReadCall
  <2>. QED
    BY <1>9, <2>1 DEF ReadFail, Release
<1>10. ASSUME KillAgent, UNCHANGED sqlite PROVE MailTypeOK'
  BY <1>10 DEF KillAgent, MailTypeOK
<1>11. ASSUME RemoveMailbox, UNCHANGED sqlite PROVE MailTypeOK'
  BY <1>11 DEF RemoveMailbox, MailTypeOK
<1>12. ASSUME SpawnAgent, UNCHANGED sqlite PROVE MailTypeOK'
  BY <1>12 DEF SpawnAgent, MailTypeOK
<1>13. CASE UNCHANGED mailVars
  BY <1>13 DEF mailVars, mailWork, MailTypeOK
<1>. QED
  BY <1>1, <1>2, <1>3, <1>4, <1>5, <1>6, <1>7, <1>8, <1>9, <1>10, <1>11, <1>12, <1>13 DEF MailNext, ReadStep

\* Every step keeps the ids apart (Numbered).
LEMMA NumberedStep ==
  ASSUME MailInv, [MailNext]_mailVars
  PROVE  Numbered'
<1>. USE MailboxAssumption DEF MailInv
<1>1. ASSUME NEW m \in Msg, SendFind(m), UNCHANGED sqlite PROVE Numbered'
  <2>1. \A n \in Msg : n # m => sends'[n] = sends[n]
    BY <1>1 DEF SendFind, MailTypeOK
  <2>2. sends'[m].at \in {"refused", "found"} /\ (sends'[m].at = "found" => sends'[m].to \in 1 .. MaxLives)
    BY <1>1 DEF SendFind, MailTypeOK, SendCall
  <2>3. {n \in Msg : Given(n)}' = {n \in Msg : Given(n)}
    BY <1>1, <2>1, <2>2 DEF Given, SendFind
  <2>. QED
    BY <1>1, <2>1, <2>2, <2>3, ZenonT(60) DEF SendFind, Numbered, Given
<1>2. ASSUME NEW m \in Msg, SendInsert(m), UNCHANGED sqlite PROVE Numbered'
  <2>1. \A n \in Msg : n # m => sends'[n] = sends[n]
    BY <1>2 DEF SendInsert, MailTypeOK
  <2>2. /\ sends'[m].at = (IF sqlite THEN "sent" ELSE "inserted")
        /\ sends'[m].id = lastId + 1 /\ sends'[m].to = sends[m].to
    BY <1>2 DEF SendInsert, NextId, MailTypeOK, SendCall
  <2>3. {n \in Msg : Given(n)}' = {n \in Msg : Given(n)} \union {m}
    BY <1>2, <2>1, <2>2 DEF Given, SendInsert
  <2>4. lastId' = lastId + 1 /\ lastId \in Nat /\ lastId' = Cardinality({n \in Msg : Given(n)}')
    BY <1>2, <2>3, IdsLeft DEF SendInsert, NextId
  <2>5. \A n \in Msg : Given(n)' => n = m \/ Given(n)
    BY <2>1 DEF Given
  <2>6. \A n \in Msg : Given(n)' => sends'[n].id \in 1 .. lastId'
    BY <2>1, <2>2, <2>4, <2>5 DEF Numbered
  <2>7. \A k, n \in Msg : Given(k)' /\ Given(n)' /\ sends'[k].id = sends'[n].id => k = n
    BY <2>1, <2>2, <2>4, <2>5 DEF Numbered
  <2>8. \A n \in Msg : sends'[n].at \in {"found", "inserted", "sent"} => sends'[n].to \in 1 .. MaxLives
    BY <1>2, <2>1, <2>2 DEF Numbered, SendInsert
  <2>9. sqlite' => \A n \in Msg : sends'[n].at # "inserted"
    BY <1>2, <2>1, <2>2 DEF Numbered
  <2>. QED
    BY <2>4, <2>6, <2>7, <2>8, <2>9 DEF Numbered
<1>3. ASSUME NEW m \in Msg, SendCommit(m), UNCHANGED sqlite PROVE Numbered'
  <2>1. \A n \in Msg : n # m => sends'[n] = sends[n]
    BY <1>3 DEF SendCommit, MailTypeOK
  <2>2. sends'[m].at = "sent" /\ sends'[m].id = sends[m].id /\ sends'[m].to = sends[m].to
    BY <1>3 DEF SendCommit, MailTypeOK, SendCall
  <2>3. \A n \in Msg : Given(n)' <=> Given(n)
    BY <1>3, <2>1, <2>2 DEF Given, SendCommit
  <2>4. {n \in Msg : Given(n)}' = {n \in Msg : Given(n)}
    BY <2>3
  <2>5. \A n \in Msg : sends'[n].id = sends[n].id /\ sends'[n].to = sends[n].to
    BY <2>1, <2>2
  <2>6. \A n \in Msg : sends'[n].at \in {"found", "inserted"} => sends[n].at = sends'[n].at
    BY <2>1, <2>2
  <2>7. sqlite' => \A n \in Msg : sends'[n].at # "inserted"
    BY <1>3, <2>6 DEF Numbered
  <2>8. \A n \in Msg : sends'[n].at \in {"found", "inserted", "sent"} => sends'[n].to \in 1 .. MaxLives
    BY <1>3, <2>1, <2>2, <2>5 DEF Numbered, SendCommit
  <2>. QED
    BY <1>3, <2>3, <2>4, <2>5, <2>7, <2>8 DEF SendCommit, Numbered
<1>4. ASSUME NEW r \in Reader, ReadFind(r), UNCHANGED sqlite PROVE Numbered'
  BY <1>4 DEF ReadFind, Numbered, Given, MailTypeOK, SendCall
<1>5. ASSUME NEW r \in Reader, ReadCursor(r), UNCHANGED sqlite PROVE Numbered'
  BY <1>5 DEF ReadCursor, Numbered, Given, MailTypeOK, SendCall
<1>6. ASSUME NEW r \in Reader, ReadSelect(r), UNCHANGED sqlite PROVE Numbered'
  BY <1>6 DEF ReadSelect, Numbered, Given, MailTypeOK, SendCall
<1>7. ASSUME NEW r \in Reader, ReadAdvance(r), UNCHANGED sqlite PROVE Numbered'
  BY <1>7 DEF ReadAdvance, Numbered, Given, MailTypeOK, SendCall
<1>8. ASSUME NEW r \in Reader, ReadCommit(r), UNCHANGED sqlite PROVE Numbered'
  BY <1>8 DEF ReadCommit, Numbered, Given, MailTypeOK, SendCall
<1>9. ASSUME NEW r \in Reader, ReadFail(r), UNCHANGED sqlite PROVE Numbered'
  BY <1>9 DEF ReadFail, Numbered, Given, MailTypeOK, SendCall
<1>10. ASSUME KillAgent, UNCHANGED sqlite PROVE Numbered'
  BY <1>10 DEF KillAgent, Numbered, Given, MailTypeOK, SendCall
<1>11. ASSUME RemoveMailbox, UNCHANGED sqlite PROVE Numbered'
  BY <1>11 DEF RemoveMailbox, Numbered, Given, MailTypeOK, SendCall
<1>12. ASSUME SpawnAgent, UNCHANGED sqlite PROVE Numbered'
  BY <1>12 DEF SpawnAgent, Numbered, Given, MailTypeOK, SendCall
<1>13. CASE UNCHANGED mailVars
  BY <1>13 DEF mailVars, mailWork, Numbered, Given, MailTypeOK, SendCall
<1>. QED
  BY <1>1, <1>2, <1>3, <1>4, <1>5, <1>6, <1>7, <1>8, <1>9, <1>10, <1>11, <1>12, <1>13 DEF MailNext, ReadStep

\* Every step keeps rows to what was sent (RowsSent).
LEMMA RowsSentStep ==
  ASSUME MailInv, [MailNext]_mailVars
  PROVE  RowsSent'
<1>. USE MailboxAssumption DEF MailInv
<1>1. ASSUME NEW m \in Msg, SendFind(m), UNCHANGED sqlite PROVE RowsSent'
  <2>1. \A w \in Row : Sent(w) => Sent(w)'
    BY <1>1 DEF SendFind, Sent, Row, MailTypeOK, SendCall
  <2>. QED
    BY <1>1, <2>1, TableKeyed DEF SendFind, RowsSent, Keyed
<1>2. ASSUME NEW m \in Msg, SendInsert(m), UNCHANGED sqlite PROVE RowsSent'
  <2>1. \A w \in Row : Sent(w) => Sent(w)'
    BY <1>2 DEF SendInsert, Sent, Row, MailTypeOK, SendCall
  <2>5. sqlite => sends'[m].at = "sent" /\ sends'[m].id = NextId /\ sends'[m].to = sends[m].to
    BY <1>2 DEF SendInsert, MailTypeOK, SendCall
  <2>4. ASSUME NEW w, sqlite, w = [id |-> NextId, msg |-> m, to |-> sends[m].to]
        PROVE  Sent(w)'
    BY <2>4, <2>5 DEF Sent
  <2>2. \A w \in table' : Sent(w)'
    BY <1>2, <2>1, <2>4, TableKeyed DEF SendInsert, RowsSent, Keyed
  <2>3. lastId \in Nat /\ lastId' = lastId + 1 /\ cursor \in Nat
    BY <1>2, IdsLeft DEF SendInsert, NextId, MailTypeOK, NoRow, Id
  <2>. QED
    BY <1>2, <2>1, <2>2, <2>3, TableKeyed DEF SendInsert, RowsSent, Keyed
<1>3. ASSUME NEW m \in Msg, SendCommit(m), UNCHANGED sqlite PROVE RowsSent'
  <2>1. \A w \in Row : Sent(w) => Sent(w)'
    BY <1>3 DEF SendCommit, Sent, Row, MailTypeOK, SendCall
  <2>2. \A w \in table' : Sent(w)'
    BY <1>3, <2>1, TableKeyed DEF SendCommit, RowsSent, Keyed, Sent, MailTypeOK, SendCall
  <2>. QED
    BY <1>3, <2>1, <2>2, TableKeyed DEF SendCommit, RowsSent, Keyed
<1>4. ASSUME NEW r \in Reader, ReadFind(r), UNCHANGED sqlite PROVE RowsSent'
  <2>1. \A q \in Reader : q # r => reads'[q] = reads[q]
    BY <1>4 DEF ReadFind, MailTypeOK
  <2>2. reads'[r].at = "begin" /\ reads'[r].rows = reads[r].rows /\ reads'[r].by \in 1 .. MaxLives
    BY <1>4 DEF ReadFind, MailTypeOK, ReadCall, NewRead
  <2>3. \A w : Sent(w) => Sent(w)'
    BY <1>4 DEF ReadFind, Sent
  <2>4. \A q \in Reader : \A w \in reads'[q].rows : Sent(w)
    BY <1>4, <2>1, <2>2 DEF ReadFind, RowsSent
  <2>5. \A q \in Reader : /\ reads'[q].at \in {"idle", "begin", "select"} => reads'[q].rows = {}
                          /\ reads'[q].at # "idle" => reads'[q].by \in 1 .. MaxLives
    BY <1>4, <2>1, <2>2 DEF ReadFind, RowsSent
  <2>6. table' \subseteq table
    BY <1>4 DEF ReadFind
  <2>8. \A w \in table' : Sent(w)'
    BY <2>3, <2>6 DEF RowsSent
  <2>9. \A q \in Reader : \A w \in reads'[q].rows : Sent(w)'
    BY <2>3, <2>4
  <2>10. cursor' <= lastId'
    BY <1>4 DEF ReadFind, RowsSent
  <2>. QED
    BY <2>5, <2>8, <2>9, <2>10 DEF RowsSent
<1>5. ASSUME NEW r \in Reader, ReadCursor(r), UNCHANGED sqlite PROVE RowsSent'
  <2>1. \A q \in Reader : q # r => reads'[q] = reads[q]
    BY <1>5 DEF ReadCursor, MailTypeOK
  <2>2. reads'[r].at = "select" /\ reads'[r].rows = reads[r].rows /\ reads'[r].by = reads[r].by
    BY <1>5 DEF ReadCursor, MailTypeOK, ReadCall, NewRead
  <2>3. \A w : Sent(w) => Sent(w)'
    BY <1>5 DEF ReadCursor, Sent
  <2>4. \A q \in Reader : \A w \in reads'[q].rows : Sent(w)
    BY <1>5, <2>1, <2>2 DEF ReadCursor, RowsSent
  <2>5. \A q \in Reader : /\ reads'[q].at \in {"idle", "begin", "select"} => reads'[q].rows = {}
                          /\ reads'[q].at # "idle" => reads'[q].by \in 1 .. MaxLives
    BY <1>5, <2>1, <2>2 DEF ReadCursor, RowsSent
  <2>6. table' \subseteq table
    BY <1>5 DEF ReadCursor
  <2>8. \A w \in table' : Sent(w)'
    BY <2>3, <2>6 DEF RowsSent
  <2>9. \A q \in Reader : \A w \in reads'[q].rows : Sent(w)'
    BY <2>3, <2>4
  <2>10. cursor' <= lastId'
    BY <1>5 DEF ReadCursor, RowsSent
  <2>. QED
    BY <2>5, <2>8, <2>9, <2>10 DEF RowsSent
<1>6. ASSUME NEW r \in Reader, ReadSelect(r), UNCHANGED sqlite PROVE RowsSent'
  <2>1. \A q \in Reader : q # r => reads'[q] = reads[q]
    BY <1>6 DEF ReadSelect, MailTypeOK
  <2>2. reads'[r].at = "advance" /\ reads'[r].rows \subseteq table /\ reads'[r].by = reads[r].by
    BY <1>6 DEF ReadSelect, MailTypeOK, ReadCall, NewRead
  <2>3. \A w : Sent(w) => Sent(w)'
    BY <1>6 DEF ReadSelect, Sent
  <2>4. \A q \in Reader : \A w \in reads'[q].rows : Sent(w)
    BY <1>6, <2>1, <2>2 DEF ReadSelect, RowsSent
  <2>5. \A q \in Reader : /\ reads'[q].at \in {"idle", "begin", "select"} => reads'[q].rows = {}
                          /\ reads'[q].at # "idle" => reads'[q].by \in 1 .. MaxLives
    BY <1>6, <2>1, <2>2 DEF ReadSelect, RowsSent
  <2>6. table' \subseteq table
    BY <1>6 DEF ReadSelect
  <2>8. \A w \in table' : Sent(w)'
    BY <2>3, <2>6 DEF RowsSent
  <2>9. \A q \in Reader : \A w \in reads'[q].rows : Sent(w)'
    BY <2>3, <2>4
  <2>10. cursor' <= lastId'
    BY <1>6 DEF ReadSelect, RowsSent
  <2>. QED
    BY <2>5, <2>8, <2>9, <2>10 DEF RowsSent
<1>7. ASSUME NEW r \in Reader, ReadAdvance(r), UNCHANGED sqlite PROVE RowsSent'
  <2>1. \A q \in Reader : q # r => reads'[q] = reads[q]
    BY <1>7 DEF ReadAdvance, MailTypeOK
  <2>2. reads'[r].at = "commit" /\ reads'[r].rows = reads[r].rows /\ reads'[r].by = reads[r].by
    BY <1>7 DEF ReadAdvance, MailTypeOK, ReadCall, NewRead
  <2>3. \A w : Sent(w) => Sent(w)'
    BY <1>7 DEF ReadAdvance, Sent
  <2>4. \A q \in Reader : \A w \in reads'[q].rows : Sent(w)
    BY <1>7, <2>1, <2>2 DEF ReadAdvance, RowsSent
  <2>5. \A q \in Reader : /\ reads'[q].at \in {"idle", "begin", "select"} => reads'[q].rows = {}
                          /\ reads'[q].at # "idle" => reads'[q].by \in 1 .. MaxLives
    BY <1>7, <2>1, <2>2 DEF ReadAdvance, RowsSent
  <2>6. table' \subseteq table
    BY <1>7 DEF ReadAdvance
  <2>8. \A w \in table' : Sent(w)'
    BY <2>3, <2>6 DEF RowsSent
  <2>9. \A q \in Reader : \A w \in reads'[q].rows : Sent(w)'
    BY <2>3, <2>4
  <2>10. cursor' <= lastId'
    BY <1>7 DEF ReadAdvance, RowsSent
  <2>. QED
    BY <2>5, <2>8, <2>9, <2>10 DEF RowsSent
<1>8. ASSUME NEW r \in Reader, ReadCommit(r), UNCHANGED sqlite PROVE RowsSent'
  <2>1. \A q \in Reader : q # r => reads'[q] = reads[q]
    BY <1>8 DEF ReadCommit, MailTypeOK
  <2>2. reads'[r].at = "idle" /\ reads'[r].rows = {}
    BY <1>8 DEF ReadCommit, MailTypeOK, ReadCall, NewRead
  <2>3. \A w : Sent(w) => Sent(w)'
    BY <1>8 DEF ReadCommit, Sent
  <2>7. cursor' <= lastId'
    <3>1. CASE reads[r].rows = {}
      BY <1>8, <3>1 DEF ReadCommit, RowsSent
    <3>2. CASE reads[r].rows # {}
      <4>1. PICK w \in reads[r].rows : w.id = MaxIdOf(reads[r].rows)
        BY <3>2, TableKeyed, HighestId
      <4>2. Sent(w) /\ w.msg \in Msg
        BY TableKeyed DEF RowsSent, Keyed, Row
      <4>3. w.id <= lastId
        BY <4>2 DEF Sent, Numbered, Given
      <4>. QED
        BY <1>8, <3>2, <4>1, <4>3 DEF ReadCommit
    <3>. QED
      BY <3>1, <3>2
  <2>4. \A q \in Reader : \A w \in reads'[q].rows : Sent(w)
    BY <1>8, <2>1, <2>2 DEF ReadCommit, RowsSent
  <2>5. \A q \in Reader : /\ reads'[q].at \in {"idle", "begin", "select"} => reads'[q].rows = {}
                          /\ reads'[q].at # "idle" => reads'[q].by \in 1 .. MaxLives
    BY <1>8, <2>1, <2>2 DEF ReadCommit, RowsSent
  <2>6. table' \subseteq table
    BY <1>8 DEF ReadCommit
  <2>8. \A w \in table' : Sent(w)'
    BY <2>3, <2>6 DEF RowsSent
  <2>9. \A q \in Reader : \A w \in reads'[q].rows : Sent(w)'
    BY <2>3, <2>4
  <2>10. cursor' <= lastId'
    BY <1>8, <2>7 DEF ReadCommit, RowsSent
  <2>. QED
    BY <2>5, <2>8, <2>9, <2>10 DEF RowsSent
<1>9. ASSUME NEW r \in Reader, ReadFail(r), UNCHANGED sqlite PROVE RowsSent'
  <2>1. \A q \in Reader : q # r => reads'[q] = reads[q]
    BY <1>9 DEF ReadFail, MailTypeOK
  <2>2. reads'[r].at = "idle" /\ reads'[r].rows = {}
    BY <1>9 DEF ReadFail, MailTypeOK, ReadCall, NewRead
  <2>3. \A w : Sent(w) => Sent(w)'
    BY <1>9 DEF ReadFail, Sent
  <2>4. \A q \in Reader : \A w \in reads'[q].rows : Sent(w)
    BY <1>9, <2>1, <2>2 DEF ReadFail, RowsSent
  <2>5. \A q \in Reader : /\ reads'[q].at \in {"idle", "begin", "select"} => reads'[q].rows = {}
                          /\ reads'[q].at # "idle" => reads'[q].by \in 1 .. MaxLives
    BY <1>9, <2>1, <2>2 DEF ReadFail, RowsSent
  <2>6. table' \subseteq table
    BY <1>9 DEF ReadFail
  <2>8. \A w \in table' : Sent(w)'
    BY <2>3, <2>6 DEF RowsSent
  <2>9. \A q \in Reader : \A w \in reads'[q].rows : Sent(w)'
    BY <2>3, <2>4
  <2>10. cursor' <= lastId'
    BY <1>9 DEF ReadFail, RowsSent
  <2>. QED
    BY <2>5, <2>8, <2>9, <2>10 DEF RowsSent
<1>10. ASSUME KillAgent, UNCHANGED sqlite PROVE RowsSent'
  BY <1>10 DEF KillAgent, RowsSent, Sent
<1>11. ASSUME RemoveMailbox, UNCHANGED sqlite PROVE RowsSent'
  BY <1>11 DEF RemoveMailbox, RowsSent, Sent, MailTypeOK, NoRow
<1>12. ASSUME SpawnAgent, UNCHANGED sqlite PROVE RowsSent'
  BY <1>12 DEF SpawnAgent, RowsSent, Sent
<1>13. CASE UNCHANGED mailVars
  BY <1>13 DEF mailVars, mailWork, RowsSent, Sent
<1>. QED
  BY <1>1, <1>2, <1>3, <1>4, <1>5, <1>6, <1>7, <1>8, <1>9, <1>10, <1>11, <1>12, <1>13 DEF MailNext, ReadStep

\* Every step keeps reads apart (OneRead).
LEMMA OneReadStep ==
  ASSUME MailInv, [MailNext]_mailVars
  PROVE  OneRead'
<1>. USE MailboxAssumption DEF MailInv
<1>1. ASSUME NEW m \in Msg, SendFind(m), UNCHANGED sqlite PROVE OneRead'
  <2>1. \A q \in Reader : InRead(q)' <=> InRead(q)
    BY <1>1 DEF SendFind, InRead
  <2>. QED
    BY <1>1, <2>1 DEF SendFind, OneRead, NoRow
<1>2. ASSUME NEW m \in Msg, SendInsert(m), UNCHANGED sqlite PROVE OneRead'
  <2>1. \A q \in Reader : InRead(q)' <=> InRead(q)
    BY <1>2 DEF SendInsert, InRead
  <2>. QED
    BY <1>2, <2>1 DEF SendInsert, OneRead, NoRow
<1>3. ASSUME NEW m \in Msg, SendCommit(m), UNCHANGED sqlite PROVE OneRead'
  <2>1. \A q \in Reader : InRead(q)' <=> InRead(q)
    BY <1>3 DEF SendCommit, InRead
  <2>. QED
    BY <1>3, <2>1 DEF SendCommit, OneRead, NoRow
<1>4. ASSUME NEW r \in Reader, ReadFind(r), UNCHANGED sqlite PROVE OneRead'
  <2>1. \A q \in Reader : q # r => reads'[q] = reads[q]
    BY <1>4 DEF ReadFind, MailTypeOK
  <2>2. reads'[r].at = "begin"
    BY <1>4 DEF ReadFind, MailTypeOK, ReadCall, NewRead
  <2>3. \A q \in Reader : q # r => (InRead(q)' <=> InRead(q))
    BY <2>1 DEF InRead
  <2>4. InRead(r)' = FALSE
    BY <2>2 DEF InRead
  <2>. QED
    BY <1>4, <2>3, <2>4 DEF ReadFind, OneRead, LocksAtRead, Release, NoRow, MailTypeOK, InRead
<1>5. ASSUME NEW r \in Reader, ReadCursor(r), UNCHANGED sqlite PROVE OneRead'
  <2>1. \A q \in Reader : q # r => reads'[q] = reads[q]
    BY <1>5 DEF ReadCursor, MailTypeOK
  <2>2. reads'[r].at = "select"
    BY <1>5 DEF ReadCursor, MailTypeOK, ReadCall, NewRead
  <2>3. \A q \in Reader : q # r => (InRead(q)' <=> InRead(q))
    BY <2>1 DEF InRead
  <2>4. InRead(r)' = TRUE
    BY <2>2 DEF InRead
  <2>5. ~raced' => \A q \in Reader : ~InRead(q)
    BY <1>5 DEF ReadCursor, OneRead, LocksAtRead, InRead
  <2>6. ~raced' => lock = Nobody
    BY <1>5, <2>5 DEF ReadCursor, OneRead, MailTypeOK
  <2>. QED
    BY <1>5, <2>3, <2>4, <2>5, <2>6 DEF ReadCursor, OneRead, LocksAtRead, Release, NoRow, MailTypeOK, InRead
<1>6. ASSUME NEW r \in Reader, ReadSelect(r), UNCHANGED sqlite PROVE OneRead'
  <2>1. \A q \in Reader : q # r => reads'[q] = reads[q]
    BY <1>6 DEF ReadSelect, MailTypeOK
  <2>2. reads'[r].at = "advance"
    BY <1>6 DEF ReadSelect, MailTypeOK, ReadCall, NewRead
  <2>3. \A q \in Reader : q # r => (InRead(q)' <=> InRead(q))
    BY <2>1 DEF InRead
  <2>4. InRead(r)' = TRUE
    BY <2>2 DEF InRead
  <2>. QED
    BY <1>6, <2>3, <2>4 DEF ReadSelect, OneRead, LocksAtRead, Release, NoRow, MailTypeOK, InRead
<1>7. ASSUME NEW r \in Reader, ReadAdvance(r), UNCHANGED sqlite PROVE OneRead'
  <2>1. \A q \in Reader : q # r => reads'[q] = reads[q]
    BY <1>7 DEF ReadAdvance, MailTypeOK
  <2>2. reads'[r].at = "commit"
    BY <1>7 DEF ReadAdvance, MailTypeOK, ReadCall, NewRead
  <2>3. \A q \in Reader : q # r => (InRead(q)' <=> InRead(q))
    BY <2>1 DEF InRead
  <2>4. InRead(r)' = TRUE
    BY <2>2 DEF InRead
  <2>. QED
    BY <1>7, <2>3, <2>4 DEF ReadAdvance, OneRead, LocksAtRead, Release, NoRow, MailTypeOK, InRead
<1>8. ASSUME NEW r \in Reader, ReadCommit(r), UNCHANGED sqlite PROVE OneRead'
  <2>1. \A q \in Reader : q # r => reads'[q] = reads[q]
    BY <1>8 DEF ReadCommit, MailTypeOK
  <2>2. reads'[r].at = "idle"
    BY <1>8 DEF ReadCommit, MailTypeOK, ReadCall, NewRead
  <2>3. \A q \in Reader : q # r => (InRead(q)' <=> InRead(q))
    BY <2>1 DEF InRead
  <2>4. InRead(r)' = FALSE
    BY <2>2 DEF InRead
  <2>. QED
    BY <1>8, <2>3, <2>4 DEF ReadCommit, OneRead, LocksAtRead, Release, NoRow, MailTypeOK, InRead
<1>9. ASSUME NEW r \in Reader, ReadFail(r), UNCHANGED sqlite PROVE OneRead'
  <2>1. \A q \in Reader : q # r => reads'[q] = reads[q]
    BY <1>9 DEF ReadFail, MailTypeOK
  <2>2. reads'[r].at = "idle"
    BY <1>9 DEF ReadFail, MailTypeOK, ReadCall, NewRead
  <2>3. \A q \in Reader : q # r => (InRead(q)' <=> InRead(q))
    BY <2>1 DEF InRead
  <2>4. InRead(r)' = FALSE
    BY <2>2 DEF InRead
  <2>. QED
    BY <1>9, <2>3, <2>4 DEF ReadFail, OneRead, LocksAtRead, Release, NoRow, MailTypeOK, InRead
<1>10. ASSUME KillAgent, UNCHANGED sqlite PROVE OneRead'
  <2>1. \A q \in Reader : InRead(q)' <=> InRead(q)
    BY <1>10 DEF KillAgent, InRead
  <2>. QED
    BY <1>10, <2>1 DEF KillAgent, OneRead, NoRow
<1>11. ASSUME RemoveMailbox, UNCHANGED sqlite PROVE OneRead'
  <2>1. \A q \in Reader : InRead(q)' <=> InRead(q)
    BY <1>11 DEF RemoveMailbox, InRead
  <2>. QED
    BY <1>11, <2>1 DEF RemoveMailbox, OneRead, NoRow
<1>12. ASSUME SpawnAgent, UNCHANGED sqlite PROVE OneRead'
  <2>1. \A q \in Reader : InRead(q)' <=> InRead(q)
    BY <1>12 DEF SpawnAgent, InRead
  <2>. QED
    BY <1>12, <2>1 DEF SpawnAgent, OneRead, NoRow
<1>13. CASE UNCHANGED mailVars
  BY <1>13 DEF mailVars, mailWork, OneRead, InRead
<1>. QED
  BY <1>1, <1>2, <1>3, <1>4, <1>5, <1>6, <1>7, <1>8, <1>9, <1>10, <1>11, <1>12, <1>13 DEF MailNext, ReadStep

\* Every step keeps what was returned out of reach (ReturnedGone).
LEMMA ReturnedGoneStep ==
  ASSUME MailInv, [MailNext]_mailVars
  PROVE  ReturnedGone'
<1>. USE MailboxAssumption DEF MailInv
<1>1. ASSUME NEW m \in Msg, SendFind(m), UNCHANGED sqlite PROVE ReturnedGone'
  <2>1. \A n \in Msg : sends[n].at = "sent" => sends'[n].at = "sent"
    BY <1>1 DEF SendFind, MailTypeOK
  <2>2. \A i \in DOMAIN log : log[i].row.msg \in Msg
    BY LoggedRows DEF Row
  <2>. QED
    BY <1>1, <2>1, <2>2 DEF SendFind, ReturnedGone
<1>2. ASSUME NEW m \in Msg, SendInsert(m), UNCHANGED sqlite PROVE ReturnedGone'
  <2>1. \A n \in Msg : n # m => sends'[n] = sends[n]
    BY <1>2 DEF SendInsert, MailTypeOK
  <2>2. \A i \in DOMAIN log : log[i].row.msg \in Msg
    BY LoggedRows DEF Row
  <2>3. ~raced => \A i \in DOMAIN log : log[i].row.msg # m
    BY <1>2 DEF ReturnedGone, SendInsert
  <2>4. \A w \in table' : w \in table \/ w.msg = m
    BY <1>2 DEF SendInsert
  <2>5. reads' = reads /\ log' = log /\ raced' = raced
    BY <1>2 DEF SendInsert
  <2>. QED
    BY <2>1, <2>2, <2>3, <2>4, <2>5 DEF ReturnedGone
<1>3. ASSUME NEW m \in Msg, SendCommit(m), UNCHANGED sqlite PROVE ReturnedGone'
  <2>1. \A n \in Msg : n # m => sends'[n] = sends[n]
    BY <1>3 DEF SendCommit, MailTypeOK
  <2>2. \A i \in DOMAIN log : log[i].row.msg \in Msg
    BY LoggedRows DEF Row
  <2>3. ~raced => \A i \in DOMAIN log : log[i].row.msg # m
    BY <1>3 DEF ReturnedGone, SendCommit
  <2>4. \A w \in table' : w \in table \/ w.msg = m
    BY <1>3 DEF SendCommit
  <2>. QED
    BY <1>3, <2>1, <2>2, <2>3, <2>4 DEF SendCommit, ReturnedGone
<1>4. ASSUME NEW r \in Reader, ReadFind(r), UNCHANGED sqlite PROVE ReturnedGone'
  <2>1. \A q \in Reader : q # r => reads'[q] = reads[q]
    BY <1>4 DEF ReadFind, MailTypeOK
  <2>2. reads'[r].rows \subseteq reads[r].rows
    BY <1>4 DEF ReadFind, MailTypeOK, ReadCall, NewRead
  <2>3. \A q \in Reader : \A w \in reads'[q].rows : w \in reads[q].rows \/ w \in table
    BY <2>1, <2>2
  <2>4. ~raced' => ~raced
    BY <1>4 DEF ReadFind
  <2>. QED
    BY <1>4, <2>3, <2>4, ZenonT(60) DEF ReadFind, ReturnedGone
<1>5. ASSUME NEW r \in Reader, ReadCursor(r), UNCHANGED sqlite PROVE ReturnedGone'
  <2>1. \A q \in Reader : q # r => reads'[q] = reads[q]
    BY <1>5 DEF ReadCursor, MailTypeOK
  <2>2. reads'[r].rows \subseteq reads[r].rows
    BY <1>5 DEF ReadCursor, MailTypeOK, ReadCall, NewRead
  <2>3. \A q \in Reader : \A w \in reads'[q].rows : w \in reads[q].rows \/ w \in table
    BY <2>1, <2>2
  <2>4. ~raced' => ~raced
    BY <1>5 DEF ReadCursor
  <2>. QED
    BY <1>5, <2>3, <2>4, ZenonT(60) DEF ReadCursor, ReturnedGone
<1>6. ASSUME NEW r \in Reader, ReadSelect(r), UNCHANGED sqlite PROVE ReturnedGone'
  <2>1. \A q \in Reader : q # r => reads'[q] = reads[q]
    BY <1>6 DEF ReadSelect, MailTypeOK
  <2>2. reads'[r].rows \subseteq table
    BY <1>6 DEF ReadSelect, MailTypeOK, ReadCall, NewRead
  <2>3. \A q \in Reader : \A w \in reads'[q].rows : w \in reads[q].rows \/ w \in table
    BY <2>1, <2>2
  <2>4. ~raced' => ~raced
    BY <1>6 DEF ReadSelect
  <2>. QED
    BY <1>6, <2>3, <2>4, ZenonT(60) DEF ReadSelect, ReturnedGone
<1>7. ASSUME NEW r \in Reader, ReadAdvance(r), UNCHANGED sqlite PROVE ReturnedGone'
  <2>1. \A q \in Reader : q # r => reads'[q] = reads[q]
    BY <1>7 DEF ReadAdvance, MailTypeOK
  <2>2. reads'[r].rows \subseteq reads[r].rows
    BY <1>7 DEF ReadAdvance, MailTypeOK, ReadCall, NewRead
  <2>3. \A q \in Reader : \A w \in reads'[q].rows : w \in reads[q].rows \/ w \in table
    BY <2>1, <2>2
  <2>4. ~raced' => ~raced
    BY <1>7 DEF ReadAdvance
  <2>. QED
    BY <1>7, <2>3, <2>4 DEF ReadAdvance, ReturnedGone
<1>8. ASSUME NEW r \in Reader, ReadCommit(r), UNCHANGED sqlite PROVE ReturnedGone'
  <2>. SUFFICES ASSUME ~raced PROVE ReturnedGone'
    BY <1>8 DEF ReadCommit, ReturnedGone
  <2> DEFINE rows == reads[r].rows
  <2>1. \A q \in Reader : q # r => reads'[q] = reads[q]
    BY <1>8 DEF ReadCommit, MailTypeOK
  <2>2. reads'[r].rows = {}
    BY <1>8 DEF ReadCommit, MailTypeOK, NewRead
  <2>9. \A q \in Reader : q # r => ~InRead(q)
    BY <1>8 DEF ReadCommit, OneRead, InRead
  <2>10. \A q \in Reader : ~InRead(q) => reads[q].rows = {}
    BY DEF InRead, RowsSent, MailTypeOK, ReadCall
  <2>3. \A q \in Reader : q # r => reads'[q].rows = {}
    BY <2>1, <2>9, <2>10
  <2>4. \A i \in DOMAIN log' : \/ i \in DOMAIN log /\ log'[i] = log[i]
                              \/ log'[i].row \in rows
    BY <1>8, LogGrows DEF ReadCommit
  <2>5. \A w \in rows : sends[w.msg].at = "sent"
    BY DEF RowsSent, Sent
  <2>6. table' \subseteq table
    BY <1>8 DEF ReadCommit
  <2>7. \A w \in rows : \A v \in table' : v.msg # w.msg
    <3>1. SUFFICES ASSUME NEW w \in rows, NEW v \in table', v.msg = w.msg PROVE FALSE
      OBVIOUS
    <3>2. v.id = w.id
      BY <2>6, <3>1 DEF RowsSent, Sent
    <3>3. v \notin Consumed(rows)
      BY <1>8, <3>1 DEF ReadCommit
    <3>4. w.id <= MaxIdOf(rows)
      BY <3>1, TableKeyed, HighestId
    <3>. QED
      BY <2>6, <3>2, <3>3, <3>4 DEF Consumed
  <2>8. \A i \in DOMAIN log' : /\ sends[log'[i].row.msg].at = "sent"
                              /\ \A w \in table' : w.msg # log'[i].row.msg
    BY <2>4, <2>5, <2>6, <2>7 DEF ReturnedGone
  <2>. QED
    BY <1>8, <2>2, <2>3, <2>8 DEF ReadCommit, ReturnedGone
<1>9. ASSUME NEW r \in Reader, ReadFail(r), UNCHANGED sqlite PROVE ReturnedGone'
  <2>1. \A q \in Reader : q # r => reads'[q] = reads[q]
    BY <1>9 DEF ReadFail, MailTypeOK
  <2>2. reads'[r].rows \subseteq {}
    BY <1>9 DEF ReadFail, MailTypeOK, ReadCall, NewRead
  <2>3. \A q \in Reader : \A w \in reads'[q].rows : w \in reads[q].rows \/ w \in table
    BY <2>1, <2>2
  <2>4. ~raced' => ~raced
    BY <1>9 DEF ReadFail
  <2>. QED
    BY <1>9, <2>3, <2>4 DEF ReadFail, ReturnedGone
<1>10. ASSUME KillAgent, UNCHANGED sqlite PROVE ReturnedGone'
  BY <1>10 DEF KillAgent, ReturnedGone
<1>11. ASSUME RemoveMailbox, UNCHANGED sqlite PROVE ReturnedGone'
  BY <1>11 DEF RemoveMailbox, ReturnedGone
<1>12. ASSUME SpawnAgent, UNCHANGED sqlite PROVE ReturnedGone'
  BY <1>12 DEF SpawnAgent, ReturnedGone
<1>13. CASE UNCHANGED mailVars
  BY <1>13 DEF mailVars, mailWork, ReturnedGone
<1>. QED
  BY <1>1, <1>2, <1>3, <1>4, <1>5, <1>6, <1>7, <1>8, <1>9, <1>10, <1>11, <1>12, <1>13 DEF MailNext, ReadStep

\* Every step keeps deliveries single (DeliveredOnce).
LEMMA DeliveredOnceStep ==
  ASSUME MailInv, [MailNext]_mailVars
  PROVE  DeliveredOnce'
<1>. USE MailboxAssumption DEF MailInv
<1>1. ASSUME NEW m \in Msg, SendFind(m), UNCHANGED sqlite PROVE DeliveredOnce'
  BY <1>1 DEF SendFind, DeliveredOnce
<1>2. ASSUME NEW m \in Msg, SendInsert(m), UNCHANGED sqlite PROVE DeliveredOnce'
  BY <1>2 DEF SendInsert, DeliveredOnce
<1>3. ASSUME NEW m \in Msg, SendCommit(m), UNCHANGED sqlite PROVE DeliveredOnce'
  BY <1>3 DEF SendCommit, DeliveredOnce
<1>4. ASSUME NEW r \in Reader, ReadFind(r), UNCHANGED sqlite PROVE DeliveredOnce'
  BY <1>4 DEF ReadFind, DeliveredOnce
<1>5. ASSUME NEW r \in Reader, ReadCursor(r), UNCHANGED sqlite PROVE DeliveredOnce'
  <2>1. ~raced' => ~raced
    BY <1>5 DEF ReadCursor
  <2>. QED
    BY <1>5, <2>1 DEF ReadCursor, DeliveredOnce
<1>6. ASSUME NEW r \in Reader, ReadSelect(r), UNCHANGED sqlite PROVE DeliveredOnce'
  BY <1>6 DEF ReadSelect, DeliveredOnce
<1>7. ASSUME NEW r \in Reader, ReadAdvance(r), UNCHANGED sqlite PROVE DeliveredOnce'
  BY <1>7 DEF ReadAdvance, DeliveredOnce
<1>8. ASSUME NEW r \in Reader, ReadCommit(r), UNCHANGED sqlite PROVE DeliveredOnce'
  <2>. SUFFICES ASSUME ~raced,
                        NEW i \in DOMAIN log', NEW j \in DOMAIN log',
                        log'[i].row.msg = log'[j].row.msg
               PROVE  i = j
    BY <1>8 DEF ReadCommit, DeliveredOnce
  <2> DEFINE rows == reads[r].rows
             n == Len(log)
  <2>0. reads[r].at = "commit" /\ log' = log \o Messages(r)
    BY <1>8 DEF ReadCommit
  <2>1. /\ n \in Nat /\ DOMAIN log' \subseteq Nat
        /\ \A k \in DOMAIN log' :
             \/ k \in DOMAIN log /\ log'[k] = log[k]
             \/ /\ k - n \in 1 .. Cardinality(rows)
                /\ log'[k] = Messages(r)[k - n]
    BY <2>0, LogGrows
  <2>2. \A k \in DOMAIN log : \A w \in rows : w.msg # log[k].row.msg
    BY DEF ReturnedGone
  <2>3. \A k \in 1 .. Cardinality(rows) : Messages(r)[k].row \in rows
    BY <1>8, MessagesOf DEF ReadCommit
  <2>4. \A k, l \in 1 .. Cardinality(rows) :
          Messages(r)[k].row.msg = Messages(r)[l].row.msg => k = l
    <3>1. SUFFICES ASSUME NEW k \in 1 .. Cardinality(rows), NEW l \in 1 .. Cardinality(rows),
                          Messages(r)[k].row.msg = Messages(r)[l].row.msg
                   PROVE  k = l
      OBVIOUS
    <3>2. \A v, w \in rows : v.msg = w.msg => v = w
      BY TableKeyed DEF Keyed, RowsSent, Sent
    <3>3. Messages(r)[k].row = Messages(r)[l].row
      BY <2>3, <3>1, <3>2
    <3>. QED
      BY <1>8, <3>1, <3>3, MessagesOf DEF ReadCommit
  <2>5. CASE i \in DOMAIN log /\ log'[i] = log[i]
    BY <2>1, <2>2, <2>3, <2>5 DEF DeliveredOnce
  <2>6. CASE i - n \in 1 .. Cardinality(rows) /\ log'[i] = Messages(r)[i - n]
    <3>1. CASE j \in DOMAIN log /\ log'[j] = log[j]
      BY <2>2, <2>3, <2>6, <3>1
    <3>2. CASE j - n \in 1 .. Cardinality(rows) /\ log'[j] = Messages(r)[j - n]
      <4>1. i - n = j - n
        BY <2>4, <2>6, <3>2
      <4>. QED
        BY <2>1, <4>1
    <3>. QED
      BY <2>1, <3>1, <3>2
  <2>. QED
    BY <2>1, <2>5, <2>6
<1>9. ASSUME NEW r \in Reader, ReadFail(r), UNCHANGED sqlite PROVE DeliveredOnce'
  BY <1>9 DEF ReadFail, DeliveredOnce
<1>10. ASSUME KillAgent, UNCHANGED sqlite PROVE DeliveredOnce'
  BY <1>10 DEF KillAgent, DeliveredOnce
<1>11. ASSUME RemoveMailbox, UNCHANGED sqlite PROVE DeliveredOnce'
  BY <1>11 DEF RemoveMailbox, DeliveredOnce
<1>12. ASSUME SpawnAgent, UNCHANGED sqlite PROVE DeliveredOnce'
  BY <1>12 DEF SpawnAgent, DeliveredOnce
<1>13. CASE UNCHANGED mailVars
  BY <1>13 DEF mailVars, mailWork, DeliveredOnce
<1>. QED
  BY <1>1, <1>2, <1>3, <1>4, <1>5, <1>6, <1>7, <1>8, <1>9, <1>10, <1>11, <1>12, <1>13 DEF MailNext, ReadStep

\* Every step keeps a read of SQLite to what it began with (Snapshot).
LEMMA SnapshotStep ==
  ASSUME MailInv, [MailNext]_mailVars
  PROVE  Snapshot'
<1>. USE MailboxAssumption DEF MailInv
<1>1. ASSUME NEW m \in Msg, SendFind(m), UNCHANGED sqlite PROVE Snapshot'
  BY <1>1 DEF SendFind, Snapshot, Unread, InRead
<1>2. ASSUME NEW m \in Msg, SendInsert(m), UNCHANGED sqlite PROVE Snapshot'
  <2>1. sqlite => \A q \in Reader : ~InRead(q)
    BY <1>2 DEF SendInsert, OneRead, MailboxAssumption
  <2>2. sqlite => \A q \in Reader : ~InRead(q)'
    BY <1>2, <2>1 DEF SendInsert, InRead
  <2>. QED
    BY <1>2, <2>2 DEF Snapshot, InRead
<1>3. ASSUME NEW m \in Msg, SendCommit(m), UNCHANGED sqlite PROVE Snapshot'
  BY <1>3 DEF SendCommit, Snapshot, Numbered
<1>4. ASSUME NEW r \in Reader, ReadFind(r), UNCHANGED sqlite PROVE Snapshot'
  <2>. SUFFICES ASSUME sqlite PROVE Snapshot'
    BY <1>4 DEF Snapshot
  <2>1. \A q \in Reader : q # r => reads'[q] = reads[q]
    BY <1>4 DEF ReadFind, MailTypeOK
  <2>2. reads'[r].at = "begin"
    BY <1>4 DEF ReadFind, MailTypeOK, ReadCall, NewRead, OneRead, Snapshot, InRead, Unread, After
  <2>3. Unread' = Unread /\ cursor' = cursor
    BY <1>4 DEF ReadFind, Unread
  <2>. QED
    BY <2>1, <2>2, <2>3 DEF Snapshot, InRead
<1>5. ASSUME NEW r \in Reader, ReadCursor(r), UNCHANGED sqlite PROVE Snapshot'
  <2>. SUFFICES ASSUME sqlite PROVE Snapshot'
    BY <1>5 DEF Snapshot
  <2>1. \A q \in Reader : q # r => reads'[q] = reads[q]
    BY <1>5 DEF ReadCursor, MailTypeOK
  <2>2. reads'[r].at = "select" /\ reads'[r].last = cursor
    BY <1>5 DEF ReadCursor, MailTypeOK, ReadCall, NewRead, OneRead, Snapshot, InRead, Unread, After
  <2>3. Unread' = Unread /\ cursor' = cursor
    BY <1>5 DEF ReadCursor, Unread
  <2>. QED
    BY <2>1, <2>2, <2>3 DEF Snapshot, InRead
<1>6. ASSUME NEW r \in Reader, ReadSelect(r), UNCHANGED sqlite PROVE Snapshot'
  <2>. SUFFICES ASSUME sqlite PROVE Snapshot'
    BY <1>6 DEF Snapshot
  <2>1. \A q \in Reader : q # r => reads'[q] = reads[q]
    BY <1>6 DEF ReadSelect, MailTypeOK
  <2>2. reads'[r].at = "advance" /\ reads'[r].last = cursor /\ reads'[r].rows = Unread
    BY <1>6 DEF ReadSelect, MailTypeOK, ReadCall, NewRead, OneRead, Snapshot, InRead, Unread, After
  <2>3. Unread' = Unread /\ cursor' = cursor
    BY <1>6 DEF ReadSelect, Unread
  <2>. QED
    BY <2>1, <2>2, <2>3 DEF Snapshot, InRead
<1>7. ASSUME NEW r \in Reader, ReadAdvance(r), UNCHANGED sqlite PROVE Snapshot'
  <2>. SUFFICES ASSUME sqlite PROVE Snapshot'
    BY <1>7 DEF Snapshot
  <2>1. \A q \in Reader : q # r => reads'[q] = reads[q]
    BY <1>7 DEF ReadAdvance, MailTypeOK
  <2>2. reads'[r].at = "commit" /\ reads'[r].last = cursor /\ reads'[r].rows = Unread
    BY <1>7 DEF ReadAdvance, MailTypeOK, ReadCall, NewRead, OneRead, Snapshot, InRead, Unread, After
  <2>3. Unread' = Unread /\ cursor' = cursor
    BY <1>7 DEF ReadAdvance, Unread
  <2>. QED
    BY <2>1, <2>2, <2>3 DEF Snapshot, InRead
<1>8. ASSUME NEW r \in Reader, ReadCommit(r), UNCHANGED sqlite PROVE Snapshot'
  <2>. SUFFICES ASSUME sqlite PROVE Snapshot'
    BY <1>8 DEF Snapshot
  <2>1. \A q \in Reader : q # r => reads'[q] = reads[q]
    BY <1>8 DEF ReadCommit, MailTypeOK
  <2>2. reads'[r].at = "idle"
    BY <1>8 DEF ReadCommit, MailTypeOK, NewRead
  <2>3. \A q \in Reader : q # r => ~InRead(q)
    BY <1>8 DEF ReadCommit, OneRead, InRead
  <2>4. \A q \in Reader : reads'[q].at \notin {"select", "advance", "commit"}
    BY <2>1, <2>2, <2>3 DEF InRead
  <2>. QED
    BY <2>4 DEF Snapshot, InRead
<1>9. ASSUME NEW r \in Reader, ReadFail(r), UNCHANGED sqlite PROVE Snapshot'
  <2>. SUFFICES ASSUME sqlite PROVE Snapshot'
    BY <1>9 DEF Snapshot
  <2>1. \A q \in Reader : q # r => reads'[q] = reads[q]
    BY <1>9 DEF ReadFail, MailTypeOK
  <2>2. reads'[r].at = "idle"
    BY <1>9 DEF ReadFail, MailTypeOK, ReadCall, NewRead, OneRead, Snapshot, InRead, Unread, After
  <2>3. Unread' = Unread /\ cursor' = cursor
    BY <1>9 DEF ReadFail, Unread
  <2>. QED
    BY <2>1, <2>2, <2>3 DEF Snapshot, InRead
<1>10. ASSUME KillAgent, UNCHANGED sqlite PROVE Snapshot'
  BY <1>10 DEF KillAgent, Snapshot, Unread, InRead
<1>11. ASSUME RemoveMailbox, UNCHANGED sqlite PROVE Snapshot'
  <2>1. sqlite => \A q \in Reader : ~InRead(q)
    BY <1>11 DEF RemoveMailbox, OneRead, MailboxAssumption
  <2>2. sqlite => \A q \in Reader : ~InRead(q)'
    BY <1>11, <2>1 DEF RemoveMailbox, InRead
  <2>. QED
    BY <1>11, <2>2 DEF Snapshot, InRead
<1>12. ASSUME SpawnAgent, UNCHANGED sqlite PROVE Snapshot'
  BY <1>12 DEF SpawnAgent, Snapshot, Unread, InRead
<1>13. CASE UNCHANGED mailVars
  BY <1>13 DEF mailVars, mailWork, Snapshot, Unread, InRead
<1>. QED
  BY <1>1, <1>2, <1>3, <1>4, <1>5, <1>6, <1>7, <1>8, <1>9, <1>10, <1>11, <1>12, <1>13 DEF MailNext, ReadStep

(***************************************************************************)
(* The theorems                                                            *)
(***************************************************************************)

\* The invariant holds at the start: nothing is sent, read or in flight.
LEMMA MailStart == MailInit => MailInv
<1>. SUFFICES ASSUME MailInit PROVE MailInv
  OBVIOUS
<1>. USE MailboxAssumption DEF MailInit
<1>1. Cardinality(Msg) \in Nat
  BY FS_CardinalityType
<1>2. NewSend \in SendCall /\ NewRead \in ReadCall
  BY <1>1 DEF NewSend, NewRead, SendCall, ReadCall
<1>3. MailTypeOK
  <2>1. log \in Seq(Answer)
    BY EmptySeq
  <2>2. sends \in [Msg -> SendCall] /\ reads \in [Reader -> ReadCall]
    BY <1>2
  <2>3. {sqlite, raced, late} \subseteq BOOLEAN /\ removing \in BOOLEAN
    OBVIOUS
  <2>4. /\ life \in 0 .. MaxLives /\ lives \in 0 .. MaxLives /\ fails \in 0 .. MaxFails
        /\ lastId \in 0 .. Cardinality(Msg) /\ cursor \in Id \union {NoRow}
    BY <1>1
  <2>. QED
    BY <2>1, <2>2, <2>3, <2>4 DEF MailTypeOK
<1>4. {m \in Msg : Given(m)} = {}
  BY DEF Given, NewSend
<1>5. Numbered
  BY <1>4, FS_EmptySet DEF Numbered, Given, NewSend
<1>6. RowsSent
  BY DEF RowsSent, NewRead, NoRow
<1>7. OneRead
  BY DEF OneRead, InRead, NewRead
<1>8. ReturnedGone /\ DeliveredOnce
  BY DEF ReturnedGone, DeliveredOnce
<1>9. Snapshot
  BY DEF Snapshot, InRead, NewRead
<1>. QED
  BY <1>3, <1>5, <1>6, <1>7, <1>8, <1>9 DEF MailInv

\* The invariant of a mailbox: ids are given once and in order, rows are
\* what was sent, one read runs at a time, and what it returned is gone.
THEOREM MailboxInvariant == MailSpec => []MailInv
<1>1. MailInv /\ [MailNext]_mailVars => MailInv'
  BY TypeStep, NumberedStep, RowsSentStep, OneReadStep, ReturnedGoneStep, SnapshotStep,
     DeliveredOnceStep DEF MailInv
<1>. QED
  BY MailStart, <1>1, PTL DEF MailSpec

\* No message is returned by two reads, whatever the number of readers,
\* sends, failing reads and agents that have the name, unless two reads
\* overlapped while there was no cursor row to lock (Read in both stores).
THEOREM MessagesDeliveredOnce == MailSpec => []DeliveredOnce
<1>1. MailInv => DeliveredOnce
  BY DEF MailInv
<1>. QED
  BY <1>1, MailboxInvariant, PTL

(***************************************************************************)
(* SQLiteMailbox implements Inbox                                          *)
(***************************************************************************)

\* The queue and the output are sequences of messages.
QueueShape ==
  /\ Queued \in Seq(Msg) /\ Delivered \in Seq(Msg)
  /\ Cardinality(Unread) \in Nat /\ Len(log) \in Nat
  /\ sqlite => Len(Queued) = Cardinality(Unread) /\ Len(Delivered) = Len(log)
  /\ ~sqlite => Queued = <<>> /\ Delivered = <<>>
  /\ \A i \in 1 .. Len(Queued) : Queued[i] = InOrder(Unread)[i].msg
  /\ \A i \in 1 .. Len(Delivered) : Delivered[i] = log[i].row.msg

\* A mailbox has that shape (Read, whatever is unread).
LEMMA QueueOf == MailInv => QueueShape
<1>. SUFFICES ASSUME MailInv PROVE QueueShape
  OBVIOUS
<1> DEFINE n == IF sqlite THEN Cardinality(Unread) ELSE 0
           k == IF sqlite THEN Len(log) ELSE 0
<1>1. Cardinality(Unread) \in Nat /\ Keyed(Unread)
  BY TableKeyed, RowsFinite
<1>2. log \in Seq(Answer) /\ Len(log) \in Nat /\ DOMAIN log = 1 .. Len(log) /\ sqlite \in BOOLEAN
  BY LenProperties DEF MailInv, MailTypeOK
<1>3. n \in Nat /\ k \in Nat
  BY <1>1, <1>2
<1>4. \A i \in 1 .. n : InOrder(Unread)[i].msg \in Msg
  BY <1>1, InOrderRows DEF Keyed, Row
<1>5. \A i \in 1 .. k : log[i].row.msg \in Msg
  BY <1>2, LoggedRows DEF Row
<1>6. Queued \in [1 .. n -> Msg] /\ Delivered \in [1 .. k -> Msg]
  BY <1>4, <1>5 DEF Queued, Delivered
<1>7. Queued \in Seq(Msg) /\ Len(Queued) = n /\ Delivered \in Seq(Msg) /\ Len(Delivered) = k
  BY <1>3, <1>6, SeqDef, LenProperties
<1>8. ~sqlite => Queued = <<>> /\ Delivered = <<>>
  BY <1>7, EmptySeq
<1>9. /\ \A i \in 1 .. Len(Queued) : Queued[i] = InOrder(Unread)[i].msg
      /\ \A i \in 1 .. Len(Delivered) : Delivered[i] = log[i].row.msg
  BY <1>7 DEF Queued, Delivered
<1>. QED
  BY <1>1, <1>2, <1>7, <1>8, <1>9 DEF QueueShape

\* ... and has it after every step.
LEMMA QueueNext == MailInv' => QueueShape'
  BY QueueOf, PTL

\* Two states with the same unread rows and returned messages are the same
\* queue (what is in flight is not part of it).
LEMMA SameQueue ==
  ASSUME sqlite' = sqlite, Unread' = Unread, log' = log
  PROVE  Queued' = Queued /\ Delivered' = Delivered
  BY DEF Queued, Delivered

\* An INSERT appends to the queue: its id is the highest (SQLiteMailbox.Send).
LEMMA InsertAppends ==
  ASSUME MailInv, MailInv', sqlite, NEW m \in Msg, SendInsert(m), UNCHANGED sqlite
  PROVE  InboxImpl!Send(m)
<1> DEFINE x == [id |-> NextId, msg |-> m, to |-> sends[m].to]
<1>. HIDE DEF x
<1>1. lastId \in Nat /\ lastId + 1 \in 1 .. Cardinality(Msg)
  BY IdsLeft DEF SendInsert
<1>2. x \in Row /\ x.id = lastId + 1 /\ x.msg = m
  BY <1>1 DEF x, Row, Id, NextId, SendInsert, MailInv, Numbered
<1>3. table' = table \union {x} /\ cursor' = cursor /\ log' = log
  BY DEF SendInsert, x
<1>4. cursor < x.id
  BY <1>1, <1>2 DEF MailInv, RowsSent, MailTypeOK, Id, NoRow
<1>5. Unread' = Unread \union {x}
  BY <1>3, <1>4 DEF Unread, After
<1>6. \A w \in Unread : w.id < x.id
  BY <1>1, <1>2, TableKeyed DEF Unread, Keyed, Row, Id
<1>7. /\ Cardinality(Unread \union {x}) = Cardinality(Unread) + 1
      /\ \A i \in 1 .. Cardinality(Unread) : InOrder(Unread \union {x})[i] = InOrder(Unread)[i]
      /\ InOrder(Unread \union {x})[Cardinality(Unread) + 1] = x
  BY <1>2, <1>6, TableKeyed, NewestLast
<1>8. /\ Queued \in Seq(Msg) /\ Len(Queued) = Cardinality(Unread) /\ Len(Queued) \in Nat
      /\ \A i \in 1 .. Len(Queued) : Queued[i] = InOrder(Unread)[i].msg
  BY QueueOf DEF QueueShape
<1>9. /\ Queued' \in Seq(Msg) /\ Len(Queued') = Cardinality(Unread')
      /\ \A i \in 1 .. Len(Queued') : Queued'[i] = InOrder(Unread')[i].msg
  <2>1. sqlite'
    OBVIOUS
  <2>. QED
    BY <2>1, QueueNext DEF QueueShape
<1>10. Queued' = Append(Queued, m)
  <2>1. Append(Queued, m) \in Seq(Msg) /\ Len(Append(Queued, m)) = Len(Queued) + 1
    BY <1>8, AppendProperties
  <2>2. \A i \in 1 .. Len(Queued) + 1 :
          Append(Queued, m)[i] = IF i <= Len(Queued) THEN Queued[i] ELSE m
    BY <1>8, AppendProperties
  <2>3. \A i \in 1 .. Len(Queued) + 1 :
          Queued'[i] = IF i <= Len(Queued) THEN Queued[i] ELSE m
    <3>1. SUFFICES ASSUME NEW i \in 1 .. Len(Queued) + 1
                   PROVE  Queued'[i] = IF i <= Len(Queued) THEN Queued[i] ELSE m
      OBVIOUS
    <3>2. Queued'[i] = InOrder(Unread \union {x})[i].msg
      BY <1>5, <1>7, <1>8, <1>9
    <3>3. CASE i \in 1 .. Len(Queued)
      <4>1. i \in 1 .. Cardinality(Unread) /\ i <= Len(Queued)
        BY <1>8, <3>3
      <4>2. InOrder(Unread \union {x})[i] = InOrder(Unread)[i] /\ Queued[i] = InOrder(Unread)[i].msg
        BY <1>7, <1>8, <3>3, <4>1
      <4>. QED
        BY <3>2, <4>1, <4>2
    <3>4. CASE i = Len(Queued) + 1
      BY <1>2, <1>7, <1>8, <3>2, <3>4
    <3>. QED
      BY <1>8, <3>3, <3>4
  <2>. QED
    BY <1>5, <1>7, <1>8, <1>9, <2>1, <2>2, <2>3, SeqEqual
<1>11. Delivered' = Delivered
  BY <1>3 DEF Delivered
<1>. QED
  BY <1>10, <1>11 DEF InboxImpl!Send

\* A read that commits takes all that is unread (SQLiteMailbox.Read).
LEMMA CommitTakesAll ==
  ASSUME MailInv, MailInv', sqlite, NEW r \in Reader, ReadCommit(r), UNCHANGED sqlite
  PROVE  InboxImpl!Read
<1> DEFINE rows == reads[r].rows
           n    == Cardinality(Unread)
<1>1. reads[r].at = "commit" /\ log' = log \o Messages(r)
  BY DEF ReadCommit
<1>2. rows = Unread /\ Keyed(Unread) /\ Keyed(table)
  BY <1>1, TableKeyed DEF MailInv, Snapshot
<1>3. Unread' = {}
  <2>1. CASE rows = {}
    BY <1>2, <2>1 DEF ReadCommit, Unread
  <2>2. CASE rows # {}
    <3>1. MaxIdOf(rows) \in Id /\ \A v \in rows : v.id <= MaxIdOf(rows)
      BY <1>2, <2>2, HighestId
    <3>2. table' = table \ Consumed(rows) /\ cursor' = MaxIdOf(rows)
      BY <2>2 DEF ReadCommit
    <3>3. ASSUME NEW w \in table', w.id > MaxIdOf(rows) PROVE FALSE
      <4>1. w \in table /\ w \notin rows
        BY <3>1, <3>2, <3>3, <1>2 DEF Keyed, Row, Id
      <4>2. ~(w.id > cursor)
        BY <1>2, <4>1 DEF Unread, After
      <4>3. PICK v \in rows : v.id = MaxIdOf(rows)
        BY <1>2, <2>2, HighestId
      <4>4. v.id > cursor
        BY <1>2, <4>3 DEF Unread, After
      <4>. QED
        BY <1>2, <3>1, <3>3, <4>1, <4>2, <4>3, <4>4 DEF Keyed, Row, Id, MailInv, MailTypeOK, NoRow
    <3>. QED
      BY <3>2, <3>3 DEF Unread, After
  <2>. QED
    BY <2>1, <2>2
<1>4. Queued' = <<>>
  <2>1. sqlite' /\ Cardinality(Unread') = 0
    BY <1>3, FS_EmptySet
  <2>2. Queued' \in Seq(Msg) /\ Len(Queued') = 0
    BY <2>1, QueueNext DEF QueueShape
  <2>. QED
    BY <2>2, EmptySeq
<1>5. Delivered' = Delivered \o Queued
  <2>1. /\ Queued \in Seq(Msg) /\ Len(Queued) = n /\ n \in Nat
        /\ Delivered \in Seq(Msg) /\ Len(Delivered) = Len(log) /\ Len(log) \in Nat
        /\ \A i \in 1 .. n : Queued[i] = InOrder(Unread)[i].msg
        /\ \A i \in 1 .. Len(log) : Delivered[i] = log[i].row.msg
    BY QueueOf DEF QueueShape
  <2>2. /\ Delivered' \in Seq(Msg) /\ Len(Delivered') = Len(log')
        /\ \A i \in 1 .. Len(log') : Delivered'[i] = log'[i].row.msg
    <3>1. sqlite'
      OBVIOUS
    <3>. QED
      BY <3>1, QueueNext DEF QueueShape
  <2>3. Len(log') = Len(log) + n
    BY <1>1, <1>2, LogGrows
  <2>4. \A i \in 1 .. Len(log) + n :
          log'[i] = IF i <= Len(log) THEN log[i] ELSE Messages(r)[i - Len(log)]
    <3>1. log \in Seq(Answer) /\ Messages(r) \in Seq(Answer) /\ Len(Messages(r)) = n
      BY <1>1, <1>2, MessagesOf DEF MailInv, MailTypeOK
    <3>. QED
      BY <1>1, <3>1, ConcatProperties
  <2>5. \A i \in 1 .. n : Messages(r)[i].row.msg = Queued[i]
    BY <1>1, <1>2, <2>1, MessagesOf
  <2>6. \A i \in 1 .. Len(log) + n :
          Delivered'[i] = IF i <= Len(log) THEN Delivered[i] ELSE Queued[i - Len(log)]
    <3>1. SUFFICES ASSUME NEW i \in 1 .. Len(log) + n
                   PROVE  Delivered'[i] = IF i <= Len(log) THEN Delivered[i] ELSE Queued[i - Len(log)]
      OBVIOUS
    <3>2. Delivered'[i] = log'[i].row.msg
      BY <2>2, <2>3
    <3>3. CASE i \in 1 .. Len(log)
      BY <2>1, <2>4, <3>2, <3>3
    <3>4. CASE i > Len(log)
      <4>1. i - Len(log) \in 1 .. n
        BY <2>1, <3>4
      <4>2. log'[i] = Messages(r)[i - Len(log)]
        <5>1. ~(i <= Len(log))
          BY <2>1, <3>4
        <5>2. log'[i] = IF i <= Len(log) THEN log[i] ELSE Messages(r)[i - Len(log)]
          BY <2>4
        <5>. QED
          BY ONLY <5>1, <5>2
      <4>. QED
        BY <2>1, <2>5, <3>2, <3>4, <4>1, <4>2
    <3>. QED
      BY <2>1, <3>3, <3>4
  <2>7. /\ Delivered \o Queued \in Seq(Msg) /\ Len(Delivered \o Queued) = Len(log) + n
        /\ \A i \in 1 .. Len(log) + n :
             (Delivered \o Queued)[i] = IF i <= Len(log) THEN Delivered[i] ELSE Queued[i - Len(log)]
    <3>0. Delivered \in Seq(Msg) /\ Queued \in Seq(Msg)
      BY <2>1
    <3>1. Len(Delivered) + Len(Queued) = Len(log) + n
      BY <2>1
    <3>2. /\ Delivered \o Queued \in Seq(Msg)
          /\ Len(Delivered \o Queued) = Len(Delivered) + Len(Queued)
          /\ \A i \in 1 .. Len(Delivered) + Len(Queued) :
               (Delivered \o Queued)[i] =
                 IF i <= Len(Delivered) THEN Delivered[i] ELSE Queued[i - Len(Delivered)]
      BY <3>0, ConcatProperties, Zenon
    <3>. QED
      BY <2>1, <3>1, <3>2
  <2>. QED
    BY <2>2, <2>3, <2>6, <2>7, SeqEqual, ZenonT(60)
<1>. QED
  BY <1>4, <1>5 DEF InboxImpl!Read

\* Removing a mailbox empties the queue (Mailbox.Remove).
LEMMA RemoveEmpties ==
  ASSUME MailInv', sqlite, RemoveMailbox, UNCHANGED sqlite
  PROVE  InboxImpl!Remove
<1>1. Unread' = {} /\ sqlite'
  BY DEF RemoveMailbox, Unread
<1>2. Cardinality(Unread') = 0
  BY <1>1, FS_EmptySet
<1>3. Queued' \in Seq(Msg) /\ Len(Queued') = 0
  BY <1>1, <1>2, QueueNext DEF QueueShape
<1>4. Queued' = <<>>
  BY <1>3, EmptySeq
<1>5. Delivered' = Delivered
  BY DEF RemoveMailbox, Delivered
<1>. QED
  BY <1>4, <1>5 DEF InboxImpl!Remove

\* The mailbox of SQLite is the queue of Inbox: an INSERT is Send, the
\* COMMIT of a read is Read, Mailbox.Remove is Remove, and every other step
\* of a call or of the agent's life leaves the queue as it is.
THEOREM SQLiteMailboxIsQueue == MailSpec => IsQueue
<1>1. MailInit => InboxImpl!Init
  <2>. SUFFICES ASSUME MailInit PROVE Queued = <<>> /\ Delivered = <<>>
    BY DEF InboxImpl!Init
  <2>1. MailInv
    BY MailStart
  <2>2. Unread = {} /\ log = <<>>
    BY DEF MailInit, Unread
  <2>3. Cardinality(Unread) = 0 /\ Len(log) = 0
    BY <2>2, FS_EmptySet, EmptySeq
  <2>4. sqlite \in BOOLEAN
    BY DEF MailInit
  <2>. QED
    BY <2>1, <2>3, <2>4, QueueOf, EmptySeq DEF QueueShape
<1>2. MailInv /\ MailInv' /\ [MailNext]_mailVars => [InboxImpl!Next]_<<Queued, Delivered>>
  <2>. SUFFICES ASSUME MailInv, MailInv', [MailNext]_mailVars
                PROVE  InboxImpl!Next \/ (Queued' = Queued /\ Delivered' = Delivered)
    BY Zenon
  <2>1. sqlite' = sqlite /\ sqlite \in BOOLEAN
    BY DEF MailNext, mailVars, MailInv, MailTypeOK
  <2>2. CASE ~sqlite
    BY <2>1, <2>2, QueueOf, QueueNext DEF QueueShape
  <2>3. CASE sqlite
    <3>1. CASE UNCHANGED mailVars
      BY <3>1, SameQueue DEF mailVars, mailWork, Unread
    <3>2. ASSUME NEW m \in Msg, SendFind(m)
          PROVE  Queued' = Queued /\ Delivered' = Delivered
      BY <2>1, <3>2, SameQueue DEF SendFind, Unread
    <3>3. ASSUME NEW m \in Msg, SendInsert(m)
          PROVE  InboxImpl!Next
      BY <2>1, <2>3, <3>3, InsertAppends DEF InboxImpl!Next
    <3>4. ASSUME NEW m \in Msg, SendCommit(m)
          PROVE  FALSE
      BY <2>3, <3>4 DEF SendCommit, MailInv, Numbered
    <3>5. ASSUME NEW r \in Reader, ReadFind(r) \/ ReadCursor(r) \/ ReadSelect(r) \/ ReadAdvance(r) \/ ReadFail(r)
          PROVE  Queued' = Queued /\ Delivered' = Delivered
      BY <2>1, <3>5, SameQueue DEF ReadFind, ReadCursor, ReadSelect, ReadAdvance, ReadFail, Unread
    <3>6. ASSUME NEW r \in Reader, ReadCommit(r)
          PROVE  InboxImpl!Next
      BY <2>1, <2>3, <3>6, CommitTakesAll DEF InboxImpl!Next
    <3>7. CASE KillAgent \/ SpawnAgent
      BY <2>1, <3>7, SameQueue DEF KillAgent, SpawnAgent, Unread
    <3>8. CASE RemoveMailbox
      BY <2>1, <2>3, <3>8, RemoveEmpties DEF InboxImpl!Next
    <3>. QED
      BY <3>1, <3>2, <3>3, <3>4, <3>5, <3>6, <3>7, <3>8 DEF MailNext, ReadStep
  <2>. QED
    BY <2>1, <2>2, <2>3
<1>. QED
  BY <1>1, <1>2, MailboxInvariant, PTL DEF MailSpec, IsQueue, InboxImpl!Spec

(***************************************************************************)
(* Stream agents                                                           *)
(***************************************************************************)

\* A SpawnStream call at work, and where one, or the goroutine it started,
\* looks after its session.
Working(s) == spawn[s] \notin {"idle", "over"}
SpawnPlace == {"idle", "workspace", "start", "config", "secret", "pod", "ready", "connect", "register", "record",
               "close", "remove", "undo", "over"}
WatcherPlace == {"none", "send", "close", "cleanup", "fail", "idle", "watch", "exit", "mark", "over"}
StreamRow == [status : Live \cup {"Failed", "Stopped"}, of : Spawn] \cup {NoAgentRow}

StreamTypes ==
    /\ row \in StreamRow /\ reg \in Spawn \cup {NoSpawn}
    /\ sess \in [Spawn -> {"none", "up", "gone"}]
    /\ spawn \in [Spawn -> SpawnPlace] /\ watcher \in [Spawn -> WatcherPlace]

\* One call works at a time, under a name without a row, and what it registers
\* stays registered until it inserts the row.
OneAtWork ==
    /\ \A s, u \in Spawn : Working(s) /\ Working(u) => s = u
    /\ \A s \in Spawn : Working(s) => row = NoAgentRow
    /\ \A s \in Spawn : spawn[s] = "record" => reg \in {s, NoSpawn}
    /\ row # NoAgentRow => reg \in {row.of, NoSpawn}

LookedAfter ==
    \A s \in Spawn : sess[s] = "up" => \/ spawn[s] \in {"register", "record", "close"}
                                       \/ watcher[s] \in {"send", "idle", "watch", "close"}

\* The inductive invariant behind NoStraySession.
StreamInv == StreamTypes /\ OneAtWork /\ LookedAfter

\* What a step may do to the sessions but open one.
SessionsOnlyEnd == /\ sess' \in [Spawn -> {"none", "up", "gone"}]
                   /\ \A s \in Spawn : sess'[s] = "up" => sess[s] = "up"

\* A row keeps its agent, or goes.
SameAgent == row' \in StreamRow /\ (row' = NoAgentRow \/ (row # NoAgentRow /\ row'.of = row.of))

LEMMA SameRows ==
  ASSUME StreamInv
  PROVE  /\ \A from, status : status \in Live \cup {"Failed", "Stopped"} /\ "none" \notin from /\ MarkIf(from, status) => SameAgent
         /\ \A status \in Live \cup {"Failed", "Stopped"} : Overwrite(status) => SameAgent
         /\ UNCHANGED row => SameAgent
<1>1. row \in StreamRow
  BY DEF StreamInv, StreamTypes
<1>2. ASSUME NEW status \in Live \cup {"Failed", "Stopped"}, row # NoAgentRow, row' = [row EXCEPT !.status = status]
      PROVE  SameAgent
  BY <1>1, <1>2 DEF StreamRow, SameAgent
<1>3. UNCHANGED row => SameAgent
  BY <1>1 DEF SameAgent
<1>4. row.status # "none" => row # NoAgentRow
  BY DEF NoAgentRow
<1>5. ASSUME NEW from, NEW status \in Live \cup {"Failed", "Stopped"}, "none" \notin from, MarkIf(from, status)
      PROVE  SameAgent
  <2>1. CASE row.status \in from
    BY <1>2, <1>4, <1>5, <2>1 DEF MarkIf
  <2>2. CASE row.status \notin from
    BY <1>3, <1>5, <2>2 DEF MarkIf
  <2>. QED
    BY <2>1, <2>2
<1>6. ASSUME NEW status \in Live \cup {"Failed", "Stopped"}, Overwrite(status)
      PROVE  SameAgent
  BY <1>2, <1>3, <1>6 DEF Overwrite
<1>. QED
  BY <1>3, <1>5, <1>6

\* Deleting a pod, closing a session and a host that ends only end sessions.
LEMMA SessionsEnd ==
  ASSUME StreamInv
  PROVE  /\ \A h : KillStreamPod(h) => SessionsOnlyEnd
         /\ \A os : Discard(os) => SessionsOnlyEnd
         /\ \A os : SessionsWithout(os) => SessionsOnlyEnd
         /\ \A s : Close(s) => SessionsOnlyEnd
         /\ UNCHANGED sess => SessionsOnlyEnd
<1>1. sess \in [Spawn -> {"none", "up", "gone"}]
  BY DEF StreamInv, StreamTypes
<1>2. \A os : SessionsWithout(os) => SessionsOnlyEnd
  BY <1>1 DEF SessionsWithout, SessionsOnlyEnd
<1>3. UNCHANGED sess => SessionsOnlyEnd
  BY <1>1 DEF SessionsOnlyEnd
<1>4. \A s : Close(s) => SessionsOnlyEnd
  BY <1>1 DEF Close, SessionsOnlyEnd
<1>. QED
  BY <1>2, <1>3, <1>4 DEF KillStreamPod, Discard

\* A step that leaves the calls and the registry alone, or empties it.
LEMMA StreamKept ==
  ASSUME StreamInv, SameAgent, SessionsOnlyEnd, reg' \in {reg, NoSpawn}, spawn' = spawn,
         watcher' \in [Spawn -> WatcherPlace],
         \A s \in Spawn : \/ watcher'[s] = watcher[s] \/ watcher'[s] \in {"send", "idle", "watch", "close"}
                         \/ sess'[s] # "up" \/ spawn[s] \in {"register", "record", "close"}
  PROVE  StreamInv'
<1>1. StreamTypes'
  BY DEF StreamInv, StreamTypes, SameAgent, SessionsOnlyEnd
<1>2. OneAtWork'
  BY DEF StreamInv, OneAtWork, Working, SameAgent
<1>3. LookedAfter'
  BY DEF StreamInv, LookedAfter, SessionsOnlyEnd
<1>. QED
  BY <1>1, <1>2, <1>3 DEF StreamInv

\* A step of a SpawnStream call from one place to another before the row.
LEMMA SpawnMoves ==
  ASSUME StreamInv, NEW s \in Spawn, NEW p \in SpawnPlace,
         Working(s), spawn' = [spawn EXCEPT ![s] = p], row' = row, watcher' = watcher,
         reg' \in {reg, NoSpawn, s}, p = "record" => reg' \in {s, NoSpawn},
         sess' \in [Spawn -> {"none", "up", "gone"}],
         \A u \in Spawn : sess'[u] = "up" => (u # s /\ sess[u] = "up") \/ (u = s /\ p \in {"register", "record", "close"})
                                             \/ (u = s /\ watcher[s] \in {"send", "idle", "watch", "close"})
  PROVE  StreamInv'
<1>1. StreamTypes'
  BY DEF StreamInv, StreamTypes
<1>2. \A u \in Spawn : spawn'[u] = IF u = s THEN p ELSE spawn[u]
  BY DEF StreamInv, StreamTypes
<1>3. row = NoAgentRow /\ \A u \in Spawn : u # s => ~Working(u)
  BY DEF StreamInv, OneAtWork
<1>4. OneAtWork'
  BY <1>2, <1>3 DEF OneAtWork, Working
<1>5. LookedAfter'
  BY <1>2 DEF StreamInv, LookedAfter
<1>. QED
  BY <1>1, <1>4, <1>5 DEF StreamInv


\* A call that begins: it works alone, on a name without a row.
LEMMA SpawnBegins ==
  ASSUME StreamInv, NEW s \in Spawn, ResolveFails(s) \/ SpawnCheck(s)
  PROVE  StreamInv'
<1>1. /\ spawn[s] = "idle" /\ row' = row /\ reg' = reg /\ sess' = sess /\ watcher' = watcher
      /\ \E p \in {"over", "workspace"} : spawn' = [spawn EXCEPT ![s] = p]
  BY DEF ResolveFails, SpawnCheck, At, Goto, KeepOthers
<1>2. StreamTypes'
  BY <1>1 DEF StreamInv, StreamTypes, SpawnPlace
<1>3. LookedAfter'
  BY <1>1 DEF StreamInv, StreamTypes, LookedAfter
<1>4. OneAtWork'
  <2>1. CASE ResolveFails(s)
    <3>1. \A u \in Spawn : Working(u)' => Working(u)
      BY <1>1, <2>1 DEF ResolveFails, Goto, Working, StreamInv, StreamTypes
    <3>2. \A u \in Spawn : spawn'[u] = "record" => spawn[u] = "record"
      BY <1>1 DEF StreamInv, StreamTypes
    <3>. QED
      BY <1>1, <3>1, <3>2 DEF StreamInv, OneAtWork
  <2>2. CASE SpawnCheck(s)
    <3>1. row = NoAgentRow /\ \A u \in Spawn : ~Working(u)
      BY <2>2 DEF SpawnCheck, Working
    <3>2. spawn' = [spawn EXCEPT ![s] = "workspace"]
      BY <2>2 DEF SpawnCheck, Goto
    <3>. QED
      BY <1>1, <3>1, <3>2 DEF StreamInv, StreamTypes, OneAtWork, Working
  <2>. QED
    BY <2>1, <2>2
<1>. QED
  BY <1>2, <1>3, <1>4 DEF StreamInv

\* The steps of a call.
LEMMA SpawnStepKept ==
  ASSUME StreamInv, NEW s \in Spawn, SpawnStep(s)
  PROVE  StreamInv'
<1>. USE DEF SpawnPlace
<1>1. /\ sess \in [Spawn -> {"none", "up", "gone"}] /\ spawn \in [Spawn -> SpawnPlace]
      /\ sess[s] = "up" => \/ spawn[s] \in {"register", "record", "close"}
                           \/ watcher[s] \in {"send", "idle", "watch", "close"}
  BY DEF StreamInv, StreamTypes, LookedAfter
<1>2. ASSUME NEW p \in SpawnPlace, Working(s), Goto(s, p), SessionsOnlyEnd, UNCHANGED <<row, watcher>>,
             reg' \in {reg, NoSpawn, s}, p = "record" => reg' \in {s, NoSpawn},
             p \in {"register", "record", "close"} \/ spawn[s] \notin {"register", "record", "close"} \/ sess'[s] # "up"
      PROVE  StreamInv'
  <2>1. \A u \in Spawn : sess'[u] = "up" => (u # s /\ sess[u] = "up") \/ (u = s /\ p \in {"register", "record", "close"})
                                             \/ (u = s /\ watcher[s] \in {"send", "idle", "watch", "close"})
    BY <1>1, <1>2 DEF SessionsOnlyEnd
  <2>. QED
    BY <1>2, <2>1, SpawnMoves, ZenonT(60) DEF Goto, SessionsOnlyEnd
<1>3. CASE SpawnWorkspace(s)
  <2>1. PICK p \in {"config", "start", "over"} : Goto(s, p)
    BY <1>3 DEF SpawnWorkspace
  <2>2. /\ UNCHANGED <<row, watcher, reg, sess>> /\ spawn[s] = "workspace"
    BY <1>3 DEF SpawnWorkspace, KeepOthers, At
  <2>. QED
    BY <1>2, <2>1, <2>2, SessionsEnd DEF Working
<1>4. CASE StartLocal(s)
  <2>1. UNCHANGED <<row, watcher, reg>> /\ spawn[s] = "start"
    BY <1>4 DEF StartLocal, KeepOthers, At
  <2>2. CASE sess' = [sess EXCEPT ![s] = "up"] /\ Goto(s, "register")
    BY <1>1, <2>1, <2>2, SpawnMoves DEF Goto, Working
  <2>3. CASE UNCHANGED sess /\ Goto(s, "undo")
    BY <1>2, <2>1, <2>3, SessionsEnd DEF Working
  <2>. QED
    BY <1>4, <2>2, <2>3 DEF StartLocal
<1>5. CASE CreateConfigMap(s) \/ CreateSecret(s) \/ CreatePod(s) \/ WaitForPodReady(s)
  <2>1. PICK p \in {"secret", "pod", "ready", "connect", "undo"} : Goto(s, p)
    BY <1>5 DEF CreateConfigMap, CreateSecret, CreatePod, WaitForPodReady, Create
  <2>2. SessionsOnlyEnd
    BY <1>5, SessionsEnd DEF CreateConfigMap, CreateSecret, CreatePod, WaitForPodReady
  <2>3. /\ UNCHANGED <<row, watcher, reg>> /\ spawn[s] \in {"config", "secret", "pod", "ready"}
    BY <1>5 DEF CreateConfigMap, CreateSecret, CreatePod, WaitForPodReady, KeepOthers, At
  <2>. QED
    BY <1>2, <2>1, <2>2, <2>3 DEF Working
<1>6. CASE Connect(s)
  <2>1. UNCHANGED <<row, watcher, reg>> /\ spawn[s] = "connect"
    BY <1>6 DEF Connect, KeepOthers, At
  <2>2. CASE sess' = [sess EXCEPT ![s] = "up"] /\ Goto(s, "register")
    BY <1>1, <2>1, <2>2, SpawnMoves DEF Goto, Working
  <2>3. CASE KillStreamPod(TRUE) /\ Goto(s, "undo")
    BY <1>2, <2>1, <2>3, SessionsEnd DEF Working
  <2>. QED
    BY <1>6, <2>2, <2>3 DEF Connect
<1>7. CASE SpawnUndo(s)
  <2>1. UNCHANGED <<row, watcher, reg, sess>> /\ spawn[s] = "undo" /\ Goto(s, "over")
    BY <1>7 DEF SpawnUndo, KeepOthers, At
  <2>. QED
    BY <1>2, <2>1, SessionsEnd DEF Working
<1>8. CASE Register(s)
  <2>1. UNCHANGED <<row, watcher, sess>> /\ spawn[s] = "register" /\ Goto(s, "record") /\ reg' = s
    BY <1>8 DEF Register, KeepOthers, At
  <2>. QED
    BY <1>2, <2>1, SessionsEnd DEF Working
<1>9. CASE Record(s)
  <2>1. UNCHANGED <<reg, sess>> /\ spawn[s] = "record"
    BY <1>9 DEF Record, KeepRun, At
  <2>2. CASE UNCHANGED <<row, watcher>> /\ Goto(s, "close")
    BY <1>2, <2>1, <2>2, SessionsEnd DEF Working
  <2>3. CASE row' = [status |-> "Running", of |-> s] /\ Goto(s, "over") /\ watcher' = [watcher EXCEPT ![s] = "send"]
    <3>1. /\ \A u \in Spawn : spawn'[u] = IF u = s THEN "over" ELSE spawn[u]
          /\ \A u \in Spawn : watcher'[u] = IF u = s THEN "send" ELSE watcher[u]
      BY <2>3 DEF Goto, StreamInv, StreamTypes
    <3>2. StreamTypes'
      BY <2>1, <2>3 DEF StreamInv, StreamTypes, Goto, StreamRow, Live, WatcherPlace
    <3>3. reg \in {s, NoSpawn} /\ \A u \in Spawn : u # s => ~Working(u)
      BY <2>1 DEF StreamInv, OneAtWork, Working
    <3>4. OneAtWork'
      BY <2>1, <2>3, <3>1, <3>3 DEF OneAtWork, Working
    <3>5. LookedAfter'
      BY <2>1, <3>1 DEF StreamInv, LookedAfter
    <3>. QED
      BY <3>2, <3>4, <3>5 DEF StreamInv
  <2>. QED
    BY <1>9, <2>2, <2>3 DEF Record
<1>10. CASE SpawnClose(s)
  <2>1. UNCHANGED <<row, watcher, reg>> /\ spawn[s] = "close" /\ Goto(s, "close") /\ Close(s)
    BY <1>10 DEF SpawnClose, KeepOthers, At
  <2>. QED
    BY <1>2, <2>1, SessionsEnd DEF Working
<1>11. CASE SpawnCleanup(s)
  <2>1. UNCHANGED <<row, watcher, reg>> /\ spawn[s] = "close" /\ Goto(s, "remove") /\ sess[s] = "gone" /\ KillStreamPod(TRUE)
    BY <1>11 DEF SpawnCleanup, KeepOthers, At
  <2>2. SessionsOnlyEnd
    BY <2>1, SessionsEnd
  <2>3. sess'[s] # "up"
    BY <2>1, <2>2 DEF SessionsOnlyEnd
  <2>. QED
    BY <1>2, <2>1, <2>2, <2>3 DEF Working
<1>12. CASE SpawnRemove(s)
  <2>1. UNCHANGED <<row, watcher, sess>> /\ spawn[s] = "remove" /\ Goto(s, "undo") /\ reg' = NoSpawn
    BY <1>12 DEF SpawnRemove, KeepOthers, At
  <2>. QED
    BY <1>2, <2>1, SessionsEnd DEF Working
<1>. QED
  BY <1>3, <1>4, <1>5, <1>6, <1>7, <1>8, <1>9, <1>10, <1>11, <1>12 DEF SpawnStep

\* The steps of the goroutine that watches a session.
LEMMA WatcherStepKept ==
  ASSUME StreamInv, NEW s \in Spawn, WatcherStep(s)
  PROVE  StreamInv'
<1>1. spawn' = spawn /\ reg' \in {reg, NoSpawn}
  BY DEF WatcherStep, InitSend, InitClose, InitCleanup, InitFail, InitIdle, SessionDone, WatcherCleanup, WatcherMark, KeepCalls
<1>2. SameAgent
  <2>1. MarkIf(Live, "Failed") \/ MarkIf({"Running"}, "Idle") \/ UNCHANGED row
    BY DEF WatcherStep, InitSend, InitClose, InitCleanup, InitFail, InitIdle, SessionDone, WatcherCleanup, WatcherMark
  <2>. QED
    BY <2>1, SameRows DEF Live
<1>3. SessionsOnlyEnd
  <2>1. Close(s) \/ UNCHANGED sess \/ KillStreamPod(FALSE) \/ KillStreamPod(row = NoAgentRow)
    BY DEF WatcherStep, InitSend, InitClose, InitCleanup, InitFail, InitIdle, SessionDone, WatcherCleanup, WatcherMark
  <2>. QED
    BY <2>1, SessionsEnd
<1>4. PICK p \in WatcherPlace : watcher' = [watcher EXCEPT ![s] = p]
  BY DEF WatcherStep, InitSend, InitClose, InitCleanup, InitFail, InitIdle, SessionDone, WatcherCleanup, WatcherMark, Watch, WatcherPlace
<1>5. p \in {"send", "idle", "watch", "close"} \/ sess'[s] # "up" \/ spawn[s] \in {"register", "record", "close"}
  <2>1. sess \in [Spawn -> {"none", "up", "gone"}] /\ watcher \in [Spawn -> WatcherPlace]
    BY DEF StreamInv, StreamTypes
  <2>2. CASE InitSend(s) \/ InitIdle(s)
    BY <1>4, <2>1, <2>2 DEF InitSend, InitIdle, Watch, WatcherPlace
  <2>3. CASE InitClose(s) \/ SessionDone(s)
    BY <2>1, <2>3 DEF InitClose, SessionDone, Close
  <2>4. CASE InitCleanup(s) \/ InitFail(s) \/ WatcherCleanup(s) \/ WatcherMark(s)
    <3>1. watcher[s] \in {"cleanup", "fail", "exit", "mark"}
      BY <2>4 DEF InitCleanup, InitFail, WatcherCleanup, WatcherMark, Watching
    <3>2. sess'[s] = "up" => sess[s] = "up"
      BY <1>3 DEF SessionsOnlyEnd
    <3>. QED
      BY <3>1, <3>2 DEF StreamInv, LookedAfter
  <2>. QED
    BY <2>2, <2>3, <2>4 DEF WatcherStep
<1>6. /\ watcher' \in [Spawn -> WatcherPlace]
      /\ \A u \in Spawn : \/ watcher'[u] = watcher[u] \/ watcher'[u] \in {"send", "idle", "watch", "close"}
                         \/ sess'[u] # "up" \/ spawn[u] \in {"register", "record", "close"}
  BY <1>4, <1>5 DEF StreamInv, StreamTypes
<1>. QED
  BY <1>1, <1>2, <1>3, <1>6, StreamKept


\* Follow-ups, kills, the reaper, faults and a restart.
LEMMA OthersKept ==
  ASSUME StreamInv,
         \/ \E s \in Spawn : FatalLine(s) \/ HostEnds(s)
         \/ SayGet \/ SayStep \/ KillGet \/ KillStep \/ ReapAged \/ ReapStep
  PROVE  StreamInv'
<1>1. spawn' = spawn /\ watcher' = watcher /\ reg' \in {reg, NoSpawn}
  <2>1. CASE \E s \in Spawn : FatalLine(s) \/ HostEnds(s)
    BY <2>1 DEF FatalLine, HostEnds, KeepCalls
  <2>2. CASE SayGet \/ SayStep
    BY <2>2 DEF SayGet, SayStep, SayFindStream, SayMarkStream, SaySend, SayWrite, KeepAgents
  <2>3. CASE KillGet \/ KillStep
    BY <2>3 DEF KillGet, KillStep, KillClose, KillFindStream, KillPod, KillCleanup, KeepBut
  <2>4. CASE ReapAged \/ ReapStep
    BY <2>4 DEF ReapAged, ReapStep, ReapKillStream, ReapMarkStream, FailedStreams, Backstop, KeepReap
  <2>. QED
    BY <2>1, <2>2, <2>3, <2>4
<1>2. SameAgent
  <2>1. CASE \E s \in Spawn : FatalLine(s) \/ HostEnds(s)
    <3>1. MarkIf(Live, "Failed") \/ UNCHANGED row
      BY <2>1 DEF FatalLine, HostEnds
    <3>. QED
      BY <3>1, SameRows DEF Live
  <2>2. CASE SayGet \/ SayStep
    <3>1. Overwrite("Running") \/ Overwrite("Idle") \/ Overwrite("Failed") \/ UNCHANGED row
      BY <2>2 DEF SayGet, SayStep, SayFindStream, SayMarkStream, SaySend, SayWrite
    <3>. QED
      BY <3>1, SameRows DEF Live
  <2>3. CASE KillGet \/ KillStep
    <3>1. row' = NoAgentRow \/ UNCHANGED row
      BY <2>3 DEF KillGet, KillStep, KillClose, KillFindStream, KillPod, KillCleanup
    <3>. QED
      BY <3>1, SameRows DEF SameAgent, StreamRow
  <2>4. CASE ReapAged \/ ReapStep
    <3>1. MarkIf(Live, "Stopped") \/ UNCHANGED row
      BY <2>4 DEF ReapAged, ReapStep, ReapKillStream, ReapMarkStream, FailedStreams, Backstop
    <3>. QED
      BY <3>1, SameRows DEF Live
  <2>. QED
    BY <2>1, <2>2, <2>3, <2>4
<1>3. SessionsOnlyEnd
  <2>1. CASE \E s \in Spawn : FatalLine(s) \/ HostEnds(s)
    BY <2>1, SessionsEnd DEF FatalLine, HostEnds
  <2>2. CASE SayGet \/ SayStep
    <3>1. UNCHANGED sess
      BY <2>2 DEF SayGet, SayStep, SayFindStream, SayMarkStream, SaySend, SayWrite, KeepAgents
    <3>. QED
      BY <3>1, SessionsEnd
  <2>3. CASE KillGet \/ KillStep
    <3>1. UNCHANGED sess \/ Close(kill.of) \/ KillStreamPod(TRUE)
      BY <2>3 DEF KillGet, KillStep, KillClose, KillFindStream, KillPod, KillCleanup
    <3>. QED
      BY <3>1, SessionsEnd
  <2>4. CASE ReapAged \/ ReapStep
    <3>1. UNCHANGED sess \/ SessionsWithout(Object) \/ KillStreamPod(FALSE)
      BY <2>4 DEF ReapAged, ReapStep, ReapKillStream, ReapMarkStream, FailedStreams, Backstop
    <3>. QED
      BY <3>1, SessionsEnd
  <2>. QED
    BY <2>1, <2>2, <2>3, <2>4
<1>. QED
  BY <1>1, <1>2, <1>3, StreamKept DEF StreamInv, StreamTypes

LEMMA StreamRestartKept ==
  ASSUME StreamInv, StreamRestart
  PROVE  StreamInv'
<1>1. /\ row' = row /\ reg' = NoSpawn
      /\ sess' = [s \in Spawn |-> IF sess[s] = "up" THEN "gone" ELSE sess[s]]
      /\ spawn' = [s \in Spawn |-> IF spawn[s] = "idle" THEN "idle" ELSE "over"]
      /\ watcher' = [s \in Spawn |-> IF watcher[s] = "none" THEN "none" ELSE "over"]
  BY DEF StreamRestart
<1>2. StreamTypes'
  BY <1>1 DEF StreamInv, StreamTypes, SpawnPlace, WatcherPlace
<1>3. OneAtWork'
  BY <1>1 DEF OneAtWork, Working
<1>4. LookedAfter'
  BY <1>1 DEF LookedAfter
<1>. QED
  BY <1>2, <1>3, <1>4 DEF StreamInv

\* One spawn of a name works at a time, and the registry has the session of
\* the row's agent or none: the inductive invariant of the stream agents.
THEOREM StreamInvariant == StreamSpec => []StreamInv
<1>1. StreamInit => StreamInv
  BY DEF StreamInit, StreamInv, StreamTypes, OneAtWork, LookedAfter, Working, SpawnPlace, WatcherPlace, StreamRow
<1>2. StreamInv /\ [StreamNext]_streamVars => StreamInv'
  <2>. SUFFICES ASSUME StreamInv, [StreamNext]_streamVars PROVE StreamInv'
    OBVIOUS
  <2>1. CASE UNCHANGED streamVars
    BY <2>1 DEF streamVars, StreamInv, StreamTypes, OneAtWork, LookedAfter, Working
  <2>2. CASE \E s \in Spawn : ResolveFails(s) \/ SpawnCheck(s)
    BY <2>2, SpawnBegins
  <2>3. CASE \E s \in Spawn : SpawnStep(s)
    BY <2>3, SpawnStepKept
  <2>4. CASE \E s \in Spawn : WatcherStep(s)
    BY <2>4, WatcherStepKept
  <2>5. CASE (\E s \in Spawn : FatalLine(s) \/ HostEnds(s)) \/ SayGet \/ SayStep \/ KillGet \/ KillStep \/ ReapAged \/ ReapStep
    BY <2>5, OthersKept
  <2>6. CASE StreamRestart
    BY <2>6, StreamRestartKept
  <2>. QED
    BY <2>1, <2>2, <2>3, <2>4, <2>5, <2>6 DEF StreamNext
<1>. QED
  BY <1>1, <1>2, PTL DEF StreamSpec

\* No session is lost sight of while it is up, and the registry never hands
\* out the session of another agent than the row's, whatever follow-ups, kills,
\* the reaper and the end of the session race: for any number of spawns.
THEOREM StreamSessionsKept == StreamSpec => []NoStraySession
<1>1. StreamInv => NoStraySession
  <2>. SUFFICES ASSUME StreamInv, NEW s \in Spawn
                PROVE  /\ sess[s] = "up" => \/ reg = s \/ spawn[s] # "over"
                                            \/ watcher[s] \in {"send", "idle", "watch", "close"}
                       /\ reg = s /\ row.status \in Live => row.of = s
    BY DEF NoStraySession
  <2>1. sess[s] = "up" => \/ reg = s \/ spawn[s] # "over" \/ watcher[s] \in {"send", "idle", "watch", "close"}
    BY DEF StreamInv, LookedAfter
  <2>2. ASSUME reg = s, row.status \in Live PROVE row.of = s
    <3>1. row # NoAgentRow
      BY <2>2 DEF NoAgentRow, Live
    <3>2. s # NoSpawn
      BY StreamAssumption DEF NoSpawn
    <3>. QED
      BY <2>2, <3>1, <3>2 DEF StreamInv, OneAtWork
  <2>. QED
    BY <2>1, <2>2
<1>. QED
  BY <1>1, StreamInvariant, PTL

(***************************************************************************)
(* Direct agents                                                           *)
(***************************************************************************)

\* The processes spawned under the name of task t; one at most, so far.
Mains(t)   == {p \in Started : procs[p].task = t /\ procs[p].name = "main"}
OneMain(t) == \A p, q \in Mains(t) : p = q

ProcRecord == [task : Task \union {"none"}, name : NameKind, state : {"unused", "up"} \union Dead]
Request    == [op : {"none"} \union Ops,
               at : {"idle", "create", "launch", "record", "rollback", "stop", "mark", "clean", "remove"},
               task : Task \union {"none"}, proc : Proc \union {NoProc}, seen : AgentStatus]

DirectTypes ==
  /\ deploy \in Deployments
  /\ agents \in [Task -> AgentRow] /\ \A t \in Task : Status(t) \notin {"Queued", "Idle"}
  /\ procs \in [Proc -> ProcRecord] /\ \A p \in Started : procs[p].task \in Task
  /\ handles \in [Task -> [NameKind -> Proc \union {NoProc}]] /\ workspace \in SUBSET Task
  /\ requests \in [Client -> Request] /\ watch \in SUBSET Proc
  /\ reap \in [todo : SUBSET Task, mark : SUBSET Task] /\ restarts \in Nat

\* A spawn that has its worktree, and one that has its process.
Spawning(c) == requests[c].op = "spawn" /\ requests[c].at \in {"launch", "record", "rollback"}
Owning(c)   == requests[c].op = "spawn" /\ requests[c].at \in {"record", "rollback"}
Asks(c, t)  == requests[c].op # "none" /\ requests[c].task = t

RequestsFit ==
  \A c \in Client :
    /\ requests[c].op # "none" => requests[c].task \in Task
    /\ requests[c].op = "kill" => /\ requests[c].at \in {"stop", "mark", "clean", "remove"}
                                  /\ requests[c].seen \in {"Running"} \union TerminalStatus
    /\ Owning(c) => requests[c].proc \in Mains(requests[c].task)
    /\ \A d \in Client : Owning(c) /\ Owning(d) /\ requests[c].proc = requests[d].proc => c = d
    /\ requests[c].op = "say" /\ requests[c].at = "mark" =>
         /\ requests[c].proc \in Started /\ procs[requests[c].proc].task = requests[c].task
         /\ procs[requests[c].proc].name = "say"

WatchFits == watch \subseteq Started /\ RunningIsWatched
CapFits   == IsFiniteSet(RunningRows) /\ RunningCapped

\* No other request is at work on a task that is being killed.
KillsAlone == \A c, d \in Client : requests[c].op = "kill" /\ Asks(d, requests[c].task) => c = d

\* A task with a row has its worktree, and one spawn at most is about to make
\* the row.
FilesFit ==
  ~Kubernetes =>
    /\ \A t \in Task : Status(t) # "absent" => t \in workspace
    /\ \A c \in Client : Spawning(c) => requests[c].task \in workspace /\ Status(requests[c].task) = "absent"
    /\ \A c, d \in Client : Spawning(c) /\ Spawning(d) /\ requests[c].task = requests[d].task => c = d
    /\ \A c \in Client : requests[c].op = "kill" /\ requests[c].at = "remove" => Status(requests[c].task) = "absent"

\* A process of the name of t that its spawn recorded.
Recorded(t) == \E q \in Mains(t) : \A c \in Client : Owning(c) => requests[c].proc # q
FollowsUp(t) == \/ \E q \in Started : procs[q].task = t /\ procs[q].name = "say"
                \/ \E c \in Client : requests[c].op = "say" /\ requests[c].task = t
RecordsFit ==
  \A t \in Task : \/ Status(t) # "absent" \/ FollowsUp(t) \/ t \in reap.todo \union reap.mark
                  \/ \E c \in Client : requests[c].op = "kill" /\ requests[c].task = t
                  => Recorded(t)

\* Where the only process p of the name of t runs, its spawn is about to
\* record it or the row says so, and nothing marks the row.
Tended(t, p) ==
  /\ handles[t]["main"] = p
  /\ Status(t) = "Running" \/ (Status(t) = "absent" /\ \E c \in Client : Owning(c) /\ requests[c].proc = p)
  /\ ~FollowsUp(t) /\ t \notin reap.mark
  /\ \A c \in Client : requests[c].op = "kill" /\ requests[c].task = t => requests[c].at = "stop" /\ requests[c].seen = "Running"
ProcsFit == restarts = 0 => \A t \in Task : \A p \in Mains(t) : Up(p) /\ OneMain(t) => Tended(t, p)

\* The inductive invariant behind RunningSound.
DirectInv == /\ DirectTypes /\ RequestsFit /\ WatchFits /\ CapFits
             /\ KillsAlone /\ FilesFit /\ RecordsFit /\ ProcsFit

LEMMA DirectTyped ==
  ASSUME DirectInv
  PROVE  /\ DirectTypes /\ RequestsFit /\ deploy \in Deployments /\ agents \in [Task -> AgentRow] /\ procs \in [Proc -> ProcRecord]
         /\ handles \in [Task -> [NameKind -> Proc \union {NoProc}]] /\ workspace \in SUBSET Task
         /\ requests \in [Client -> Request] /\ watch \in SUBSET Proc /\ restarts \in Nat
         /\ reap \in [todo : SUBSET Task, mark : SUBSET Task]
         /\ \A p \in Started : p \in Proc /\ procs[p].task \in Task
         /\ \A t \in Task : Status(t) \in {"absent", "Running"} \union TerminalStatus
         /\ \A c \in Client : requests[c].op # "none" => requests[c].task \in Task
<1>1. DirectTypes /\ RequestsFit
  BY DEF DirectInv
<1>2. \A t \in Task : Status(t) \in {"absent", "Running"} \union TerminalStatus
  <2>. SUFFICES ASSUME NEW t \in Task PROVE Status(t) \in {"absent", "Running"} \union TerminalStatus
    OBVIOUS
  <2>1. agents[t] \in AgentRow /\ Status(t) \notin {"Queued", "Idle"}
    BY <1>1 DEF DirectTypes
  <2>2. Status(t) \in AgentStatus
    BY <2>1 DEF AgentRow, Status
  <2>. QED
    BY <2>1, <2>2 DEF AgentStatus, LiveStatus, TerminalStatus
<1>. QED
  BY <1>1, <1>2 DEF DirectTypes, RequestsFit, Started

\* A terminal transition: one row, which Runs no more and is there as before.
RowMarked(t) ==
  /\ agents' \in [Task -> AgentRow] /\ \A u \in Task : u # t => agents'[u] = agents[u]
  /\ Status(t)' # "Running" /\ (Status(t)' = "absent" <=> Status(t) = "absent")
  /\ \A u \in Task : Status(u)' \notin {"Queued", "Idle"}

LEMMA MarkFacts ==
  ASSUME DirectInv, NEW t \in Task, NEW s \in TerminalStatus, MarkTerminal(t, s)
  PROVE  RowMarked(t)
<1>1. agents \in [Task -> AgentRow] /\ \A u \in Task : Status(u) \in {"absent", "Running"} \union TerminalStatus
  BY DirectTyped
<1>2. "Running" \in ExpectedFor(s) /\ "absent" \notin ExpectedFor(s)
  BY DEF ExpectedFor, CompletableFrom, FailableFrom, StoppableFrom, TerminalStatus
<1>3. PICK r : r = [agents[t] EXCEPT !.status = s]
  OBVIOUS
<1>4. r \in AgentRow /\ r.status = s
  BY <1>1, <1>3 DEF AgentRow, AgentStatus
<1>5. agents' = IF Status(t) \in ExpectedFor(s) THEN [agents EXCEPT ![t] = r] ELSE agents
  BY <1>1, <1>3 DEF MarkTerminal, UpdateAgentStatusIf
<1>6. CASE Status(t) \in ExpectedFor(s)
  <2>1. agents' \in [Task -> AgentRow] /\ agents'[t] = r /\ \A u \in Task : u # t => agents'[u] = agents[u]
    BY <1>1, <1>4, <1>5, <1>6
  <2>. QED
    BY <1>1, <1>2, <1>4, <1>6, <2>1 DEF RowMarked, Status, TerminalStatus
<1>7. CASE Status(t) \notin ExpectedFor(s)
  BY <1>1, <1>2, <1>5, <1>7 DEF RowMarked, Status, TerminalStatus
<1>. QED
  BY <1>6, <1>7

\* Every process keeps its name, and none starts.
ProcsKept ==
  /\ procs' \in [Proc -> ProcRecord] /\ Started' = Started
  /\ \A p \in Proc : /\ procs'[p].task = procs[p].task /\ procs'[p].name = procs[p].name
                     /\ Up(p)' => Up(p)

LEMMA SameProcs ==
  ASSUME DirectInv, procs' = procs
  PROVE  ProcsKept
BY DirectTyped DEF ProcsKept, Started, Up

LEMMA StopFacts ==
  ASSUME DirectInv, NEW p \in Proc, NEW s \in Dead, Up(p), procs' = [procs EXCEPT ![p].state = s]
  PROVE  ProcsKept /\ ~Up(p)'
<1>1. procs \in [Proc -> ProcRecord] /\ procs[p] \in ProcRecord /\ procs[p].state = "up"
  BY DirectTyped DEF Up
<1>2. PICK r : r = [procs[p] EXCEPT !.state = s]
  OBVIOUS
<1>3. r \in ProcRecord /\ r.task = procs[p].task /\ r.name = procs[p].name /\ r.state = s
  BY <1>1, <1>2 DEF ProcRecord
<1>4. procs' = [procs EXCEPT ![p] = r]
  BY <1>1, <1>2
<1>5. procs' \in [Proc -> ProcRecord] /\ procs'[p] = r /\ \A q \in Proc : q # p => procs'[q] = procs[q]
  BY <1>1, <1>3, <1>4
<1>6. s # "unused" /\ s # "up"
  BY DEF Dead
<1>7. Started' = Started
  BY <1>1, <1>3, <1>5, <1>6 DEF Started
<1>. QED
  BY <1>3, <1>5, <1>6, <1>7 DEF ProcsKept, Up

LEMMA KillFacts ==
  ASSUME DirectInv, NEW t \in Task, NEW n \in NameKind, KillProc(t, n)
  PROVE  /\ ProcsKept /\ handles' \in [Task -> [NameKind -> Proc \union {NoProc}]]
         /\ \A u \in Task, m \in NameKind : (u # t \/ m # n) => handles'[u][m] = handles[u][m]
         /\ \A p \in Proc : Up(p)' => handles[t][n] # p
<1>1. /\ handles \in [Task -> [NameKind -> Proc \union {NoProc}]] /\ handles[t] \in [NameKind -> Proc \union {NoProc}]
      /\ handles[t][n] \in Proc \union {NoProc}
  BY DirectTyped
<1>2. PICK h : h = [handles[t] EXCEPT ![n] = NoProc]
  OBVIOUS
<1>3. h \in [NameKind -> Proc \union {NoProc}] /\ \A m \in NameKind : m # n => h[m] = handles[t][m]
  BY <1>1, <1>2
<1>4. handles' = [handles EXCEPT ![t] = h]
  BY <1>1, <1>2 DEF KillProc
<1>5. PICK p : p = handles[t][n]
  OBVIOUS
<1>6. NoProc \notin Proc
  BY DEF NoProc, Proc
<1>7. procs' = IF p # NoProc /\ Up(p) THEN [procs EXCEPT ![p].state = "bad"] ELSE procs
  BY <1>5 DEF KillProc
<1>8. CASE p # NoProc /\ Up(p)
  <2>1. p \in Proc /\ "bad" \in Dead
    BY <1>1, <1>5, <1>8 DEF Dead
  <2>2. ProcsKept /\ ~Up(p)'
    BY <1>7, <1>8, <2>1, StopFacts
  <2>. QED
    BY <1>1, <1>3, <1>4, <1>5, <2>2
<1>9. CASE ~(p # NoProc /\ Up(p))
  <2>1. procs' = procs
    BY <1>7, <1>9
  <2>2. ProcsKept
    BY <2>1, SameProcs
  <2>. QED
    BY <1>1, <1>3, <1>4, <1>5, <1>6, <1>9, <2>2 DEF ProcsKept
<1>. QED
  BY <1>8, <1>9

\* A process that starts: its number was free.
LEMMA StartFacts ==
  ASSUME DirectInv, NEW t \in Task, NEW n \in NameKind, NEW p \in Proc, StartProc(t, n, p)
  PROVE  /\ procs' \in [Proc -> ProcRecord] /\ handles' \in [Task -> [NameKind -> Proc \union {NoProc}]]
         /\ p \notin Started /\ Started' = Started \union {p}
         /\ procs'[p].task = t /\ procs'[p].name = n /\ \A q \in Proc : q # p => procs'[q] = procs[q]
         /\ handles'[t][n] = p
         /\ \A u \in Task, m \in NameKind : (u # t \/ m # n) => handles'[u][m] = handles[u][m]
<1>1. /\ handles \in [Task -> [NameKind -> Proc \union {NoProc}]] /\ handles[t] \in [NameKind -> Proc \union {NoProc}]
      /\ procs \in [Proc -> ProcRecord]
  BY DirectTyped
<1>2. PICK h : h = [handles[t] EXCEPT ![n] = p]
  OBVIOUS
<1>3. h \in [NameKind -> Proc \union {NoProc}] /\ h[n] = p /\ \A m \in NameKind : m # n => h[m] = handles[t][m]
  BY <1>1, <1>2
<1>4. handles' = [handles EXCEPT ![t] = h]
  BY <1>1, <1>2 DEF StartProc
<1>5. PICK r : r = [task |-> t, name |-> n, state |-> "up"]
  OBVIOUS
<1>6. r \in ProcRecord /\ r.task = t /\ r.name = n /\ r.state = "up"
  BY <1>5 DEF ProcRecord
<1>7. procs' = [procs EXCEPT ![p] = r] /\ p \notin Started
  BY <1>5 DEF StartProc
<1>8. procs' \in [Proc -> ProcRecord] /\ procs'[p] = r /\ \A q \in Proc : q # p => procs'[q] = procs[q]
  BY <1>1, <1>6, <1>7
<1>9. Started' = Started \union {p}
  BY <1>6, <1>8 DEF Started
<1>. QED
  BY <1>1, <1>3, <1>4, <1>6, <1>7, <1>8, <1>9

\* A request that goes on, and one that ends.
Goes(c, at, p) == \/ requests' = [requests EXCEPT ![c].at = at] /\ p = requests[c].proc
                  \/ requests' = [requests EXCEPT ![c].at = at, ![c].proc = p]

LEMMA GoFacts ==
  ASSUME DirectInv, NEW c \in Client, requests[c].op # "none",
         NEW at \in {"idle", "create", "launch", "record", "rollback", "stop", "mark", "clean", "remove"},
         NEW p \in Proc \union {NoProc},
         Goes(c, at, p)
  PROVE  /\ requests' \in [Client -> Request] /\ \A d \in Client : d # c => requests'[d] = requests[d]
         /\ requests'[c].op = requests[c].op /\ requests'[c].at = at /\ requests'[c].task = requests[c].task
         /\ requests'[c].proc = p /\ requests'[c].seen = requests[c].seen
<1>1. requests \in [Client -> Request] /\ requests[c] \in Request
  BY DirectTyped
<1>2. PICK r : r = [requests[c] EXCEPT !.at = at, !.proc = p]
  OBVIOUS
<1>3. /\ r \in Request /\ r.op = requests[c].op /\ r.at = at /\ r.task = requests[c].task
      /\ r.proc = p /\ r.seen = requests[c].seen
  BY <1>1, <1>2 DEF Request
<1>4. p = requests[c].proc => r = [requests[c] EXCEPT !.at = at]
  BY <1>1, <1>2 DEF Request
<1>5. requests' = [requests EXCEPT ![c] = r]
  BY <1>1, <1>2, <1>4 DEF Goes
<1>. QED
  BY <1>1, <1>3, <1>5

LEMMA EndFacts ==
  ASSUME DirectInv, NEW c \in Client, Finish(c)
  PROVE  /\ requests' \in [Client -> Request] /\ \A d \in Client : d # c => requests'[d] = requests[d]
         /\ requests'[c].op = "none"
<1>1. NoRequest \in Request /\ NoRequest.op = "none"
  BY DEF NoRequest, Request, NoProc, AgentStatus
<1>2. requests \in [Client -> Request]
  BY DirectTyped
<1>. QED
  BY <1>1, <1>2 DEF Finish
\* A step that starts nothing and makes no agent Running: what a request that
\* goes on, or ends, keeps, and what the rows keep.
ReqKept(c) ==
  /\ requests'[c].op = requests[c].op /\ requests'[c].task = requests[c].task /\ requests'[c].seen = requests[c].seen
  /\ requests[c].op = "kill" => requests'[c].at \in {"stop", "mark", "clean", "remove"}
  /\ Owning(c)' => Owning(c) /\ requests'[c].proc = requests[c].proc
  /\ requests[c].op = "say" /\ requests'[c].at = "mark" => requests[c].at = "mark" /\ requests'[c].proc = requests[c].proc
ReqsKept == requests' \in [Client -> Request] /\ \A c \in Client : requests'[c].op = "none" \/ ReqKept(c)

RowsShrink ==
  /\ agents' \in [Task -> AgentRow]
  /\ \A t \in Task : /\ Status(t)' \notin {"Queued", "Idle"}
                     /\ Status(t)' = "Running" => Status(t) = "Running"
                     /\ Status(t)' # "absent" => Status(t) # "absent"

StartsNone ==
  /\ deploy' = deploy /\ ProcsKept /\ handles' \in [Task -> [NameKind -> Proc \union {NoProc}]]
  /\ RowsShrink /\ ReqsKept /\ workspace' \in SUBSET Task /\ watch' \subseteq watch /\ restarts' \in Nat
  /\ reap' \in [todo : SUBSET Task, mark : SUBSET Task]
  /\ reap'.todo \subseteq reap.todo \union RunningRows /\ reap'.mark \subseteq reap.todo \union reap.mark

LEMMA SameRequests ==
  ASSUME DirectInv, requests' = requests
  PROVE  ReqsKept
BY DirectTyped DEF ReqsKept, ReqKept, Owning, RequestsFit

LEMMA SameAgents ==
  ASSUME DirectInv, agents' = agents
  PROVE  RowsShrink
BY DirectTyped DEF RowsShrink, Status, DirectTypes

LEMMA MarkShrinks ==
  ASSUME DirectInv, NEW t \in Task, RowMarked(t)
  PROVE  RowsShrink
BY DirectTyped DEF RowMarked, RowsShrink, Status

LEMMA SameMains ==
  ASSUME ProcsKept
  PROVE  \A t \in Task : /\ Mains(t)' = Mains(t) /\ (OneMain(t)' <=> OneMain(t))
                         /\ ((\E q \in Started : procs[q].task = t /\ procs[q].name = "say")' =>
                               \E q \in Started : procs[q].task = t /\ procs[q].name = "say")
<1>1. \A p \in Started : p \in Proc
  BY DEF Started
<1>. QED
  BY <1>1 DEF ProcsKept, Mains, OneMain

LEMMA StartsNoneKept ==
  ASSUME DirectInv, StartsNone
  PROVE  /\ DirectTypes' /\ RequestsFit' /\ watch' \subseteq Started' /\ CapFits' /\ KillsAlone' /\ RecordsFit'
         /\ \A t \in Task : Mains(t)' = Mains(t) /\ (OneMain(t)' <=> OneMain(t)) /\ (FollowsUp(t)' => FollowsUp(t))
<1>1. /\ DirectTypes /\ RequestsFit /\ \A p \in Started : p \in Proc /\ procs[p].task \in Task
      /\ deploy' = deploy /\ ProcsKept /\ RowsShrink /\ ReqsKept
  BY DirectTyped DEF StartsNone
<1>2. \A t \in Task : Mains(t)' = Mains(t) /\ (OneMain(t)' <=> OneMain(t))
  BY <1>1, SameMains
<1>3. Started' = Started /\ \A p \in Proc : procs'[p].task = procs[p].task /\ procs'[p].name = procs[p].name
  BY <1>1 DEF ProcsKept
<1>4. \A c \in Client : requests'[c].op # "none" => ReqKept(c)
  BY <1>1 DEF ReqsKept
<1>5. DirectTypes'
  <2>1. procs' \in [Proc -> ProcRecord] /\ \A p \in Started' : procs'[p].task \in Task
    BY <1>1, <1>3 DEF ProcsKept
  <2>2. watch' \in SUBSET Proc
    BY <1>1 DEF StartsNone, DirectTypes
  <2>. QED
    BY <1>1, <2>1, <2>2 DEF StartsNone, DirectTypes, RowsShrink, ReqsKept
<1>6. RequestsFit'
  <2>. SUFFICES ASSUME NEW c \in Client
       PROVE  /\ requests'[c].op # "none" => requests'[c].task \in Task
              /\ requests'[c].op = "kill" => /\ requests'[c].at \in {"stop", "mark", "clean", "remove"}
                                             /\ requests'[c].seen \in {"Running"} \union TerminalStatus
              /\ Owning(c)' => requests'[c].proc \in Mains(requests[c].task)'
              /\ \A d \in Client : Owning(c)' /\ Owning(d)' /\ requests'[c].proc = requests'[d].proc => c = d
              /\ requests'[c].op = "say" /\ requests'[c].at = "mark" =>
                   /\ requests'[c].proc \in Started' /\ procs'[requests'[c].proc].task = requests'[c].task
                   /\ procs'[requests'[c].proc].name = "say"
    BY DEF RequestsFit
  <2>1. requests'[c].op # "none" => requests'[c].task \in Task
    BY <1>1, <1>4 DEF ReqKept, RequestsFit
  <2>2. requests'[c].op = "kill" => /\ requests'[c].at \in {"stop", "mark", "clean", "remove"}
                                    /\ requests'[c].seen \in {"Running"} \union TerminalStatus
    BY <1>1, <1>4 DEF ReqKept, RequestsFit
  <2>3. \A d \in Client : Owning(d)' => Owning(d) /\ requests'[d].proc = requests[d].proc /\ requests'[d].task = requests[d].task
    <3>1. \A d \in Client : Owning(d)' => requests'[d].op # "none"
      BY DEF Owning
    <3>. QED
      BY <1>4, <3>1 DEF ReqKept
  <2>4. Owning(c)' => requests'[c].proc \in Mains(requests[c].task)'
    <3>. SUFFICES ASSUME Owning(c)' PROVE requests'[c].proc \in Mains(requests[c].task)'
      OBVIOUS
    <3>1. Owning(c) /\ requests'[c].proc = requests[c].proc /\ requests'[c].task = requests[c].task
      BY <2>3
    <3>2. requests[c].proc \in Mains(requests[c].task)
      BY <1>1, <3>1 DEF RequestsFit
    <3>. QED
      BY <1>1, <1>3, <3>1, <3>2 DEF Mains
  <2>5. \A d \in Client : Owning(c)' /\ Owning(d)' /\ requests'[c].proc = requests'[d].proc => c = d
    BY <1>1, <2>3 DEF RequestsFit
  <2>6. requests'[c].op = "say" /\ requests'[c].at = "mark" =>
                   /\ requests'[c].proc \in Started' /\ procs'[requests'[c].proc].task = requests'[c].task
                   /\ procs'[requests'[c].proc].name = "say"
    BY <1>1, <1>3, <1>4 DEF RequestsFit, ReqKept
  <2>. QED
    BY <2>1, <2>2, <2>4, <2>5, <2>6
<1>7. watch' \subseteq Started'
  BY <1>3 DEF StartsNone, DirectInv, WatchFits
<1>8. CapFits'
  <2>1. RunningRows' \subseteq RunningRows
    BY <1>1 DEF RunningRows, RowsShrink
  <2>2. FollowUp => FollowUp'
    BY <1>1, <1>3 DEF FollowUp
  <2>3. IsFiniteSet(RunningRows) /\ RunningCapped
    BY DEF DirectInv, CapFits
  <2>4. IsFiniteSet(RunningRows') /\ Cardinality(RunningRows') <= Cardinality(RunningRows)
    BY <2>1, <2>3, FS_Subset
  <2>5. MaxConcurrent' = MaxConcurrent /\ Cardinality(RunningRows') \in Nat /\ Cardinality(RunningRows) \in Nat
    BY <1>1, <2>3, <2>4, FS_CardinalityType DEF MaxConcurrent
  <2>6. MaxConcurrent > 0 /\ ~FollowUp' => Cardinality(RunningRows') <= MaxConcurrent
    <3>. SUFFICES ASSUME MaxConcurrent > 0, ~FollowUp' PROVE Cardinality(RunningRows') <= MaxConcurrent
      OBVIOUS
    <3>1. Cardinality(RunningRows) <= MaxConcurrent
      BY <2>2, <2>3 DEF RunningCapped
    <3>2. MaxConcurrent \in Nat
      BY <1>1, DirectAssumption DEF MaxConcurrent, Deployment, DirectTypes
    <3>. QED
      BY <2>4, <2>5, <3>1, <3>2
  <2>. QED
    BY <2>4, <2>5, <2>6 DEF CapFits, RunningCapped
<1>9. KillsAlone'
  <2>1. \A c \in Client : requests'[c].op # "none" => requests'[c].op = requests[c].op /\ requests'[c].task = requests[c].task
    BY <1>4 DEF ReqKept
  <2>. QED
    BY <2>1 DEF DirectInv, KillsAlone, Asks
<1>10. \A t \in Task : FollowsUp(t)' => FollowsUp(t)
  <2>. SUFFICES ASSUME NEW t \in Task, FollowsUp(t)' PROVE FollowsUp(t)
    OBVIOUS
  <2>1. CASE \E q \in Started' : procs'[q].task = t /\ procs'[q].name = "say"
    BY <1>1, <1>3, <2>1 DEF FollowsUp
  <2>2. CASE \E c \in Client : requests'[c].op = "say" /\ requests'[c].task = t
    BY <1>4, <2>2 DEF FollowsUp, ReqKept
  <2>. QED
    BY <2>1, <2>2 DEF FollowsUp
<1>11. RecordsFit'
  <2>. SUFFICES ASSUME NEW t \in Task,
                       \/ Status(t)' # "absent" \/ FollowsUp(t)' \/ t \in reap'.todo \union reap'.mark
                       \/ \E c \in Client : requests'[c].op = "kill" /\ requests'[c].task = t
                PROVE  Recorded(t)'
    BY DEF RecordsFit
  <2>1. t \in RunningRows => Status(t) # "absent"
    BY DEF RunningRows
  <2>2. \/ Status(t) # "absent" \/ FollowsUp(t) \/ t \in reap.todo \union reap.mark
        \/ \E c \in Client : requests[c].op = "kill" /\ requests[c].task = t
    BY <1>1, <1>4, <1>10, <2>1 DEF ReqKept, RowsShrink, StartsNone
  <2>3. Recorded(t)
    BY <2>2 DEF DirectInv, RecordsFit
  <2>4. \A c \in Client : Owning(c)' => Owning(c) /\ requests'[c].proc = requests[c].proc
    <3>1. \A c \in Client : Owning(c)' => requests'[c].op # "none"
      BY DEF Owning
    <3>. QED
      BY <1>4, <3>1 DEF ReqKept
  <2>. QED
    BY <1>2, <2>3, <2>4 DEF Recorded
<1>. QED
  BY <1>2, <1>5, <1>6, <1>7, <1>8, <1>9, <1>10, <1>11
\* What such a step has to keep itself.
StillWatched == restarts' = 0 =>
                  restarts = 0 /\ \A p \in watch \ watch' : agents'[procs[p].task].status # "Running"
StillTended  == \A t \in Task : \A p \in Mains(t) :
                  restarts' = 0 /\ Up(p) /\ Up(p)' /\ OneMain(t) /\ Tended(t, p) /\ ~FollowsUp(t)' => Tended(t, p)'
FilesStay ==
  /\ \A c \in Client : Spawning(c)' => Spawning(c) /\ requests'[c].task = requests[c].task
  /\ \A c \in Client : requests'[c].op = "kill" /\ requests'[c].at = "remove" =>
       \/ requests[c].op = "kill" /\ requests[c].at = "remove" /\ requests'[c].task = requests[c].task
       \/ agents'[requests'[c].task].status = "absent"
  /\ ~Kubernetes => \A t \in workspace \ workspace' : Status(t) = "absent" /\ \A c \in Client : Spawning(c)' => requests[c].task # t

LEMMA FilesKept ==
  ASSUME DirectInv, StartsNone, FilesStay
  PROVE  FilesFit'
<1>. SUFFICES ASSUME ~Kubernetes' PROVE FilesFit'
  BY DEF FilesFit
<1>1. ~Kubernetes /\ FilesFit
  BY DEF StartsNone, Kubernetes, DirectInv
<1>2. \A t \in Task : Status(t)' # "absent" => Status(t) # "absent"
  BY DEF StartsNone, RowsShrink
<1>3. \A c \in Client : Spawning(c)' => /\ Spawning(c) /\ requests'[c].task = requests[c].task
                                        /\ requests[c].task \in Task
  BY DirectTyped DEF FilesStay, Spawning
<1>4. \A t \in Task : Status(t)' # "absent" => t \in workspace'
  BY <1>1, <1>2 DEF FilesFit, FilesStay
<1>5. \A c \in Client : Spawning(c)' => /\ requests'[c].task \in workspace'
                                        /\ agents'[requests'[c].task].status = "absent"
  BY <1>1, <1>2, <1>3 DEF FilesFit, FilesStay, Status
<1>6. \A c, d \in Client : Spawning(c)' /\ Spawning(d)' /\ requests'[c].task = requests'[d].task => c = d
  BY <1>1, <1>3 DEF FilesFit
<1>7. \A c \in Client : requests'[c].op = "kill" /\ requests'[c].at = "remove" => agents'[requests'[c].task].status = "absent"
  BY <1>1, <1>2, DirectTyped DEF FilesFit, FilesStay, Status
<1>. QED
  BY <1>4, <1>5, <1>6, <1>7 DEF FilesFit, Status

LEMMA StartsNoneInv ==
  ASSUME DirectInv, StartsNone, StillWatched, StillTended, FilesFit'
  PROVE  DirectInv'
<1>1. /\ DirectTypes' /\ RequestsFit' /\ watch' \subseteq Started' /\ CapFits' /\ KillsAlone' /\ RecordsFit'
      /\ \A t \in Task : Mains(t)' = Mains(t) /\ (OneMain(t)' <=> OneMain(t)) /\ (FollowsUp(t)' => FollowsUp(t))
  BY StartsNoneKept
<1>2. ProcsKept /\ RowsShrink /\ restarts' = 0 => restarts = 0
  BY DEF StartsNone, StillWatched
<1>3. RunningIsWatched'
  <2>. SUFFICES ASSUME restarts' = 0, NEW t \in RunningRows' PROVE \E p \in watch' : procs'[p].task = t
    BY DEF RunningIsWatched
  <2>1. t \in RunningRows /\ Status(t)' = "Running"
    BY DEF StartsNone, RowsShrink, RunningRows
  <2>2. restarts = 0
    BY DEF StillWatched
  <2>3. PICK p \in watch : procs[p].task = t
    BY <2>1, <2>2 DEF DirectInv, WatchFits, RunningIsWatched
  <2>4. p \in watch' /\ p \in Proc
    BY <2>1, <2>3, DirectTyped DEF StillWatched, Status
  <2>. QED
    BY <2>3, <2>4 DEF StartsNone, ProcsKept
<1>4. ProcsFit'
  <2>. SUFFICES ASSUME restarts' = 0, NEW t \in Task, NEW p \in Mains(t)', Up(p)', OneMain(t)' PROVE Tended(t, p)'
    BY DEF ProcsFit
  <2>1. p \in Mains(t) /\ OneMain(t) /\ (FollowsUp(t)' => FollowsUp(t))
    BY <1>1
  <2>2. p \in Proc /\ Up(p) /\ restarts = 0
    BY <2>1 DEF Mains, Started, StartsNone, ProcsKept, StillWatched
  <2>3. Tended(t, p)
    BY <2>1, <2>2 DEF DirectInv, ProcsFit
  <2>4. ~FollowsUp(t)'
    BY <2>1, <2>3 DEF Tended
  <2>. QED
    BY <2>1, <2>2, <2>3, <2>4 DEF StillTended
<1>. QED
  BY <1>1, <1>3, <1>4 DEF DirectInv, WatchFits

\* What is killed by name was the process its spawn or its row is about.
LEMMA KillsTended ==
  ASSUME DirectInv, NEW t \in Task, KillProc(t, "main"), NEW p \in Mains(t), Up(p)', Tended(t, p)
  PROVE  FALSE
<1>1. p \in Proc /\ "main" \in NameKind
  BY DEF Mains, Started, NameKind
<1>. QED
  BY <1>1, KillFacts DEF Tended

\* A request that ends, or goes on, with nothing started.
LEMMA EndKept ==
  ASSUME DirectInv, NEW c \in Client, Finish(c)
  PROVE  ReqsKept
<1>1. /\ requests' \in [Client -> Request] /\ \A d \in Client : d # c => requests'[d] = requests[d]
      /\ requests'[c].op = "none"
  BY EndFacts
<1>2. \A d \in Client : d # c => ReqKept(d)
  BY <1>1, DirectTyped DEF ReqKept, Owning, RequestsFit
<1>. QED
  BY <1>1, <1>2 DEF ReqsKept

LEMMA GoKept ==
  ASSUME DirectInv, NEW c \in Client, requests[c].op # "none",
         NEW at \in {"idle", "create", "launch", "record", "rollback", "stop", "mark", "clean", "remove"},
         GoTo(c, at),
         requests[c].op = "kill" => at \in {"stop", "mark", "clean", "remove"},
         requests[c].op = "spawn" /\ at \in {"record", "rollback"} => requests[c].at \in {"record", "rollback"},
         requests[c].op # "say"
  PROVE  /\ ReqsKept /\ \A d \in Client : d # c => requests'[d] = requests[d]
         /\ requests'[c].op = requests[c].op /\ requests'[c].at = at /\ requests'[c].task = requests[c].task
         /\ requests'[c].proc = requests[c].proc /\ requests'[c].seen = requests[c].seen
<1>1. PICK p : p = requests[c].proc /\ p \in Proc \union {NoProc}
  BY DirectTyped DEF Request
<1>2. /\ requests' \in [Client -> Request] /\ \A d \in Client : d # c => requests'[d] = requests[d]
      /\ requests'[c].op = requests[c].op /\ requests'[c].at = at /\ requests'[c].task = requests[c].task
      /\ requests'[c].proc = p /\ requests'[c].seen = requests[c].seen
  <2>1. Goes(c, at, p)
    BY <1>1 DEF GoTo, Goes
  <2>. QED
    BY <1>1, <2>1, GoFacts
<1>3. \A d \in Client : d # c => requests[d].op = "none" \/ ReqKept(d)
  BY <1>2, DirectTyped DEF ReqKept, Owning, RequestsFit
<1>4. ReqKept(c)
  BY <1>1, <1>2 DEF ReqKept, Owning
<1>. QED
  BY <1>1, <1>2, <1>3, <1>4 DEF ReqsKept
OwnersStay(p) == \A c \in Client : Owning(c) /\ requests[c].proc = p => Owning(c)' /\ requests'[c].proc = p
KillsStay(t)  == \A c \in Client : requests'[c].op = "kill" /\ requests'[c].task = t =>
                   /\ requests[c].op = "kill" /\ requests[c].task = t
                   /\ requests'[c].at = requests[c].at /\ requests'[c].seen = requests[c].seen

LEMMA TendedStays ==
  ASSUME NEW t \in Task, NEW p \in Proc, Tended(t, p), ~FollowsUp(t)',
         handles'[t]["main"] = handles[t]["main"], agents'[t] = agents[t],
         t \in reap'.mark => t \in reap.mark, OwnersStay(p), KillsStay(t)
  PROVE  Tended(t, p)'
<1>1. Status(t)' = Status(t)
  BY DEF Status
<1>2. Status(t)' = "Running" \/ (Status(t)' = "absent" /\ \E c \in Client : Owning(c)' /\ requests'[c].proc = p)
  BY <1>1 DEF Tended, OwnersStay
<1>3. \A c \in Client : requests'[c].op = "kill" /\ requests'[c].task = t => requests'[c].at = "stop" /\ requests'[c].seen = "Running"
  BY DEF Tended, KillsStay
<1>. QED
  BY <1>2, <1>3 DEF Tended

LEMMA MainsAre ==
  ASSUME DirectInv, NEW t \in Task, NEW p \in Mains(t)
  PROVE  p \in Proc /\ p \in Started /\ procs[p].task = t /\ procs[p].name = "main" /\ p # NoProc
BY DEF Mains, Started, Proc, NoProc

\* The requests in flight are as they were.
LEMMA SameStays ==
  ASSUME requests' = requests
  PROVE  /\ \A p \in Proc : OwnersStay(p)
         /\ \A t \in Task : KillsStay(t)
BY DEF OwnersStay, KillsStay, Owning

\* One request changes: the others own and kill what they did.
LEMMA OneStays ==
  ASSUME DirectInv, NEW c \in Client, \A d \in Client : d # c => requests'[d] = requests[d]
  PROVE  /\ \A p \in Proc : ~(Owning(c) /\ requests[c].proc = p) \/ (Owning(c)' /\ requests'[c].proc = p) => OwnersStay(p)
         /\ requests'[c].op # "kill" => \A t \in Task : KillsStay(t)
         /\ \A t \in Task : requests[c].task # t /\ (requests'[c].op = "none" \/ requests'[c].task = requests[c].task) => KillsStay(t)
BY DEF OwnersStay, KillsStay, Owning

LEMMA SpawnCreateInv ==
  ASSUME DirectInv, NEW c \in Client, SpawnCreate(c), deploy' = deploy
  PROVE  DirectInv'
<1>1. PICK t : t = requests[c].task /\ t \in Task /\ requests[c].op = "spawn" /\ requests[c].at = "create"
  BY DirectTyped DEF SpawnCreate, InFlight
<1>2. /\ agents' = agents /\ procs' = procs /\ handles' = handles /\ watch' = watch /\ reap' = reap /\ restarts' = restarts
  BY DEF SpawnCreate, storeVars
<1>3. \/ CanCreate(t) /\ workspace' = workspace \union {t} /\ GoTo(c, "launch")
      \/ CanCreate(t) /\ workspace' = workspace \ {t} /\ Finish(c)
      \/ Finish(c) /\ workspace' = workspace
  BY <1>1 DEF SpawnCreate
<1>4. /\ ReqsKept /\ \A d \in Client : d # c => requests'[d] = requests[d]
      /\ \/ requests'[c].op = "none"
         \/ requests'[c].op = "spawn" /\ requests'[c].at = "launch" /\ requests'[c].task = t /\ CanCreate(t) /\ workspace' = workspace \union {t}
      /\ ~Owning(c)'
  <2>1. CASE Finish(c)
    BY <2>1, EndKept, EndFacts DEF Owning
  <2>2. CASE CanCreate(t) /\ GoTo(c, "launch") /\ workspace' = workspace \union {t}
    BY <1>1, <2>2, GoKept DEF Owning
  <2>. QED
    BY <1>3, <2>1, <2>2
<1>5. StartsNone
  <2>1. workspace' \in SUBSET Task
    BY <1>1, <1>3, DirectTyped
  <2>2. ProcsKept /\ RowsShrink
    BY <1>2, SameProcs, SameAgents
  <2>. QED
    BY <1>2, <1>4, <2>1, <2>2, DirectTyped DEF StartsNone
<1>7. FilesFit'
  <2>. SUFFICES ASSUME ~Kubernetes' PROVE FilesFit'
    BY DEF FilesFit
  <2>1. ~Kubernetes /\ FilesFit
    BY DEF DirectInv, Kubernetes
  <2>2. workspace' = workspace \/ (workspace' = workspace \union {t} /\ t \notin workspace)
    BY <1>3, <2>1 DEF CanCreate
  <2>3. \A d \in Client : d # c => (Spawning(d)' <=> Spawning(d)) /\ requests'[d] = requests[d]
    BY <1>4 DEF Spawning
  <2>4. Spawning(c)' => requests'[c].task = t /\ workspace' = workspace \union {t} /\ t \notin workspace
    BY <1>3, <1>4, <2>1 DEF Spawning, CanCreate
  <2>5. t \notin workspace => Status(t) = "absent" /\ \A d \in Client : Spawning(d) => requests[d].task # t
    BY <1>1, <2>1 DEF FilesFit
  <2>6. \A d \in Client : Spawning(d)' => requests'[d].task \in workspace' /\ agents'[requests'[d].task].status = "absent"
    BY <1>2, <2>1, <2>2, <2>3, <2>4, <2>5 DEF FilesFit, Status
  <2>7. \A d, e \in Client : Spawning(d)' /\ Spawning(e)' /\ requests'[d].task = requests'[e].task => d = e
    BY <2>1, <2>3, <2>4, <2>5 DEF FilesFit
  <2>8. \A d \in Client : requests'[d].op = "kill" /\ requests'[d].at = "remove" => agents'[requests'[d].task].status = "absent"
    BY <1>2, <1>4, <2>1 DEF FilesFit, Status
  <2>. QED
    BY <1>2, <2>1, <2>2, <2>6, <2>7, <2>8 DEF FilesFit, Status
<1>8. StillWatched
  BY <1>2 DEF StillWatched
<1>9. StillTended
  <2>. SUFFICES ASSUME NEW u \in Task, NEW p \in Mains(u), Tended(u, p), ~FollowsUp(u)' PROVE Tended(u, p)'
    BY DEF StillTended
  <2>1. OwnersStay(p) /\ KillsStay(u) /\ p \in Proc
    BY <1>1, <1>4, OneStays, MainsAre DEF Owning
  <2>. QED
    BY <1>2, <2>1, TendedStays
<1>. QED
  BY <1>5, <1>7, <1>8, <1>9, StartsNoneInv

LEMMA SpawnLaunchFails ==
  ASSUME DirectInv, NEW c \in Client, InFlight(c, "spawn", "launch"), Finish(c), deploy' = deploy,
         workspace' = workspace \ {requests[c].task},
         UNCHANGED <<procs, handles, storeVars, token, watch, reap, restarts>>
  PROVE  DirectInv'
<1>1. PICK t : t = requests[c].task /\ t \in Task /\ requests[c].op = "spawn" /\ Spawning(c) /\ ~Owning(c)
  BY DirectTyped DEF InFlight, Spawning, Owning
<1>2. /\ agents' = agents /\ procs' = procs /\ handles' = handles /\ watch' = watch /\ reap' = reap /\ restarts' = restarts
  BY DEF storeVars
<1>3. ReqsKept /\ requests'[c].op = "none" /\ \A d \in Client : d # c => requests'[d] = requests[d]
  BY EndKept, EndFacts
<1>4. StartsNone
  BY <1>2, <1>3, SameProcs, SameAgents, DirectTyped DEF StartsNone
<1>5. FilesStay
  <2>1. ~Kubernetes => Status(t) = "absent" /\ \A d \in Client : Spawning(d) /\ d # c => requests[d].task # t
    BY <1>1 DEF DirectInv, FilesFit
  <2>2. \A d \in Client : Spawning(d)' => Spawning(d) /\ requests'[d].task = requests[d].task /\ d # c
    BY <1>3 DEF Spawning
  <2>. QED
    BY <1>1, <1>3, <2>1, <2>2 DEF FilesStay
<1>6. StillWatched
  BY <1>2 DEF StillWatched
<1>7. StillTended
  <2>. SUFFICES ASSUME NEW u \in Task, NEW p \in Mains(u), Tended(u, p), ~FollowsUp(u)' PROVE Tended(u, p)'
    BY DEF StillTended
  <2>1. OwnersStay(p) /\ KillsStay(u) /\ p \in Proc
    BY <1>1, <1>3, OneStays, MainsAre
  <2>. QED
    BY <1>2, <2>1, TendedStays
<1>. QED
  BY <1>4, <1>5, <1>6, <1>7, FilesKept, StartsNoneInv

LEMMA SpawnRefused ==
  ASSUME DirectInv, NEW c \in Client, InFlight(c, "spawn", "record"), GoTo(c, "rollback"), deploy' = deploy,
         UNCHANGED <<procs, handles, workspace, storeVars, token, watch, reap, restarts>>
  PROVE  DirectInv'
<1>1. requests[c].op = "spawn" /\ Spawning(c) /\ Owning(c)
  BY DEF InFlight, Spawning, Owning
<1>2. /\ agents' = agents /\ procs' = procs /\ handles' = handles /\ watch' = watch /\ reap' = reap /\ restarts' = restarts
  BY DEF storeVars
<1>3. /\ ReqsKept /\ \A d \in Client : d # c => requests'[d] = requests[d]
      /\ requests'[c].op = "spawn" /\ requests'[c].at = "rollback" /\ requests'[c].task = requests[c].task
      /\ requests'[c].proc = requests[c].proc
  BY <1>1, GoKept DEF InFlight
<1>4. StartsNone
  BY <1>2, <1>3, SameProcs, SameAgents, DirectTyped DEF StartsNone
<1>5. FilesStay
  BY <1>1, <1>2, <1>3 DEF FilesStay, Spawning
<1>6. StillWatched
  BY <1>2 DEF StillWatched
<1>7. StillTended
  <2>. SUFFICES ASSUME NEW u \in Task, NEW p \in Mains(u), Tended(u, p), ~FollowsUp(u)' PROVE Tended(u, p)'
    BY DEF StillTended
  <2>1. Owning(c)'
    BY <1>3 DEF Owning
  <2>2. OwnersStay(p) /\ KillsStay(u) /\ p \in Proc
    BY <1>3, <2>1, OneStays, MainsAre
  <2>. QED
    BY <1>2, <2>2, TendedStays
<1>. QED
  BY <1>4, <1>5, <1>6, <1>7, FilesKept, StartsNoneInv

LEMMA SpawnRollbackInv ==
  ASSUME DirectInv, NEW c \in Client, SpawnRollback(c), deploy' = deploy
  PROVE  DirectInv'
<1>1. PICK t : t = requests[c].task /\ t \in Task /\ requests[c].op = "spawn" /\ Spawning(c) /\ Owning(c)
  BY DirectTyped DEF SpawnRollback, InFlight, Spawning, Owning
<1>2. /\ agents' = agents /\ watch' = watch /\ reap' = reap /\ restarts' = restarts
      /\ KillProc(t, "main") /\ workspace' = workspace \ {t}
  BY <1>1 DEF SpawnRollback, storeVars
<1>3. ReqsKept /\ requests'[c].op = "none" /\ \A d \in Client : d # c => requests'[d] = requests[d]
  BY EndKept, EndFacts DEF SpawnRollback
<1>4. /\ ProcsKept /\ handles' \in [Task -> [NameKind -> Proc \union {NoProc}]]
      /\ \A u \in Task : u # t => handles'[u]["main"] = handles[u]["main"]
  BY <1>1, <1>2, KillFacts DEF NameKind
<1>5. StartsNone
  BY <1>2, <1>3, <1>4, SameAgents, DirectTyped DEF StartsNone
<1>6. FilesStay
  <2>1. ~Kubernetes => Status(t) = "absent" /\ \A d \in Client : Spawning(d) /\ d # c => requests[d].task # t
    BY <1>1 DEF DirectInv, FilesFit
  <2>2. \A d \in Client : Spawning(d)' => Spawning(d) /\ requests'[d].task = requests[d].task /\ d # c
    BY <1>3 DEF Spawning
  <2>. QED
    BY <1>1, <1>2, <1>3, <2>1, <2>2 DEF FilesStay
<1>7. StillWatched
  BY <1>2 DEF StillWatched
<1>8. StillTended
  <2>. SUFFICES ASSUME NEW u \in Task, NEW p \in Mains(u), Up(p)', Tended(u, p), ~FollowsUp(u)' PROVE Tended(u, p)'
    BY DEF StillTended
  <2>1. u # t
    BY <1>1, <1>2, KillsTended
  <2>2. requests[c].proc # p
    BY <1>1, <2>1, DirectTyped, MainsAre DEF RequestsFit
  <2>3. OwnersStay(p) /\ KillsStay(u) /\ p \in Proc
    BY <1>3, <2>2, OneStays, MainsAre
  <2>. QED
    BY <1>2, <1>4, <2>1, <2>3, TendedStays
<1>. QED
  BY <1>5, <1>6, <1>7, <1>8, FilesKept, StartsNoneInv
\* A step that leaves the rows, the files and the collectors alone.
LEMMA StillFiles ==
  ASSUME DirectInv, StartsNone, workspace' = workspace, watch' = watch, restarts' = restarts,
         \A c \in Client : Spawning(c)' => Spawning(c) /\ requests'[c].task = requests[c].task,
         \A c \in Client : requests'[c].op = "kill" /\ requests'[c].at = "remove" =>
           requests[c].op = "kill" /\ requests[c].at = "remove" /\ requests'[c].task = requests[c].task
  PROVE  FilesFit' /\ StillWatched
<1>1. FilesStay
  BY DEF FilesStay
<1>. QED
  BY <1>1, FilesKept DEF StillWatched

LEMMA SayFails ==
  ASSUME DirectInv, NEW c \in Client, requests[c].op = "say", Finish(c), deploy' = deploy,
         agents' = agents, ProcsKept, handles' \in [Task -> [NameKind -> Proc \union {NoProc}]],
         \A t \in Task : handles'[t]["main"] = handles[t]["main"],
         UNCHANGED <<workspace, watch, reap, restarts>>
  PROVE  DirectInv'
<1>1. ReqsKept /\ requests'[c].op = "none" /\ \A d \in Client : d # c => requests'[d] = requests[d]
  BY EndKept, EndFacts
<1>2. StartsNone
  BY <1>1, SameAgents, DirectTyped DEF StartsNone
<1>3. FilesFit' /\ StillWatched
  <2>1. \A d \in Client : Spawning(d)' => Spawning(d) /\ requests'[d].task = requests[d].task
    BY <1>1 DEF Spawning
  <2>2. \A d \in Client : requests'[d].op = "kill" /\ requests'[d].at = "remove" =>
           requests[d].op = "kill" /\ requests[d].at = "remove" /\ requests'[d].task = requests[d].task
    BY <1>1
  <2>. QED
    BY <1>2, <2>1, <2>2, StillFiles
<1>4. StillTended
  <2>. SUFFICES ASSUME NEW u \in Task, NEW p \in Mains(u), Tended(u, p), ~FollowsUp(u)' PROVE Tended(u, p)'
    BY DEF StillTended
  <2>1. ~Owning(c)
    BY DEF Owning
  <2>2. OwnersStay(p) /\ KillsStay(u) /\ p \in Proc
    BY <1>1, <2>1, OneStays, MainsAre
  <2>. QED
    BY <2>2, TendedStays
<1>. QED
  BY <1>2, <1>3, <1>4, StartsNoneInv

LEMMA SayLaunchFails ==
  ASSUME DirectInv, NEW c \in Client, InFlight(c, "say", "launch"), Finish(c), deploy' = deploy,
         UNCHANGED <<procs, handles, storeVars, token, workspace, watch, reap, restarts>>
  PROVE  DirectInv'
<1>1. ProcsKept /\ handles' \in [Task -> [NameKind -> Proc \union {NoProc}]]
  BY SameProcs, DirectTyped
<1>2. requests[c].op = "say" /\ agents' = agents
  BY DEF InFlight, storeVars
<1>. QED
  BY <1>1, <1>2, SayFails

LEMMA SayNoRow ==
  ASSUME DirectInv, NEW c \in Client, InFlight(c, "say", "mark"), Finish(c), deploy' = deploy,
         KillProc(requests[c].task, "say"), UNCHANGED <<agents, watch, workspace, reap, restarts>>
  PROVE  DirectInv'
<1>1. PICK t : t = requests[c].task /\ t \in Task /\ requests[c].op = "say"
  BY DirectTyped DEF InFlight
<1>2. KillProc(t, "say")
  BY <1>1
<1>3. /\ ProcsKept /\ handles' \in [Task -> [NameKind -> Proc \union {NoProc}]]
      /\ \A u \in Task : handles'[u]["main"] = handles[u]["main"]
  BY <1>1, <1>2, KillFacts DEF NameKind
<1>. QED
  BY <1>1, <1>3, SayFails

LEMMA KillStopInv ==
  ASSUME DirectInv, NEW c \in Client, KillStop(c), deploy' = deploy
  PROVE  DirectInv'
<1>1. PICK t : t = requests[c].task /\ t \in Task /\ requests[c].op = "kill" /\ requests[c].at = "stop"
  BY DirectTyped DEF KillStop, InFlight
<1>2. agents' = agents /\ workspace' = workspace /\ watch' = watch /\ reap' = reap /\ restarts' = restarts
  BY DEF KillStop, storeVars
<1>3. /\ \/ KillProc(t, "main") \/ (UNCHANGED <<procs, handles>> /\ (Finish(c) \/ requests[c].seen # "Running"))
      /\ Finish(c) \/ GoTo(c, "mark")
  BY <1>1 DEF KillStop, TerminalStatus
<1>4. /\ ReqsKept /\ \A d \in Client : d # c => requests'[d] = requests[d]
      /\ \/ requests'[c].op = "none"
         \/ requests'[c].op = "kill" /\ requests'[c].at = "mark" /\ requests'[c].task = t
      /\ Finish(c) => requests'[c].op = "none"
  <2>1. CASE Finish(c)
    BY <2>1, EndKept, EndFacts
  <2>2. CASE GoTo(c, "mark") /\ ~Finish(c)
    BY <1>1, <2>2, GoKept
  <2>. QED
    BY <1>3, <2>1, <2>2
<1>5. /\ ProcsKept /\ handles' \in [Task -> [NameKind -> Proc \union {NoProc}]]
      /\ \A u \in Task : u # t => handles'[u]["main"] = handles[u]["main"]
  <2>1. CASE KillProc(t, "main")
    BY <1>1, <2>1, KillFacts DEF NameKind
  <2>2. CASE UNCHANGED <<procs, handles>>
    BY <2>2, SameProcs, DirectTyped
  <2>. QED
    BY <1>3, <2>1, <2>2
<1>6. StartsNone
  BY <1>2, <1>4, <1>5, SameAgents, DirectTyped DEF StartsNone
<1>7. FilesFit' /\ StillWatched
  <2>1. \A d \in Client : Spawning(d)' => Spawning(d) /\ requests'[d].task = requests[d].task
    BY <1>4 DEF Spawning
  <2>2. \A d \in Client : requests'[d].op = "kill" /\ requests'[d].at = "remove" =>
           requests[d].op = "kill" /\ requests[d].at = "remove" /\ requests'[d].task = requests[d].task
    BY <1>4
  <2>. QED
    BY <1>2, <1>6, <2>1, <2>2, StillFiles
<1>8. StillTended
  <2>. SUFFICES ASSUME NEW u \in Task, NEW p \in Mains(u), Up(p)', Tended(u, p), ~FollowsUp(u)' PROVE Tended(u, p)'
    BY DEF StillTended
  <2>1. ~Owning(c)
    BY <1>1 DEF Owning
  <2>2. OwnersStay(p) /\ p \in Proc
    BY <1>4, <2>1, OneStays, MainsAre
  <2>3. CASE u # t
    <3>1. KillsStay(u)
      BY <1>1, <1>4, <2>3, OneStays
    <3>. QED
      BY <1>2, <1>5, <2>2, <2>3, <3>1, TendedStays
  <2>4. CASE u = t
    <3>1. ~KillProc(t, "main") /\ requests[c].seen = "Running"
      BY <1>1, <2>4, KillsTended DEF Tended
    <3>2. UNCHANGED <<procs, handles>> /\ requests'[c].op = "none"
      BY <1>3, <1>4, <3>1
    <3>3. KillsStay(u)
      BY <1>4, <3>2, OneStays
    <3>. QED
      BY <1>2, <2>2, <3>2, <3>3, TendedStays
  <2>. QED
    BY <2>3, <2>4
<1>. QED
  BY <1>6, <1>7, <1>8, StartsNoneInv

LEMMA KillMarkInv ==
  ASSUME DirectInv, NEW c \in Client, KillMark(c), deploy' = deploy
  PROVE  DirectInv'
<1>1. PICK t : /\ t = requests[c].task /\ t \in Task /\ requests[c].op = "kill" /\ requests[c].at = "mark"
               /\ requests[c].seen \in {"Running"} \union TerminalStatus
  BY DirectTyped DEF KillMark, InFlight, RequestsFit
<1>2. /\ procs' = procs /\ handles' = handles /\ workspace' = workspace /\ watch' = watch /\ reap' = reap
      /\ restarts' = restarts
  BY DEF KillMark
<1>3. RowMarked(t)
  <2>1. PICK s \in TerminalStatus : MarkTerminal(t, s)
    BY <1>1 DEF KillMark, TerminalStatus
  <2>. QED
    BY <1>1, <2>1, MarkFacts
<1>4. /\ ReqsKept /\ \A d \in Client : d # c => requests'[d] = requests[d]
      /\ requests'[c].op = "kill" /\ requests'[c].at = "clean" /\ requests'[c].task = t
  BY <1>1, GoKept DEF KillMark
<1>5. StartsNone
  BY <1>1, <1>2, <1>3, <1>4, SameProcs, MarkShrinks, DirectTyped DEF StartsNone
<1>6. FilesFit' /\ StillWatched
  <2>1. \A d \in Client : Spawning(d)' => Spawning(d) /\ requests'[d].task = requests[d].task
    BY <1>4 DEF Spawning
  <2>2. \A d \in Client : requests'[d].op = "kill" /\ requests'[d].at = "remove" =>
           requests[d].op = "kill" /\ requests[d].at = "remove" /\ requests'[d].task = requests[d].task
    BY <1>4
  <2>. QED
    BY <1>2, <1>5, <2>1, <2>2, StillFiles
<1>7. StillTended
  <2>. SUFFICES ASSUME NEW u \in Task, NEW p \in Mains(u), Tended(u, p), ~FollowsUp(u)' PROVE Tended(u, p)'
    BY DEF StillTended
  <2>1. u # t /\ ~Owning(c)
    BY <1>1 DEF Tended, Owning
  <2>2. OwnersStay(p) /\ KillsStay(u) /\ p \in Proc
    BY <1>1, <1>4, <2>1, OneStays, MainsAre
  <2>. QED
    BY <1>2, <1>3, <2>1, <2>2, TendedStays DEF RowMarked
<1>. QED
  BY <1>5, <1>6, <1>7, StartsNoneInv

LEMMA KillCleanInv ==
  ASSUME DirectInv, NEW c \in Client, KillClean(c), deploy' = deploy
  PROVE  DirectInv'
<1>1. PICK t : /\ t = requests[c].task /\ t \in Task /\ requests[c].op = "kill" /\ requests[c].at = "clean"
  BY DirectTyped DEF KillClean, InFlight
<1>2. /\ procs' = procs /\ handles' = handles /\ workspace' = workspace /\ watch' = watch /\ reap' = reap
      /\ restarts' = restarts /\ agents' = [agents EXCEPT ![t] = Absent]
  BY <1>1 DEF KillClean, RemoveAgent
<1>3. /\ agents' \in [Task -> AgentRow] /\ agents'[t].status = "absent"
      /\ \A u \in Task : u # t => agents'[u] = agents[u]
  <2>1. Absent \in AgentRow /\ Absent.status = "absent"
    BY DEF Absent, AgentRow, AgentStatus, AgentMode, NoMission
  <2>. QED
    BY <1>1, <1>2, <2>1, DirectTyped
<1>4. RowsShrink
  BY <1>3, DirectTyped DEF RowsShrink, Status, DirectTypes
<1>5. /\ ReqsKept /\ \A d \in Client : d # c => requests'[d] = requests[d]
      /\ requests'[c].op = "kill" /\ requests'[c].at = "remove" /\ requests'[c].task = t
  BY <1>1, GoKept DEF KillClean
<1>6. StartsNone
  BY <1>1, <1>2, <1>4, <1>5, SameProcs, DirectTyped DEF StartsNone
<1>7. FilesFit'
  <2>1. FilesStay
    BY <1>2, <1>3, <1>5 DEF FilesStay, Spawning
  <2>. QED
    BY <1>6, <2>1, FilesKept
<1>8. StillWatched
  BY <1>2 DEF StillWatched
<1>9. StillTended
  <2>. SUFFICES ASSUME NEW u \in Task, NEW p \in Mains(u), Tended(u, p), ~FollowsUp(u)' PROVE Tended(u, p)'
    BY DEF StillTended
  <2>1. u # t /\ ~Owning(c)
    BY <1>1 DEF Tended, Owning
  <2>2. OwnersStay(p) /\ KillsStay(u) /\ p \in Proc
    BY <1>1, <1>5, <2>1, OneStays, MainsAre
  <2>. QED
    BY <1>2, <1>3, <2>1, <2>2, TendedStays
<1>. QED
  BY <1>6, <1>7, <1>8, <1>9, StartsNoneInv

LEMMA KillRemoveInv ==
  ASSUME DirectInv, NEW c \in Client, KillRemove(c), deploy' = deploy
  PROVE  DirectInv'
<1>1. PICK t : /\ t = requests[c].task /\ t \in Task /\ requests[c].op = "kill" /\ requests[c].at = "remove"
  BY DirectTyped DEF KillRemove, InFlight
<1>2. /\ agents' = agents /\ procs' = procs /\ handles' = handles /\ watch' = watch /\ reap' = reap
      /\ restarts' = restarts /\ workspace' \in {workspace, workspace \ {t}}
  BY <1>1 DEF KillRemove, storeVars
<1>3. ReqsKept /\ requests'[c].op = "none" /\ \A d \in Client : d # c => requests'[d] = requests[d]
  BY EndKept, EndFacts DEF KillRemove
<1>4. StartsNone
  <2>1. workspace' \in SUBSET Task
    BY <1>2, DirectTyped
  <2>. QED
    BY <1>2, <1>3, <2>1, SameProcs, SameAgents, DirectTyped DEF StartsNone
<1>5. FilesFit'
  <2>1. ~Kubernetes => Status(t) = "absent"
    BY <1>1 DEF DirectInv, FilesFit
  <2>2. \A d \in Client : Spawning(d)' => Spawning(d) /\ requests'[d].task = requests[d].task /\ d # c
    BY <1>3 DEF Spawning
  <2>3. \A d \in Client : Spawning(d) => requests[d].task # t
    BY <1>1 DEF DirectInv, KillsAlone, Asks, Spawning
  <2>4. FilesStay
    BY <1>2, <1>3, <2>1, <2>2, <2>3 DEF FilesStay
  <2>. QED
    BY <1>4, <2>4, FilesKept
<1>6. StillWatched
  BY <1>2 DEF StillWatched
<1>7. StillTended
  <2>. SUFFICES ASSUME NEW u \in Task, NEW p \in Mains(u), Tended(u, p), ~FollowsUp(u)' PROVE Tended(u, p)'
    BY DEF StillTended
  <2>1. ~Owning(c)
    BY <1>1 DEF Owning
  <2>2. OwnersStay(p) /\ KillsStay(u) /\ p \in Proc
    BY <1>3, <2>1, OneStays, MainsAre
  <2>. QED
    BY <1>2, <2>2, TendedStays
<1>. QED
  BY <1>4, <1>5, <1>6, <1>7, StartsNoneInv
\* Nothing is asked and no request goes on.
LEMMA Idle ==
  ASSUME DirectInv, deploy' = deploy, UNCHANGED <<workspace, requests, restarts>>,
         ProcsKept, RowsShrink, handles' \in [Task -> [NameKind -> Proc \union {NoProc}]],
         watch' \subseteq watch, reap' \in [todo : SUBSET Task, mark : SUBSET Task],
         reap'.todo \subseteq reap.todo \union RunningRows, reap'.mark \subseteq reap.todo \union reap.mark,
         \A p \in watch \ watch' : agents'[procs[p].task].status # "Running",
         \A u \in Task : \A p \in Mains(u) :
           Up(p) /\ Up(p)' /\ OneMain(u) /\ Tended(u, p) =>
             /\ handles'[u]["main"] = handles[u]["main"] /\ agents'[u] = agents[u]
             /\ u \in reap'.mark => u \in reap.mark
  PROVE  DirectInv'
<1>1. ReqsKept
  BY SameRequests
<1>2. StartsNone
  BY <1>1, DirectTyped DEF StartsNone
<1>3. FilesFit'
  <2>1. FilesStay
    BY DEF FilesStay, Spawning
  <2>. QED
    BY <1>2, <2>1, FilesKept
<1>4. StillWatched
  BY DEF StillWatched
<1>5. StillTended
  <2>. SUFFICES ASSUME NEW u \in Task, NEW p \in Mains(u), Up(p), Up(p)', OneMain(u), Tended(u, p), ~FollowsUp(u)'
                PROVE  Tended(u, p)'
    BY DEF StillTended
  <2>1. OwnersStay(p) /\ KillsStay(u) /\ p \in Proc
    BY SameStays, MainsAre
  <2>. QED
    BY <2>1, TendedStays
<1>. QED
  BY <1>2, <1>3, <1>4, <1>5, StartsNoneInv

LEMMA ProcExitInv ==
  ASSUME DirectInv, NEW p \in Proc, ProcExit(p), deploy' = deploy
  PROVE  DirectInv'
<1>1. agents' = agents /\ UNCHANGED <<handles, workspace, requests, watch, reap, restarts>>
  BY DEF ProcExit, storeVars
<1>2. ProcsKept
  BY StopFacts DEF ProcExit
<1>. QED
  BY <1>1, <1>2, Idle, SameAgents, DirectTyped

LEMMA JobExpiresInv ==
  ASSUME DirectInv, NEW t \in Task, NEW n \in NameKind, JobExpires(t, n), deploy' = deploy
  PROVE  DirectInv'
<1>1. /\ agents' = agents /\ UNCHANGED <<procs, workspace, requests, watch, reap, restarts>>
      /\ ~Up(handles[t][n]) /\ handles' = [handles EXCEPT ![t][n] = NoProc]
  BY DEF JobExpires, storeVars
<1>2. handles \in [Task -> [NameKind -> Proc \union {NoProc}]] /\ "main" \in NameKind
  BY DirectTyped DEF NameKind
<1>3. handles' \in [Task -> [NameKind -> Proc \union {NoProc}]]
  BY <1>1, <1>2
<1>4. \A u \in Task : u # t \/ n # "main" => handles'[u]["main"] = handles[u]["main"]
  BY <1>1, <1>2
<1>5. \A u \in Task : \A p \in Mains(u) : Up(p) /\ Tended(u, p) => handles'[u]["main"] = handles[u]["main"]
  BY <1>1, <1>4 DEF Tended
<1>6. ProcsKept /\ RowsShrink
  BY <1>1, SameProcs, SameAgents
<1>. QED
  BY <1>1, <1>3, <1>5, <1>6, Idle, DirectTyped

LEMMA CollectInv ==
  ASSUME DirectInv, NEW p \in Proc, Collect(p), deploy' = deploy
  PROVE  DirectInv'
<1>1. /\ UNCHANGED <<procs, handles, workspace, requests, reap, restarts>>
      /\ p \in watch /\ Waited(p) /\ watch' = watch \ {p}
  BY DEF Collect
<1>2. p \in Started /\ procs[p].task \in Task
  BY <1>1, DirectTyped DEF DirectInv, WatchFits
<1>3. PICK t : t = procs[p].task /\ t \in Task
  BY <1>2
<1>4. RowMarked(t)
  <2>1. PICK s \in TerminalStatus : MarkTerminal(t, s)
    BY <1>3 DEF Collect, TerminalStatus
  <2>. QED
    BY <1>3, <2>1, MarkFacts
<1>5. RowsShrink /\ agents'[t].status # "Running" /\ \A u \in Task : u # t => agents'[u] = agents[u]
  BY <1>3, <1>4, MarkShrinks DEF RowMarked, Status
<1>6. ASSUME NEW q \in Mains(t), Up(q), OneMain(t), Tended(t, q) PROVE FALSE
  <2>1. procs[p].name = "main"
    <3>1. procs[p] \in ProcRecord
      BY DirectTyped
    <3>. QED
      BY <1>2, <1>3, <1>6, <3>1 DEF Tended, FollowsUp, ProcRecord, NameKind
  <2>2. p \in Mains(t)
    BY <1>2, <1>3, <2>1 DEF Mains
  <2>3. p = q
    BY <1>6, <2>2 DEF OneMain
  <2>4. handles[procs[p].task][procs[p].name] = q /\ procs[q].state = "up" /\ q # NoProc
    BY <1>3, <1>6, <2>1, MainsAre DEF Tended, Up
  <2>. QED
    BY <1>1, <2>3, <2>4 DEF Waited, Dead
<1>7. ProcsKept
  BY <1>1, SameProcs
<1>8. \A u \in Task : \A q \in Mains(u) : Up(q) /\ OneMain(u) /\ Tended(u, q) => agents'[u] = agents[u]
  BY <1>5, <1>6
<1>9. \A q \in watch \ watch' : agents'[procs[q].task].status # "Running"
  BY <1>1, <1>3, <1>5
<1>. QED
  BY <1>1, <1>5, <1>7, <1>8, <1>9, Idle, DirectTyped

LEMMA ReapLoadInv ==
  ASSUME DirectInv, NEW S \in SUBSET Task, ReapLoad(S), deploy' = deploy
  PROVE  DirectInv'
<1>1. /\ agents' = agents /\ UNCHANGED <<procs, handles, workspace, requests, watch, restarts>>
      /\ S \subseteq RunningRows /\ reap.mark = {} /\ reap' = [reap EXCEPT !.todo = S]
  BY DEF ReapLoad, storeVars
<1>2. reap' \in [todo : SUBSET Task, mark : SUBSET Task] /\ reap'.todo = S /\ reap'.mark = {}
  BY <1>1, DirectTyped
<1>3. ProcsKept /\ RowsShrink
  BY <1>1, SameProcs, SameAgents
<1>. QED
  BY <1>1, <1>2, <1>3, Idle, DirectTyped

LEMMA ReapKillInv ==
  ASSUME DirectInv, NEW t \in Task, ReapKill(t), deploy' = deploy
  PROVE  DirectInv'
<1>1. /\ agents' = agents /\ UNCHANGED <<workspace, requests, watch, restarts>>
      /\ t \in reap.todo /\ reap.mark = {} /\ KillProc(t, "main")
      /\ \/ reap' = [todo |-> reap.todo \ {t}, mark |-> {t}]
         \/ reap' = [reap EXCEPT !.todo = @ \ {t}]
  BY DEF ReapKill, storeVars
<1>2. reap' \in [todo : SUBSET Task, mark : SUBSET Task] /\ reap'.todo \subseteq reap.todo /\ reap'.mark \subseteq {t}
  BY <1>1, DirectTyped
<1>3. /\ ProcsKept /\ handles' \in [Task -> [NameKind -> Proc \union {NoProc}]]
      /\ \A u \in Task : u # t => handles'[u]["main"] = handles[u]["main"]
  BY <1>1, KillFacts DEF NameKind
<1>4. \A u \in Task : \A p \in Mains(u) : Up(p)' /\ Tended(u, p) => u # t
  BY <1>1, KillsTended
<1>. QED
  BY <1>1, <1>2, <1>3, <1>4, Idle, SameAgents, DirectTyped

LEMMA ReapSkipInv ==
  ASSUME DirectInv, NEW t \in Task, ReapSkip(t), deploy' = deploy
  PROVE  DirectInv'
<1>1. /\ agents' = agents /\ UNCHANGED <<procs, handles, workspace, requests, watch, restarts>>
      /\ reap' = [reap EXCEPT !.todo = @ \ {t}]
  BY DEF ReapSkip, storeVars
<1>2. reap' \in [todo : SUBSET Task, mark : SUBSET Task] /\ reap'.todo \subseteq reap.todo /\ reap'.mark = reap.mark
  BY <1>1, DirectTyped
<1>3. ProcsKept /\ RowsShrink
  BY <1>1, SameProcs, SameAgents
<1>. QED
  BY <1>1, <1>2, <1>3, Idle, DirectTyped

LEMMA ReapMarkInv ==
  ASSUME DirectInv, NEW t \in Task, ReapMark(t), deploy' = deploy
  PROVE  DirectInv'
<1>1. /\ UNCHANGED <<procs, handles, workspace, requests, watch, restarts>>
      /\ t \in reap.mark /\ MarkTerminal(t, "Stopped") /\ reap' = [reap EXCEPT !.mark = {}]
  BY DEF ReapMark
<1>2. reap' \in [todo : SUBSET Task, mark : SUBSET Task] /\ reap'.todo = reap.todo /\ reap'.mark = {}
  BY <1>1, DirectTyped
<1>3. RowMarked(t)
  BY <1>1, MarkFacts DEF TerminalStatus
<1>4. RowsShrink /\ \A u \in Task : u # t => agents'[u] = agents[u]
  BY <1>3, MarkShrinks DEF RowMarked
<1>5. \A u \in Task : \A p \in Mains(u) : Tended(u, p) => u # t
  BY <1>1 DEF Tended
<1>6. ProcsKept
  BY <1>1, SameProcs
<1>. QED
  BY <1>1, <1>2, <1>4, <1>5, <1>6, Idle, DirectTyped

LEMMA RestartInv ==
  ASSUME DirectInv, Restart, deploy' = deploy
  PROVE  DirectInv'
<1>1. /\ agents' = agents /\ UNCHANGED <<procs, workspace>> /\ restarts' = restarts + 1
      /\ requests' = [c \in Client |-> NoRequest] /\ watch' = {} /\ reap' = [todo |-> {}, mark |-> {}]
      /\ handles' = IF Kubernetes THEN handles ELSE [t \in Task |-> [n \in NameKind |-> NoProc]]
  BY DEF Restart, storeVars
<1>2. restarts' \in Nat /\ restarts' # 0
  BY <1>1, DirectTyped
<1>3. handles' \in [Task -> [NameKind -> Proc \union {NoProc}]]
  BY <1>1, DirectTyped
<1>4. NoRequest \in Request /\ NoRequest.op = "none"
  BY DEF NoRequest, Request, NoProc, AgentStatus
<1>5. requests' \in [Client -> Request] /\ \A c \in Client : requests'[c].op = "none"
  BY <1>1, <1>4
<1>6. ReqsKept
  BY <1>5 DEF ReqsKept
<1>7. StartsNone
  BY <1>1, <1>2, <1>3, <1>6, SameProcs, SameAgents, DirectTyped DEF StartsNone
<1>8. StillWatched /\ StillTended
  BY <1>2 DEF StillWatched, StillTended
<1>9. FilesFit'
  <2>1. FilesStay
    BY <1>1, <1>5 DEF FilesStay, Spawning
  <2>. QED
    BY <1>7, <2>1, FilesKept
<1>. QED
  BY <1>7, <1>8, <1>9, StartsNoneInv
LEMMA BeginFacts ==
  ASSUME DirectInv, NEW c \in Client, NEW t \in Task, NEW op \in Ops, NEW at \in {"create", "launch", "stop"},
         Begin(c, op, t, at)
  PROVE  /\ requests' \in [Client -> Request] /\ \A d \in Client : d # c => requests'[d] = requests[d]
         /\ requests[c].op = "none" /\ requests'[c].op = op /\ requests'[c].at = at /\ requests'[c].task = t
         /\ requests'[c].seen = IF op = "kill" THEN Status(t) ELSE "absent"
<1>1. requests \in [Client -> Request] /\ requests[c].op = "none" /\ Status(t) \in AgentStatus
  BY DirectTyped DEF Begin, MayBegin, NoRequest, AgentStatus, LiveStatus
<1>2. PICK s : s = (IF op = "kill" THEN Status(t) ELSE "absent") /\ s \in AgentStatus
  BY <1>1 DEF AgentStatus
<1>3. PICK r : r = [op |-> op, at |-> at, task |-> t, proc |-> NoProc, seen |-> s]
  OBVIOUS
<1>4. r \in Request /\ r.op = op /\ r.at = at /\ r.task = t /\ r.seen = s
  BY <1>2, <1>3 DEF Request, NoProc
<1>5. requests' = [requests EXCEPT ![c] = r]
  BY <1>2, <1>3 DEF Begin
<1>. QED
  BY <1>1, <1>2, <1>4, <1>5

LEMMA BeginInv ==
  ASSUME DirectInv, "kill" \notin Overlap, NEW c \in Client, NEW t \in Task, deploy' = deploy,
         SpawnFind(c, t) \/ SayFind(c, t) \/ KillFind(c, t)
  PROVE  DirectInv'
<1>1. UNCHANGED <<agents, procs, handles, workspace, watch, reap, restarts>>
  BY DEF SpawnFind, SayFind, KillFind, storeVars
<1>2. PICK op \in Ops, at \in {"create", "launch", "stop"} :
        /\ Begin(c, op, t, at)
        /\ \/ op = "spawn" /\ at = "create"
           \/ op = "say" /\ at = "launch" /\ Status(t) \notin {"absent", "Running"}
           \/ op = "kill" /\ at = "stop" /\ Status(t) # "absent"
  <2>1. CASE SpawnFind(c, t)
    BY <2>1 DEF SpawnFind, Ops
  <2>2. CASE SayFind(c, t)
    BY <2>2 DEF SayFind, Ops
  <2>3. CASE KillFind(c, t)
    BY <2>3 DEF KillFind, Ops
  <2>. QED
    BY <2>1, <2>2, <2>3
<1>3. /\ requests' \in [Client -> Request] /\ \A d \in Client : d # c => requests'[d] = requests[d]
      /\ requests[c].op = "none" /\ requests'[c].op = op /\ requests'[c].at = at /\ requests'[c].task = t
      /\ requests'[c].seen = IF op = "kill" THEN Status(t) ELSE "absent"
  BY <1>2, BeginFacts
<1>4. DirectTypes'
  BY <1>1, <1>3, DirectTyped DEF DirectTypes, Started, Status
<1>5. \A d \in Client : /\ ~Owning(c)' /\ ~Spawning(c)' /\ ~Owning(c) /\ ~Spawning(c)
                        /\ d # c => (Owning(d)' <=> Owning(d)) /\ (Spawning(d)' <=> Spawning(d))
  BY <1>2, <1>3 DEF Owning, Spawning
<1>6. /\ Started' = Started /\ \A u \in Task : Mains(u)' = Mains(u) /\ (OneMain(u)' <=> OneMain(u))
      /\ RunningRows' = RunningRows /\ (FollowUp' <=> FollowUp) /\ MaxConcurrent' = MaxConcurrent
  BY <1>1 DEF Started, Mains, OneMain, RunningRows, Status, FollowUp, MaxConcurrent
<1>7. RequestsFit'
  <2>1. \A d \in Client : d # c =>
          /\ requests'[d].op # "none" => requests'[d].task \in Task
          /\ requests'[d].op = "kill" => /\ requests'[d].at \in {"stop", "mark", "clean", "remove"}
                                         /\ requests'[d].seen \in {"Running"} \union TerminalStatus
          /\ Owning(d)' => requests'[d].proc \in Mains(requests[d].task)'
          /\ requests'[d].op = "say" /\ requests'[d].at = "mark" =>
               /\ requests'[d].proc \in Started' /\ procs'[requests'[d].proc].task = requests'[d].task
               /\ procs'[requests'[d].proc].name = "say"
    <3>. SUFFICES ASSUME NEW d \in Client, d # c
         PROVE /\ requests'[d].op # "none" => requests'[d].task \in Task
               /\ requests'[d].op = "kill" => /\ requests'[d].at \in {"stop", "mark", "clean", "remove"}
                                              /\ requests'[d].seen \in {"Running"} \union TerminalStatus
               /\ Owning(d)' => requests'[d].proc \in Mains(requests[d].task)'
               /\ requests'[d].op = "say" /\ requests'[d].at = "mark" =>
                    /\ requests'[d].proc \in Started' /\ procs'[requests'[d].proc].task = requests'[d].task
                    /\ procs'[requests'[d].proc].name = "say"
      OBVIOUS
    <3>1. requests'[d] = requests[d]
      BY <1>3
    <3>2. Mains(requests[d].task)' = Mains(requests[d].task)
      BY <1>1, <3>1 DEF Mains, Started
    <3>. QED
      BY <1>1, <1>5, <1>6, <3>1, <3>2, DirectTyped DEF RequestsFit
  <2>2. /\ requests'[c].task \in Task
        /\ requests'[c].op = "kill" => /\ requests'[c].at \in {"stop", "mark", "clean", "remove"}
                                       /\ requests'[c].seen \in {"Running"} \union TerminalStatus
        /\ ~Owning(c)' /\ requests'[c].at # "mark"
    BY <1>2, <1>3, <1>5, DirectTyped
  <2>3. \A d, e \in Client : Owning(d)' /\ Owning(e)' /\ requests'[d].proc = requests'[e].proc => d = e
    BY <1>3, <1>5, DirectTyped DEF RequestsFit
  <2>. QED
    BY <2>1, <2>2, <2>3 DEF RequestsFit
<1>8. WatchFits' /\ CapFits'
  BY <1>1, <1>6 DEF DirectInv, WatchFits, CapFits, RunningIsWatched, RunningCapped
<1>9. KillsAlone'
  <2>1. \A d \in Client : d # c /\ requests[d].task = t => requests[d].op # "kill" /\ op # "kill"
    BY <1>2 DEF Begin, MayBegin
  <2>. SUFFICES ASSUME NEW d \in Client, NEW e \in Client, requests'[d].op = "kill", requests'[e].op # "none",
                       requests'[e].task = requests'[d].task
                PROVE  d = e
    BY DEF KillsAlone, Asks
  <2>2. CASE d # c /\ e # c
    BY <1>3, <2>2 DEF DirectInv, KillsAlone, Asks
  <2>3. CASE d = c /\ e # c
    BY <1>3, <2>1, <2>3
  <2>4. CASE d # c /\ e = c
    BY <1>3, <2>1, <2>4
  <2>. QED
    BY <2>2, <2>3, <2>4
<1>10. FilesFit'
  <2>. SUFFICES ASSUME ~Kubernetes' PROVE FilesFit'
    BY DEF FilesFit
  <2>1. ~Kubernetes /\ FilesFit
    BY DEF DirectInv, Kubernetes
  <2>2. \A d \in Client : Spawning(d)' => Spawning(d) /\ requests'[d] = requests[d]
    BY <1>3, <1>5
  <2>3. \A d \in Client : requests'[d].op = "kill" /\ requests'[d].at = "remove" => requests'[d] = requests[d]
    BY <1>2, <1>3
  <2>. QED
    BY <1>1, <2>1, <2>2, <2>3 DEF FilesFit, Status
<1>11. \A u \in Task : FollowsUp(u)' => FollowsUp(u) \/ (u = t /\ op = "say")
  BY <1>1, <1>3, <1>6 DEF FollowsUp
<1>12. RecordsFit'
  <2>. SUFFICES ASSUME NEW u \in Task,
                       \/ Status(u)' # "absent" \/ FollowsUp(u)' \/ u \in reap'.todo \union reap'.mark
                       \/ \E d \in Client : requests'[d].op = "kill" /\ requests'[d].task = u
                PROVE  Recorded(u)'
    BY DEF RecordsFit
  <2>1. \/ Status(u) # "absent" \/ FollowsUp(u) \/ u \in reap.todo \union reap.mark
        \/ \E d \in Client : requests[d].op = "kill" /\ requests[d].task = u
    BY <1>1, <1>2, <1>3, <1>11 DEF Status
  <2>2. Recorded(u)
    BY <2>1 DEF DirectInv, RecordsFit
  <2>3. \A d \in Client : Owning(d)' => Owning(d) /\ requests'[d] = requests[d]
    BY <1>3, <1>5
  <2>. QED
    BY <1>6, <2>2, <2>3 DEF Recorded
<1>13. ProcsFit'
  <2>. SUFFICES ASSUME restarts' = 0, NEW u \in Task, NEW p \in Mains(u)', Up(p)', OneMain(u)' PROVE Tended(u, p)'
    BY DEF ProcsFit
  <2>1. p \in Mains(u) /\ Up(p) /\ OneMain(u) /\ restarts = 0
    BY <1>1, <1>6 DEF Up
  <2>2. Tended(u, p)
    BY <2>1 DEF DirectInv, ProcsFit
  <2>3. Status(u)' = Status(u) /\ ~(u = t /\ op = "say")
    BY <1>1, <1>2, <2>2 DEF Tended, Status
  <2>4. ~FollowsUp(u)'
    BY <1>11, <2>2, <2>3 DEF Tended
  <2>5. \A d \in Client : Owning(d) => Owning(d)' /\ requests'[d] = requests[d]
    BY <1>3, <1>5
  <2>6. Status(u)' = "Running" \/ (Status(u)' = "absent" /\ \E d \in Client : Owning(d)' /\ requests'[d].proc = p)
    BY <2>2, <2>3, <2>5 DEF Tended
  <2>7. \A d \in Client : requests'[d].op = "kill" /\ requests'[d].task = u => requests'[d].at = "stop" /\ requests'[d].seen = "Running"
    <3>. SUFFICES ASSUME NEW d \in Client, requests'[d].op = "kill", requests'[d].task = u
                  PROVE  requests'[d].at = "stop" /\ requests'[d].seen = "Running"
      OBVIOUS
    <3>1. CASE d # c
      BY <1>3, <2>2, <3>1 DEF Tended
    <3>2. CASE d = c
      BY <1>2, <1>3, <2>2, <3>2 DEF Tended
    <3>. QED
      BY <3>1, <3>2
  <2>8. handles'[u]["main"] = p /\ u \notin reap'.mark
    BY <1>1, <2>2 DEF Tended
  <2>. QED
    BY <2>4, <2>6, <2>7, <2>8 DEF Tended
<1>. QED
  BY <1>4, <1>7, <1>8, <1>9, <1>10, <1>12, <1>13 DEF DirectInv
\* What the requests other than that of c ask still fits: the processes they
\* know are there, and c owns none of them.
LEMMA OthersFit ==
  ASSUME DirectInv, NEW c \in Client, \A d \in Client : d # c => requests'[d] = requests[d],
         \A q \in Started : q \in Started' /\ procs'[q].task = procs[q].task /\ procs'[q].name = procs[q].name,
         requests'[c].op # "none" => requests'[c].task \in Task,
         requests'[c].op # "kill",
         Owning(c)' => /\ requests'[c].proc \in Mains(requests[c].task)'
                       /\ \A d \in Client : d # c /\ Owning(d) => requests[d].proc # requests'[c].proc,
         requests'[c].op = "say" /\ requests'[c].at = "mark" =>
           /\ requests'[c].proc \in Started' /\ procs'[requests'[c].proc].task = requests'[c].task
           /\ procs'[requests'[c].proc].name = "say"
  PROVE  RequestsFit'
<1>1. \A d \in Client : d # c => (Owning(d)' <=> Owning(d))
  BY DEF Owning
<1>2. \A d \in Client : d # c =>
          /\ requests'[d].op # "none" => requests'[d].task \in Task
          /\ requests'[d].op = "kill" => /\ requests'[d].at \in {"stop", "mark", "clean", "remove"}
                                         /\ requests'[d].seen \in {"Running"} \union TerminalStatus
          /\ Owning(d)' => requests'[d].proc \in Mains(requests[d].task)'
          /\ requests'[d].op = "say" /\ requests'[d].at = "mark" =>
               /\ requests'[d].proc \in Started' /\ procs'[requests'[d].proc].task = requests'[d].task
               /\ procs'[requests'[d].proc].name = "say"
  <2>. SUFFICES ASSUME NEW d \in Client, d # c
         PROVE /\ requests'[d].op # "none" => requests'[d].task \in Task
               /\ requests'[d].op = "kill" => /\ requests'[d].at \in {"stop", "mark", "clean", "remove"}
                                              /\ requests'[d].seen \in {"Running"} \union TerminalStatus
               /\ Owning(d)' => requests'[d].proc \in Mains(requests[d].task)'
               /\ requests'[d].op = "say" /\ requests'[d].at = "mark" =>
                    /\ requests'[d].proc \in Started' /\ procs'[requests'[d].proc].task = requests'[d].task
                    /\ procs'[requests'[d].proc].name = "say"
    OBVIOUS
  <2>1. requests'[d] = requests[d]
    OBVIOUS
  <2>2. Owning(d)' => requests'[d].proc \in Mains(requests[d].task)'
    <3>. SUFFICES ASSUME Owning(d)' PROVE requests'[d].proc \in Mains(requests[d].task)'
      OBVIOUS
    <3>1. requests[d].proc \in Mains(requests[d].task)
      BY <1>1, DirectTyped DEF RequestsFit
    <3>. QED
      BY <2>1, <3>1 DEF Mains
  <2>3. RequestsFit
    BY DirectTyped
  <2>. QED
    BY <2>1, <2>2, <2>3 DEF RequestsFit
<1>3. \A d, e \in Client : Owning(d)' /\ Owning(e)' /\ requests'[d].proc = requests'[e].proc => d = e
  BY <1>1, DirectTyped DEF RequestsFit
<1>. QED
  BY <1>2, <1>3 DEF RequestsFit

LEMMA AloneStays ==
  ASSUME DirectInv, NEW c \in Client, \A d \in Client : d # c => requests'[d] = requests[d],
         requests'[c].op = "none" \/ (requests'[c].op = requests[c].op /\ requests'[c].task = requests[c].task)
  PROVE  KillsAlone'
BY DEF DirectInv, KillsAlone, Asks

\* Backend.Spawn of the name of t.
LEMMA SpawnLaunches ==
  ASSUME DirectInv, NEW c \in Client, InFlight(c, "spawn", "launch"), NEW p \in Proc,
         StartProc(requests[c].task, "main", p),
         requests' = [requests EXCEPT ![c].at = "record", ![c].proc = p], deploy' = deploy,
         UNCHANGED <<workspace, storeVars, token, watch, reap, restarts>>
  PROVE  DirectInv'
<1>1. PICK t : t = requests[c].task /\ t \in Task /\ requests[c].op = "spawn" /\ Spawning(c) /\ ~Owning(c)
  BY DirectTyped DEF InFlight, Spawning, Owning
<1>2. StartProc(t, "main", p) /\ "main" \in NameKind /\ agents' = agents /\ workspace' = workspace
  BY <1>1 DEF NameKind, storeVars
<1>3. /\ procs' \in [Proc -> ProcRecord] /\ handles' \in [Task -> [NameKind -> Proc \union {NoProc}]]
      /\ p \notin Started /\ Started' = Started \union {p}
      /\ procs'[p].task = t /\ procs'[p].name = "main" /\ \A q \in Proc : q # p => procs'[q] = procs[q]
      /\ handles'[t]["main"] = p /\ \A u \in Task : u # t => handles'[u]["main"] = handles[u]["main"]
  BY <1>1, <1>2, StartFacts
<1>4. /\ requests' \in [Client -> Request] /\ \A d \in Client : d # c => requests'[d] = requests[d]
      /\ requests'[c].op = "spawn" /\ requests'[c].at = "record" /\ requests'[c].task = t
      /\ requests'[c].proc = p /\ Owning(c)' /\ Spawning(c)'
  <2>1. Goes(c, "record", p)
    BY DEF Goes
  <2>2. /\ requests' \in [Client -> Request] /\ \A d \in Client : d # c => requests'[d] = requests[d]
        /\ requests'[c].op = requests[c].op /\ requests'[c].at = "record" /\ requests'[c].task = requests[c].task
        /\ requests'[c].proc = p
    BY <1>1, <2>1, GoFacts, ZenonT(60)
  <2>. QED
    BY <1>1, <2>2 DEF Owning, Spawning
<1>5. /\ \A q \in Started : q \in Proc /\ q # p /\ procs'[q] = procs[q] /\ q \in Started'
      /\ \A d \in Client : d # c => (Owning(d)' <=> Owning(d)) /\ (Spawning(d)' <=> Spawning(d))
  BY <1>3, <1>4 DEF Started, Owning, Spawning
<1>6. \A u \in Task : Mains(u)' = IF u = t THEN Mains(t) \union {p} ELSE Mains(u)
  BY <1>3, <1>5 DEF Mains
<1>7. \A u \in Task : FollowsUp(u)' => FollowsUp(u)
  BY <1>1, <1>3, <1>4, <1>5 DEF FollowsUp
<1>8. DirectTypes'
  <2>1. \A q \in Started' : procs'[q].task \in Task
    BY <1>1, <1>3, <1>5, DirectTyped
  <2>. QED
    BY <1>2, <1>3, <1>4, <2>1, DirectTyped DEF DirectTypes, Status
<1>9. RequestsFit'
  <2>1. Mains(requests[c].task)' = Mains(t) \union {p}
    BY <1>1, <1>4, <1>6
  <2>2. \A d \in Client : d # c /\ Owning(d) => requests[d].proc # p
    BY <1>3, DirectTyped DEF RequestsFit, Mains
  <2>. QED
    BY <1>1, <1>4, <1>5, <2>1, <2>2, OthersFit
<1>10. WatchFits'
  <2>1. watch \subseteq Started /\ watch' = watch /\ RunningRows' = RunningRows /\ restarts' = restarts
    BY <1>2 DEF DirectInv, WatchFits, RunningRows, Status
  <2>2. RunningIsWatched'
    BY <1>5, <2>1 DEF DirectInv, WatchFits, RunningIsWatched
  <2>. QED
    BY <1>3, <2>1, <2>2 DEF WatchFits
<1>11. CapFits'
  <2>1. RunningRows' = RunningRows /\ MaxConcurrent' = MaxConcurrent
    BY <1>2 DEF RunningRows, Status, MaxConcurrent
  <2>2. FollowUp => FollowUp'
    BY <1>5 DEF FollowUp
  <2>. QED
    BY <2>1, <2>2 DEF DirectInv, CapFits, RunningCapped
<1>12. KillsAlone'
  BY <1>1, <1>4, AloneStays
<1>13. FilesFit'
  <2>. SUFFICES ASSUME ~Kubernetes' PROVE FilesFit'
    BY DEF FilesFit
  <2>1. ~Kubernetes /\ FilesFit
    BY DEF DirectInv, Kubernetes
  <2>2. \A d \in Client : Spawning(d)' => Spawning(d) /\ requests'[d].task = requests[d].task
    BY <1>1, <1>4, <1>5
  <2>3. \A d \in Client : requests'[d].op = "kill" /\ requests'[d].at = "remove" => requests'[d] = requests[d]
    BY <1>4
  <2>4. \A d \in Client : Spawning(d)' => requests'[d].task \in workspace' /\ agents'[requests'[d].task].status = "absent"
    BY <1>2, <2>1, <2>2 DEF FilesFit, Status
  <2>5. \A d, e \in Client : Spawning(d)' /\ Spawning(e)' /\ requests'[d].task = requests'[e].task => d = e
    BY <2>1, <2>2 DEF FilesFit
  <2>6. \A d \in Client : requests'[d].op = "kill" /\ requests'[d].at = "remove" => agents'[requests'[d].task].status = "absent"
    BY <1>2, <2>1, <2>3 DEF FilesFit, Status
  <2>7. \A u \in Task : agents'[u].status # "absent" => u \in workspace'
    BY <1>2, <2>1 DEF FilesFit, Status
  <2>. QED
    BY <2>4, <2>5, <2>6, <2>7 DEF FilesFit, Status
<1>14. ~Recorded(t) => Status(t) = "absent" /\ ~FollowsUp(t) /\ t \notin reap.mark
                       /\ \A d \in Client : requests[d].op = "kill" => requests[d].task # t
  BY <1>1 DEF DirectInv, RecordsFit
<1>15. RecordsFit'
  <2>. SUFFICES ASSUME NEW u \in Task,
                       \/ Status(u)' # "absent" \/ FollowsUp(u)' \/ u \in reap'.todo \union reap'.mark
                       \/ \E d \in Client : requests'[d].op = "kill" /\ requests'[d].task = u
                PROVE  Recorded(u)'
    BY DEF RecordsFit
  <2>1. \/ Status(u) # "absent" \/ FollowsUp(u) \/ u \in reap.todo \union reap.mark
        \/ \E d \in Client : requests[d].op = "kill" /\ requests[d].task = u
    BY <1>2, <1>4, <1>7 DEF Status
  <2>2. Recorded(u)
    BY <2>1 DEF DirectInv, RecordsFit
  <2>3. PICK q \in Mains(u) : \A d \in Client : Owning(d) => requests[d].proc # q
    BY <2>2 DEF Recorded
  <2>4. q \in Mains(u)' /\ q # p
    BY <1>5, <1>6, <2>3 DEF Mains
  <2>5. \A d \in Client : Owning(d)' => requests'[d].proc # q
    BY <1>4, <1>5, <2>3, <2>4
  <2>. QED
    BY <2>4, <2>5 DEF Recorded
<1>16. ProcsFit'
  <2>. SUFFICES ASSUME restarts' = 0, NEW u \in Task, NEW q \in Mains(u)', Up(q)', OneMain(u)' PROVE Tended(u, q)'
    BY DEF ProcsFit
  <2>1. CASE u # t
    <3>1. q \in Mains(u) /\ OneMain(u)
      BY <1>6, <2>1 DEF OneMain
    <3>2. q \in Started /\ q \in Proc
      BY <3>1 DEF Mains, Started
    <3>3. Up(q)
      BY <1>5, <3>2 DEF Up
    <3>4. Tended(u, q)
      BY <3>1, <3>3 DEF DirectInv, ProcsFit
    <3>5. OwnersStay(q) /\ KillsStay(u)
      BY <1>1, <1>4, <3>2, OneStays
    <3>6. ~FollowsUp(u)'
      BY <1>7, <3>4 DEF Tended
    <3>. QED
      BY <1>2, <1>3, <2>1, <3>2, <3>4, <3>5, <3>6, TendedStays
  <2>2. CASE u = t
    <3>1. Mains(t)' = Mains(t) \union {p} /\ \A x \in Mains(t) : x # p
      BY <1>1, <1>5, <1>6 DEF Mains
    <3>2. Mains(t) = {} /\ q = p
      BY <2>2, <3>1 DEF OneMain
    <3>3. ~Recorded(t)
      BY <3>2 DEF Recorded
    <3>4. Status(t)' = "absent" /\ ~FollowsUp(t)' /\ t \notin reap'.mark
      BY <1>1, <1>2, <1>7, <1>14, <3>3 DEF Status
    <3>5. \A d \in Client : requests'[d].op = "kill" => requests'[d].task # t
      BY <1>4, <1>14, <3>3
    <3>. QED
      BY <1>3, <1>4, <2>2, <3>2, <3>4, <3>5 DEF Tended
  <2>. QED
    BY <2>1, <2>2
<1>. QED
  BY <1>8, <1>9, <1>10, <1>11, <1>12, <1>13, <1>15, <1>16 DEF DirectInv
\* A row that becomes Running: one more of them at most.
LEMMA OneMoreRuns ==
  ASSUME DirectInv, NEW t \in Task, \A u \in Task : u # t => agents'[u] = agents[u]
  PROVE  /\ RunningRows' \subseteq RunningRows \union {t} /\ IsFiniteSet(RunningRows')
         /\ t \notin RunningRows => Cardinality(RunningRows') <= Cardinality(RunningRows) + 1
         /\ Cardinality(RunningRows) \in Nat /\ Cardinality(RunningRows') \in Nat
<1>1. RunningRows' \subseteq RunningRows \union {t}
  BY DEF RunningRows, Status
<1>2. IsFiniteSet(RunningRows)
  BY DEF DirectInv, CapFits
<1>3. /\ IsFiniteSet(RunningRows \union {t})
      /\ t \notin RunningRows => Cardinality(RunningRows \union {t}) = Cardinality(RunningRows) + 1
  BY <1>2, FS_AddElement
<1>4. IsFiniteSet(RunningRows') /\ Cardinality(RunningRows') <= Cardinality(RunningRows \union {t})
  BY <1>1, <1>3, FS_Subset
<1>5. Cardinality(RunningRows) \in Nat /\ Cardinality(RunningRows') \in Nat
  BY <1>2, <1>4, FS_CardinalityType
<1>. QED
  BY <1>1, <1>3, <1>4, <1>5

LEMMA SpawnRecords ==
  ASSUME DirectInv, NEW c \in Client, InFlight(c, "spawn", "record"), CheckSpawnAllowed,
         agents' = [agents EXCEPT ![requests[c].task] = StartedRow],
         watch' = watch \union {requests[c].proc}, Finish(c), deploy' = deploy,
         UNCHANGED <<procs, handles, workspace, reap, restarts>>
  PROVE  DirectInv'
<1>1. PICK t : t = requests[c].task /\ t \in Task /\ requests[c].op = "spawn" /\ Spawning(c) /\ Owning(c)
  BY DirectTyped DEF InFlight, Spawning, Owning
<1>2. PICK p : p = requests[c].proc /\ p \in Mains(t)
  BY <1>1, DirectTyped DEF RequestsFit
<1>3. UNCHANGED <<procs, handles, workspace, reap, restarts>> /\ watch' = watch \union {p}
  BY <1>2
<1>4. p \in Proc /\ p \in Started /\ procs[p].task = t /\ procs[p].name = "main"
  BY <1>1, <1>2, MainsAre
<1>5. /\ agents' \in [Task -> AgentRow] /\ agents'[t].status = "Running"
      /\ \A u \in Task : u # t => agents'[u] = agents[u]
  <2>1. StartedRow \in AgentRow /\ StartedRow.status = "Running"
    BY DEF StartedRow, AgentRow, AgentStatus, LiveStatus, AgentMode, NoMission
  <2>. QED
    BY <1>1, <2>1, DirectTyped
<1>6. /\ requests' \in [Client -> Request] /\ \A d \in Client : d # c => requests'[d] = requests[d]
      /\ requests'[c].op = "none"
  BY EndFacts
<1>7. /\ Started' = Started /\ \A u \in Task : Mains(u)' = Mains(u) /\ (OneMain(u)' <=> OneMain(u))
      /\ \A q \in Proc : Up(q)' <=> Up(q)
      /\ \A u \in Task : FollowsUp(u)' => FollowsUp(u)
      /\ FollowUp => FollowUp'
  BY <1>3, <1>6 DEF Started, Mains, OneMain, FollowsUp, Up, FollowUp
<1>8. \A d \in Client : (Owning(d)' => Owning(d) /\ d # c /\ requests'[d] = requests[d])
                        /\ (Spawning(d)' => Spawning(d) /\ d # c /\ requests'[d] = requests[d])
  BY <1>6 DEF Owning, Spawning
<1>9. DirectTypes'
  <2>1. \A u \in Task : agents'[u].status \notin {"Queued", "Idle"}
    BY <1>5, DirectTyped DEF Status, TerminalStatus
  <2>2. watch' \in SUBSET Proc
    BY <1>3, <1>4, DirectTyped
  <2>. QED
    BY <1>3, <1>5, <1>6, <1>7, <2>1, <2>2, DirectTyped DEF DirectTypes, Status
<1>10. RequestsFit'
  BY <1>3, <1>6, <1>7, <1>8, OthersFit
<1>11. WatchFits'
  <2>1. \A u \in RunningRows' : u = t \/ u \in RunningRows
    BY <1>5 DEF RunningRows, Status
  <2>2. RunningIsWatched'
    BY <1>3, <1>4, <2>1 DEF DirectInv, WatchFits, RunningIsWatched
  <2>. QED
    BY <1>3, <1>4, <1>7, <2>2 DEF DirectInv, WatchFits
<1>12. CapFits'
  <2>1. /\ RunningRows' \subseteq RunningRows \union {t} /\ IsFiniteSet(RunningRows')
        /\ t \notin RunningRows => Cardinality(RunningRows') <= Cardinality(RunningRows) + 1
        /\ Cardinality(RunningRows) \in Nat /\ Cardinality(RunningRows') \in Nat
    BY <1>1, <1>5, OneMoreRuns
  <2>2. MaxConcurrent \in Nat /\ MaxConcurrent' = MaxConcurrent
    BY DirectTyped, DirectAssumption DEF MaxConcurrent, Deployment
  <2>3. CASE t \in RunningRows
    <3>1. RunningRows' = RunningRows
      BY <1>5, <2>3 DEF RunningRows, Status
    <3>. QED
      BY <1>7, <2>2, <3>1 DEF DirectInv, CapFits, RunningCapped
  <2>4. CASE t \notin RunningRows
    <3>1. MaxConcurrent > 0 => Cardinality(RunningRows) < MaxConcurrent
      BY <2>2 DEF CheckSpawnAllowed
    <3>2. MaxConcurrent > 0 => Cardinality(RunningRows') <= MaxConcurrent
      BY <2>1, <2>2, <2>4, <3>1
    <3>. QED
      BY <2>1, <2>2, <3>2 DEF CapFits, RunningCapped
  <2>. QED
    BY <2>3, <2>4
<1>13. KillsAlone'
  BY <1>6, AloneStays
<1>14. FilesFit'
  <2>. SUFFICES ASSUME ~Kubernetes' PROVE FilesFit'
    BY DEF FilesFit
  <2>1. ~Kubernetes /\ FilesFit
    BY DEF DirectInv, Kubernetes
  <2>2. \A u \in Task : agents'[u].status # "absent" => u \in workspace'
    BY <1>1, <1>3, <1>5, <2>1 DEF FilesFit, Status
  <2>3. \A d \in Client : Spawning(d)' => requests[d].task # t /\ requests[d].task \in Task
    BY <1>1, <1>8, <2>1, DirectTyped DEF FilesFit, Spawning
  <2>4. \A d \in Client : Spawning(d)' => requests'[d].task \in workspace' /\ agents'[requests'[d].task].status = "absent"
    BY <1>3, <1>5, <1>8, <2>1, <2>3 DEF FilesFit, Status
  <2>5. \A d, e \in Client : Spawning(d)' /\ Spawning(e)' /\ requests'[d].task = requests'[e].task => d = e
    BY <1>8, <2>1 DEF FilesFit
  <2>6. \A d \in Client : requests'[d].op = "kill" /\ requests'[d].at = "remove" =>
          requests[d].task # t /\ requests[d].task \in Task /\ requests'[d] = requests[d]
    BY <1>1, <1>6, DirectTyped DEF DirectInv, KillsAlone, Asks
  <2>7. \A d \in Client : requests'[d].op = "kill" /\ requests'[d].at = "remove" => agents'[requests'[d].task].status = "absent"
    BY <1>5, <2>1, <2>6 DEF FilesFit, Status
  <2>. QED
    BY <2>2, <2>4, <2>5, <2>7 DEF FilesFit, Status
<1>15. RecordsFit'
  <2>. SUFFICES ASSUME NEW u \in Task,
                       \/ Status(u)' # "absent" \/ FollowsUp(u)' \/ u \in reap'.todo \union reap'.mark
                       \/ \E d \in Client : requests'[d].op = "kill" /\ requests'[d].task = u
                PROVE  Recorded(u)'
    BY DEF RecordsFit
  <2>1. CASE u = t
    <3>1. \A d \in Client : Owning(d)' => requests'[d].proc # p
      BY <1>1, <1>2, <1>8, DirectTyped DEF RequestsFit
    <3>. QED
      BY <1>1, <1>2, <1>7, <2>1, <3>1 DEF Recorded
  <2>2. CASE u # t
    <3>1. \/ Status(u) # "absent" \/ FollowsUp(u) \/ u \in reap.todo \union reap.mark
          \/ \E d \in Client : requests[d].op = "kill" /\ requests[d].task = u
      BY <1>3, <1>5, <1>6, <1>7, <2>2 DEF Status
    <3>2. Recorded(u)
      BY <3>1 DEF DirectInv, RecordsFit
    <3>. QED
      BY <1>7, <1>8, <3>2 DEF Recorded
  <2>. QED
    BY <2>1, <2>2
<1>16. ProcsFit'
  <2>. SUFFICES ASSUME restarts' = 0, NEW u \in Task, NEW q \in Mains(u)', Up(q)', OneMain(u)' PROVE Tended(u, q)'
    BY DEF ProcsFit
  <2>1. q \in Mains(u) /\ OneMain(u) /\ q \in Proc /\ procs[q].task = u /\ restarts = 0
    BY <1>3, <1>7, MainsAre
  <2>2. Up(q)
    BY <1>7, <2>1
  <2>3. Tended(u, q)
    BY <2>1, <2>2 DEF DirectInv, ProcsFit
  <2>4. ~FollowsUp(u)' /\ KillsStay(u)
    BY <1>6, <1>7, <2>3, OneStays DEF Tended
  <2>5. CASE u # t
    <3>1. OwnersStay(q)
      BY <1>2, <1>4, <1>6, <2>1, <2>5, OneStays
    <3>. QED
      BY <1>3, <1>5, <2>1, <2>3, <2>4, <2>5, <3>1, TendedStays
  <2>6. CASE u = t
    <3>1. Status(u)' = "Running" /\ handles'[u]["main"] = q /\ u \notin reap'.mark
      BY <1>3, <1>5, <2>3, <2>6 DEF Tended, Status
    <3>2. \A d \in Client : requests'[d].op = "kill" /\ requests'[d].task = u => requests'[d].at = "stop" /\ requests'[d].seen = "Running"
      BY <2>3, <2>4 DEF Tended, KillsStay
    <3>. QED
      BY <2>4, <3>1, <3>2 DEF Tended
  <2>. QED
    BY <2>5, <2>6
<1>. QED
  BY <1>9, <1>10, <1>11, <1>12, <1>13, <1>14, <1>15, <1>16 DEF DirectInv
\* Backend.Spawn of a follow-up.
LEMMA SayLaunches ==
  ASSUME DirectInv, NEW c \in Client, InFlight(c, "say", "launch"), NEW p \in Proc,
         Status(requests[c].task) # "absent", StartProc(requests[c].task, "say", p),
         requests' = [requests EXCEPT ![c].at = "mark", ![c].proc = p], deploy' = deploy,
         UNCHANGED <<workspace, storeVars, token, watch, reap, restarts>>
  PROVE  DirectInv'
<1>1. PICK t : t = requests[c].task /\ t \in Task /\ requests[c].op = "say" /\ ~Spawning(c) /\ ~Owning(c) /\ FollowsUp(t)
  BY DirectTyped DEF InFlight, Spawning, Owning, FollowsUp
<1>2. /\ StartProc(t, "say", p) /\ "say" \in NameKind /\ "main" \in NameKind
      /\ agents' = agents /\ workspace' = workspace /\ watch' = watch /\ reap' = reap /\ restarts' = restarts
  BY <1>1 DEF NameKind, storeVars
<1>3. /\ procs' \in [Proc -> ProcRecord] /\ handles' \in [Task -> [NameKind -> Proc \union {NoProc}]]
      /\ p \notin Started /\ Started' = Started \union {p}
      /\ procs'[p].task = t /\ procs'[p].name = "say" /\ \A q \in Proc : q # p => procs'[q] = procs[q]
      /\ \A u \in Task : handles'[u]["main"] = handles[u]["main"]
  BY <1>1, <1>2, StartFacts
<1>4. /\ requests' \in [Client -> Request] /\ \A d \in Client : d # c => requests'[d] = requests[d]
      /\ requests'[c].op = "say" /\ requests'[c].at = "mark" /\ requests'[c].task = t
      /\ requests'[c].proc = p /\ ~Owning(c)' /\ ~Spawning(c)'
  <2>1. Goes(c, "mark", p)
    BY DEF Goes
  <2>2. /\ requests' \in [Client -> Request] /\ \A d \in Client : d # c => requests'[d] = requests[d]
        /\ requests'[c].op = requests[c].op /\ requests'[c].at = "mark" /\ requests'[c].task = requests[c].task
        /\ requests'[c].proc = p
    BY <1>1, <2>1, GoFacts, ZenonT(60)
  <2>. QED
    BY <1>1, <2>2 DEF Owning, Spawning
<1>5. /\ \A q \in Started : q \in Proc /\ q # p /\ procs'[q] = procs[q] /\ q \in Started'
      /\ \A d \in Client : (Owning(d)' => Owning(d) /\ requests'[d] = requests[d])
                           /\ (Spawning(d)' => Spawning(d) /\ requests'[d] = requests[d])
  BY <1>3, <1>4 DEF Started, Owning, Spawning
<1>6. \A u \in Task : Mains(u)' = Mains(u)
  BY <1>3, <1>5 DEF Mains
<1>7. \A u \in Task : FollowsUp(u)' => FollowsUp(u)
  BY <1>1, <1>3, <1>4, <1>5 DEF FollowsUp
<1>8. DirectTypes'
  <2>1. \A q \in Started' : procs'[q].task \in Task
    BY <1>1, <1>3, <1>5, DirectTyped
  <2>. QED
    BY <1>2, <1>3, <1>4, <2>1, DirectTyped DEF DirectTypes, Status
<1>9. RequestsFit'
  BY <1>1, <1>3, <1>4, <1>5, OthersFit
<1>10. WatchFits'
  <2>1. watch \subseteq Started /\ RunningRows' = RunningRows
    BY <1>2 DEF DirectInv, WatchFits, RunningRows, Status
  <2>2. RunningIsWatched'
    BY <1>2, <1>5, <2>1 DEF DirectInv, WatchFits, RunningIsWatched
  <2>. QED
    BY <1>2, <1>3, <2>1, <2>2 DEF WatchFits
<1>11. CapFits'
  <2>1. RunningRows' = RunningRows
    BY <1>2 DEF RunningRows, Status
  <2>2. FollowUp'
    BY <1>3 DEF FollowUp
  <2>. QED
    BY <2>1, <2>2 DEF DirectInv, CapFits, RunningCapped
<1>12. KillsAlone'
  BY <1>1, <1>4, AloneStays
<1>13. FilesFit'
  <2>. SUFFICES ASSUME ~Kubernetes' PROVE FilesFit'
    BY DEF FilesFit
  <2>1. ~Kubernetes /\ FilesFit
    BY DEF DirectInv, Kubernetes
  <2>2. \A d \in Client : requests'[d].op = "kill" /\ requests'[d].at = "remove" => requests'[d] = requests[d]
    BY <1>4
  <2>. QED
    BY <1>2, <1>5, <2>1, <2>2, ZenonT(60) DEF FilesFit, Status
<1>14. RecordsFit'
  <2>. SUFFICES ASSUME NEW u \in Task,
                       \/ Status(u)' # "absent" \/ FollowsUp(u)' \/ u \in reap'.todo \union reap'.mark
                       \/ \E d \in Client : requests'[d].op = "kill" /\ requests'[d].task = u
                PROVE  Recorded(u)'
    BY DEF RecordsFit
  <2>1. \/ Status(u) # "absent" \/ FollowsUp(u) \/ u \in reap.todo \union reap.mark
        \/ \E d \in Client : requests[d].op = "kill" /\ requests[d].task = u
    BY <1>2, <1>4, <1>7 DEF Status
  <2>2. Recorded(u)
    BY <2>1 DEF DirectInv, RecordsFit
  <2>. QED
    BY <1>5, <1>6, <2>2 DEF Recorded
<1>15. ProcsFit'
  <2>. SUFFICES ASSUME restarts' = 0, NEW u \in Task, NEW q \in Mains(u)', Up(q)', OneMain(u)' PROVE Tended(u, q)'
    BY DEF ProcsFit
  <2>1. q \in Mains(u) /\ OneMain(u) /\ q \in Started /\ restarts = 0 /\ q \in Proc
    BY <1>2, <1>6, MainsAre DEF OneMain
  <2>2. Up(q)
    BY <1>5, <2>1 DEF Up
  <2>3. Tended(u, q)
    BY <2>1, <2>2 DEF DirectInv, ProcsFit
  <2>4. ~FollowsUp(u)' /\ OwnersStay(q) /\ KillsStay(u)
    BY <1>1, <1>4, <1>7, <2>1, <2>3, OneStays DEF Tended
  <2>. QED
    BY <1>2, <1>3, <2>1, <2>3, <2>4, TendedStays
<1>. QED
  BY <1>8, <1>9, <1>10, <1>11, <1>12, <1>13, <1>14, <1>15 DEF DirectInv

LEMMA SayMarks ==
  ASSUME DirectInv, NEW c \in Client, InFlight(c, "say", "mark"), Status(requests[c].task) # "absent",
         agents' = [agents EXCEPT ![requests[c].task].status = "Running"],
         watch' = watch \union {requests[c].proc}, Finish(c), deploy' = deploy,
         UNCHANGED <<procs, handles, workspace, reap, restarts>>
  PROVE  DirectInv'
<1>1. PICK t : t = requests[c].task /\ t \in Task /\ requests[c].op = "say" /\ ~Spawning(c) /\ ~Owning(c)
               /\ Status(t) # "absent"
  BY DirectTyped DEF InFlight, Spawning, Owning
<1>2. PICK p : p = requests[c].proc /\ p \in Started /\ p \in Proc /\ procs[p].task = t /\ procs[p].name = "say"
  BY <1>1, DirectTyped DEF RequestsFit, InFlight
<1>3. UNCHANGED <<procs, handles, workspace, reap, restarts>> /\ watch' = watch \union {p} /\ FollowsUp(t)
  BY <1>2 DEF FollowsUp
<1>4. /\ agents' \in [Task -> AgentRow] /\ agents'[t].status = "Running"
      /\ \A u \in Task : u # t => agents'[u] = agents[u]
  <2>1. PICK r : r = [agents[t] EXCEPT !.status = "Running"]
    OBVIOUS
  <2>2. agents \in [Task -> AgentRow] /\ agents[t] \in AgentRow
    BY <1>1, DirectTyped
  <2>3. r \in AgentRow /\ r.status = "Running"
    BY <2>1, <2>2 DEF AgentRow, AgentStatus, LiveStatus
  <2>4. agents' = [agents EXCEPT ![t] = r]
    BY <1>1, <2>1
  <2>. QED
    BY <1>1, <2>2, <2>3, <2>4
<1>5. /\ requests' \in [Client -> Request] /\ \A d \in Client : d # c => requests'[d] = requests[d]
      /\ requests'[c].op = "none"
  BY EndFacts
<1>6. /\ Started' = Started /\ \A u \in Task : Mains(u)' = Mains(u) /\ (OneMain(u)' <=> OneMain(u))
      /\ \A q \in Proc : Up(q)' <=> Up(q)
      /\ \A u \in Task : FollowsUp(u)' => FollowsUp(u)
      /\ FollowUp'
  BY <1>2, <1>3, <1>5 DEF Started, Mains, OneMain, FollowsUp, Up, FollowUp
<1>7. \A d \in Client : (Owning(d)' => Owning(d) /\ requests'[d] = requests[d])
                        /\ (Spawning(d)' => Spawning(d) /\ requests'[d] = requests[d])
  BY <1>5 DEF Owning, Spawning
<1>8. \A u \in Task : Status(u)' = "absent" <=> Status(u) = "absent"
  BY <1>1, <1>4 DEF Status
<1>9. DirectTypes'
  <2>1. \A u \in Task : agents'[u].status \notin {"Queued", "Idle"}
    BY <1>4, DirectTyped DEF Status, TerminalStatus
  <2>2. watch' \in SUBSET Proc
    BY <1>2, <1>3, DirectTyped
  <2>. QED
    BY <1>3, <1>4, <1>5, <1>6, <2>1, <2>2, DirectTyped DEF DirectTypes, Status
<1>10. RequestsFit'
  <2>1. ~Owning(c)'
    BY <1>5 DEF Owning
  <2>. QED
    BY <1>3, <1>5, <1>6, <2>1, OthersFit
<1>11. WatchFits'
  <2>1. \A u \in RunningRows' : u = t \/ u \in RunningRows
    BY <1>4 DEF RunningRows, Status
  <2>2. RunningIsWatched'
    BY <1>2, <1>3, <2>1 DEF DirectInv, WatchFits, RunningIsWatched
  <2>. QED
    BY <1>2, <1>3, <1>6, <2>2 DEF DirectInv, WatchFits
<1>12. CapFits'
  BY <1>1, <1>4, <1>6, OneMoreRuns DEF CapFits, RunningCapped
<1>13. KillsAlone'
  BY <1>5, AloneStays
<1>14. FilesFit'
  <2>. SUFFICES ASSUME ~Kubernetes' PROVE FilesFit'
    BY DEF FilesFit
  <2>1. ~Kubernetes /\ FilesFit
    BY DEF DirectInv, Kubernetes
  <2>2. \A u \in Task : agents'[u].status = "absent" <=> agents[u].status = "absent"
    BY <1>8 DEF Status
  <2>3. \A d \in Client : Spawning(d)' => requests'[d].task \in workspace' /\ agents'[requests'[d].task].status = "absent"
    BY <1>3, <1>7, <2>1, <2>2, DirectTyped DEF FilesFit, Status, Spawning
  <2>4. \A d, e \in Client : Spawning(d)' /\ Spawning(e)' /\ requests'[d].task = requests'[e].task => d = e
    BY <1>7, <2>1 DEF FilesFit
  <2>5. \A d \in Client : requests'[d].op = "kill" /\ requests'[d].at = "remove" => agents'[requests'[d].task].status = "absent"
    BY <1>5, <2>1, <2>2, DirectTyped DEF FilesFit, Status
  <2>6. \A u \in Task : agents'[u].status # "absent" => u \in workspace'
    BY <1>3, <2>1, <2>2 DEF FilesFit, Status
  <2>. QED
    BY <2>3, <2>4, <2>5, <2>6 DEF FilesFit, Status
<1>15. RecordsFit'
  <2>. SUFFICES ASSUME NEW u \in Task,
                       \/ Status(u)' # "absent" \/ FollowsUp(u)' \/ u \in reap'.todo \union reap'.mark
                       \/ \E d \in Client : requests'[d].op = "kill" /\ requests'[d].task = u
                PROVE  Recorded(u)'
    BY DEF RecordsFit
  <2>1. \/ Status(u) # "absent" \/ FollowsUp(u) \/ u \in reap.todo \union reap.mark
        \/ \E d \in Client : requests[d].op = "kill" /\ requests[d].task = u
    BY <1>3, <1>5, <1>6, <1>8
  <2>2. Recorded(u)
    BY <2>1 DEF DirectInv, RecordsFit
  <2>. QED
    BY <1>6, <1>7, <2>2 DEF Recorded
<1>16. ProcsFit'
  <2>. SUFFICES ASSUME restarts' = 0, NEW u \in Task, NEW q \in Mains(u)', Up(q)', OneMain(u)' PROVE Tended(u, q)'
    BY DEF ProcsFit
  <2>1. q \in Mains(u) /\ OneMain(u) /\ q \in Proc /\ restarts = 0
    BY <1>3, <1>6, MainsAre
  <2>2. Up(q)
    BY <1>6, <2>1
  <2>3. Tended(u, q)
    BY <2>1, <2>2 DEF DirectInv, ProcsFit
  <2>4. u # t
    BY <1>3, <2>3 DEF Tended
  <2>5. ~FollowsUp(u)' /\ OwnersStay(q) /\ KillsStay(u)
    BY <1>1, <1>5, <1>6, <2>1, <2>3, OneStays DEF Tended
  <2>. QED
    BY <1>3, <1>4, <2>1, <2>3, <2>4, <2>5, TendedStays
<1>. QED
  BY <1>9, <1>10, <1>11, <1>12, <1>13, <1>14, <1>15, <1>16 DEF DirectInv
LEMMA DirectInit ==
  ASSUME Init
  PROVE  DirectInv
<1>1. /\ deploy \in Deployments /\ agents = [t \in Task |-> Absent] /\ workspace = {} /\ watch = {} /\ restarts = 0
      /\ procs = [p \in Proc |-> [task |-> "none", name |-> "main", state |-> "unused"]]
      /\ handles = [t \in Task |-> [n \in NameKind |-> NoProc]]
      /\ requests = [c \in Client |-> NoRequest] /\ reap = [todo |-> {}, mark |-> {}]
  BY DEF Init, StoreInit
<1>2. Absent \in AgentRow /\ \A t \in Task : Status(t) = "absent"
  BY <1>1 DEF Absent, AgentRow, AgentStatus, AgentMode, NoMission, Status
<1>3. NoRequest \in Request /\ \A c \in Client : requests[c].op = "none"
  BY <1>1 DEF NoRequest, Request, NoProc, AgentStatus
<1>4. Started = {}
  BY <1>1 DEF Started
<1>5. procs \in [Proc -> ProcRecord]
  BY <1>1 DEF ProcRecord, NameKind
<1>6. DirectTypes
  BY <1>1, <1>2, <1>3, <1>4, <1>5 DEF DirectTypes
<1>7. RunningRows = {} /\ IsFiniteSet(RunningRows) /\ Cardinality(RunningRows) = 0
  <2>1. RunningRows = {}
    BY <1>2 DEF RunningRows
  <2>. QED
    BY <2>1, FS_EmptySet
<1>8. MaxConcurrent \in Nat
  BY <1>1, DirectAssumption DEF MaxConcurrent, Deployment
<1>9. WatchFits /\ CapFits
  BY <1>1, <1>7, <1>8 DEF WatchFits, CapFits, RunningIsWatched, RunningCapped
<1>10. RequestsFit /\ KillsAlone
  BY <1>3 DEF RequestsFit, KillsAlone, Owning
<1>11. FilesFit
  BY <1>2, <1>3 DEF FilesFit, Spawning
<1>12. RecordsFit /\ ProcsFit
  BY <1>1, <1>2, <1>3, <1>4 DEF RecordsFit, ProcsFit, FollowsUp, Mains
<1>. QED
  BY <1>6, <1>9, <1>10, <1>11, <1>12 DEF DirectInv

\* Every step of a request.
LEMMA DirectSteps ==
  ASSUME DirectInv, NEW c \in Client, Step(c), deploy' = deploy
  PROVE  DirectInv'
<1>1. CASE SpawnCreate(c)
  BY <1>1, SpawnCreateInv
<1>2. CASE SpawnLaunch(c)
  <2>1. InFlight(c, "spawn", "launch") /\ UNCHANGED <<storeVars, token, watch, reap, restarts>>
    BY <1>2 DEF SpawnLaunch
  <2>2. CASE workspace' = workspace \ {requests[c].task} /\ Finish(c) /\ UNCHANGED <<procs, handles>>
    BY <2>1, <2>2, SpawnLaunchFails
  <2>3. CASE \E p \in Proc : /\ StartProc(requests[c].task, "main", p)
                             /\ requests' = [requests EXCEPT ![c].at = "record", ![c].proc = p]
                             /\ UNCHANGED workspace
    BY <2>1, <2>3, SpawnLaunches
  <2>. QED
    BY <1>2, <2>2, <2>3 DEF SpawnLaunch
<1>3. CASE SpawnRecord(c)
  <2>1. InFlight(c, "spawn", "record") /\ UNCHANGED <<procs, handles, workspace, reap, restarts>>
    BY <1>3 DEF SpawnRecord
  <2>2. CASE GoTo(c, "rollback") /\ UNCHANGED <<storeVars, token, watch>>
    BY <2>1, <2>2, SpawnRefused
  <2>3. CASE /\ CheckSpawnAllowed /\ agents' = [agents EXCEPT ![requests[c].task] = StartedRow]
             /\ watch' = watch \union {requests[c].proc} /\ Finish(c)
    BY <2>1, <2>3, SpawnRecords
  <2>. QED
    BY <1>3, <2>2, <2>3 DEF SpawnRecord
<1>4. CASE SpawnRollback(c)
  BY <1>4, SpawnRollbackInv
<1>5. CASE SayLaunch(c)
  <2>1. InFlight(c, "say", "launch") /\ UNCHANGED <<storeVars, token, workspace, watch, reap, restarts>>
    BY <1>5 DEF SayLaunch
  <2>2. CASE Finish(c) /\ UNCHANGED <<procs, handles>>
    BY <2>1, <2>2, SayLaunchFails
  <2>3. CASE /\ Status(requests[c].task) # "absent"
             /\ \E p \in Proc : /\ StartProc(requests[c].task, "say", p)
                                /\ requests' = [requests EXCEPT ![c].at = "mark", ![c].proc = p]
    BY <2>1, <2>3, SayLaunches
  <2>. QED
    BY <1>5, <2>2, <2>3 DEF SayLaunch
<1>6. CASE SayMark(c)
  <2>1. InFlight(c, "say", "mark") /\ Finish(c) /\ UNCHANGED <<workspace, reap, restarts>>
    BY <1>6 DEF SayMark
  <2>2. CASE /\ Status(requests[c].task) # "absent" /\ agents' = [agents EXCEPT ![requests[c].task].status = "Running"]
             /\ watch' = watch \union {requests[c].proc} /\ UNCHANGED <<procs, handles>>
    BY <2>1, <2>2, SayMarks
  <2>3. CASE KillProc(requests[c].task, "say") /\ UNCHANGED <<agents, watch>>
    BY <2>1, <2>3, SayNoRow
  <2>. QED
    BY <1>6, <2>2, <2>3 DEF SayMark
<1>. QED
  BY <1>1, <1>2, <1>3, <1>4, <1>5, <1>6, KillStopInv, KillMarkInv, KillCleanInv, KillRemoveInv DEF Step

LEMMA DirectNext ==
  ASSUME "kill" \notin Overlap, DirectInv, [Next]_vars
  PROVE  DirectInv'
<1>1. CASE UNCHANGED vars
  <2>1. /\ deploy' = deploy /\ UNCHANGED <<agents, procs, handles, workspace, requests, watch, reap, restarts>>
    BY <1>1 DEF vars, work
  <2>2. ProcsKept /\ RowsShrink
    BY <2>1, SameProcs, SameAgents
  <2>. QED
    BY <2>1, <2>2, Idle, DirectTyped
<1>2. CASE Next
  <2>1. deploy' = deploy
    BY <1>2 DEF Next
  <2>2. CASE \E c \in Client, t \in Task : SpawnFind(c, t) \/ SayFind(c, t) \/ KillFind(c, t)
    BY <2>1, <2>2, BeginInv
  <2>3. CASE \E c \in Client : Step(c)
    BY <2>1, <2>3, DirectSteps
  <2>4. CASE \E p \in Proc : ProcExit(p) \/ Collect(p)
    BY <2>1, <2>4, ProcExitInv, CollectInv
  <2>5. CASE \E t \in Task, n \in NameKind : JobExpires(t, n)
    BY <2>1, <2>5, JobExpiresInv
  <2>6. CASE \E S \in SUBSET Task : ReapLoad(S)
    BY <2>1, <2>6, ReapLoadInv
  <2>7. CASE \E t \in Task : ReapKill(t) \/ ReapSkip(t) \/ ReapMark(t)
    BY <2>1, <2>7, ReapKillInv, ReapSkipInv, ReapMarkInv
  <2>8. CASE Restart
    BY <2>1, <2>8, RestartInv
  <2>. QED
    BY <1>2, <2>2, <2>3, <2>4, <2>5, <2>6, <2>7, <2>8 DEF Next
<1>. QED
  BY <1>1, <1>2

\* One agent started under a name: one process has it.
LEMMA OnceIsOne ==
  ASSUME NEW t \in Task, NamedOnce(t)
  PROVE  OneMain(t)
<1>. SUFFICES ASSUME NEW p \in Mains(t), NEW q \in Mains(t), p # q PROVE FALSE
  BY DEF OneMain
<1>1. Mains(t) = {r \in Started : procs[r].task = t /\ procs[r].name = "main"} /\ Mains(t) \subseteq 1 .. MaxProc
  BY DEF Mains, Started, Proc
<1>2. IsFiniteSet(Mains(t))
  BY <1>1, DirectAssumption, FS_Interval, FS_Subset, SMTT(60)
<1>3. Cardinality({p, q}) = 2 /\ IsFiniteSet({p, q})
  <2>1. IsFiniteSet({p}) /\ Cardinality({p}) = 1
    BY FS_Singleton
  <2>2. q \notin {p}
    OBVIOUS
  <2>3. IsFiniteSet({p} \union {q}) /\ Cardinality({p} \union {q}) = Cardinality({p}) + 1
    BY <2>1, <2>2, FS_AddElement
  <2>4. {p, q} = {p} \union {q}
    OBVIOUS
  <2>. QED
    BY <2>1, <2>3, <2>4
<1>4. Cardinality({p, q}) <= Cardinality(Mains(t))
  <2>1. {p, q} \subseteq Mains(t)
    OBVIOUS
  <2>. QED
    BY <1>2, <2>1, FS_Subset
<1>5. Cardinality(Mains(t)) \in Nat
  BY <1>2, FS_CardinalityType
<1>6. Cardinality(Mains(t)) <= 1
  BY <1>1 DEF NamedOnce
<1>. QED
  BY <1>3, <1>4, <1>5, <1>6

LEMMA DirectSound ==
  ASSUME DirectInv
  PROVE  RunningSound
<1>1. RunningIsWatched /\ RunningCapped
  BY DEF DirectInv, WatchFits, CapFits
<1>2. WorkspaceKept
  BY DEF DirectInv, FilesFit, WorkspaceKept, RunningRows
<1>3. NoStrayProcess
  <2>. SUFFICES ASSUME NEW p \in Proc, Up(p), procs[p].name = "main", NamedOnce(procs[p].task), restarts = 0
                PROVE  \/ Status(procs[p].task) = "Running"
                       \/ \E c \in Client : requests[c].task = procs[p].task
    BY DEF NoStrayProcess
  <2>1. p \in Started
    BY DEF Started, Up
  <2>2. PICK t : t = procs[p].task /\ t \in Task
    BY <2>1, DirectTyped
  <2>3. p \in Mains(t) /\ OneMain(t)
    BY <2>1, <2>2, OnceIsOne DEF Mains
  <2>4. Tended(t, p)
    BY <2>2, <2>3 DEF DirectInv, ProcsFit
  <2>5. \A c \in Client : Owning(c) /\ requests[c].proc = p => requests[c].task = t
    BY <2>2, DirectTyped DEF RequestsFit, Mains
  <2>. QED
    BY <2>2, <2>4, <2>5 DEF Tended
<1>. QED
  BY <1>1, <1>2, <1>3 DEF RunningSound

(***************************************************************************)
(* The theorems.  A kill may not overlap another request on its task: two  *)
(* requests that do each act on a row the other is about to change (Kill). *)
(***************************************************************************)

\* The inductive invariant of SpawnAsync, SayAsync, Kill, the collectors and
\* the reaper.
THEOREM DirectInvariant ==
  ASSUME "kill" \notin Overlap
  PROVE  Spec => []DirectInv
<1>1. Init => DirectInv
  BY DirectInit
<1>2. DirectInv /\ [Next]_vars => DirectInv'
  BY DirectNext
<1>. QED
  BY <1>1, <1>2, PTL DEF Spec

\* A Running agent is watched, counted and has its worktree, and a process
\* of a spawn is asked for or Running: requests, collectors, the reaper and
\* the cluster in any order, local processes and Jobs, for any limit.
THEOREM DirectAgentsSound ==
  ASSUME "kill" \notin Overlap
  PROVE  Spec => []RunningSound
<1>1. DirectInv => RunningSound
  BY DirectSound
<1>. QED
  BY <1>1, DirectInvariant, PTL

=============================================================================
