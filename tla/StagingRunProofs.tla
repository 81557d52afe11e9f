-------------------------- MODULE StagingRunProofs --------------------------
(***************************************************************************)
(* Proofs about StagingRun, for any number of tables, callers and stagers, *)
(* any retries and any crashes.                                            *)
(*                                                                         *)
(* The argument: the tables in progress only become fewer once the run is  *)
(* there, so what one look at the run derives from its tables is still     *)
(* true when it is written, however late; and whoever ends a table in      *)
(* progress held it, so none is forgotten.                                 *)
(***************************************************************************)
EXTENDS StagingRun, TLAPS

(***************************************************************************)
(* The inductive invariant                                                 *)
(***************************************************************************)
Active(t) == t \in launch \/ Fetching(t) \/ t \in gateway.todo

NoneInProgress == \A t \in Table : table[t].status \notin InProgress

RequiredStaged == \A t \in Required : table[t].status = "staged"

\* A table is launched, recovered or fetched by one goroutine, and before the
\* run is created nothing has touched it.
OneGoroutine ==
  /\ \A t \in launch \union gateway.todo : fetch[t].pc = "off"
  /\ launch # {} => Up
  /\ gateway.todo # {} => gateway.phase = "recover"
  /\ gateway.phase = "down" => \A t \in Background : fetch[t].pc = "off"
  /\ run = "none" =>
       /\ launch = {} /\ gateway.todo = {}
       /\ \A t \in Background : fetch[t].pc = "off" /\ table[t].status = "pending"

\* Work goes on only for tables in progress, and the agent's tables never are.
WorkInProgress ==
  /\ Exists => \A t \in Background : Active(t) => table[t].status \in InProgress
  /\ \A t \in AgentTable : table[t].status \in {"awaiting_agent", "staged"}

\* What a look at the run derived stays true until it is written, and after.
DerivedHolds ==
  /\ \A k \in Checker :
       /\ check[k].next \in {"none", "pending", "staged", "failed"}
       /\ check[k].pc = "write" => check[k].next # "none"
       /\ check[k].next \in {"pending", "staged"} => NoneInProgress
       /\ check[k].next = "staged" => RequiredStaged
  /\ run \in {"pending", "staged", "executing"} => NoneInProgress
  /\ run = "staged" => RequiredStaged

ManifestHolds ==
  \A c \in Caller :
    /\ caller[c].pc = "manifest" => RequiredStaged
    /\ caller[c].pc \in {"cas", "exec"} => Required \subseteq caller[c].manifest

\* Of a run that is staging every table in progress is in somebody's hands,
\* unless the gateway is down.
InHands ==
  run = "staging" /\ gateway.phase # "down" =>
    \A t \in Background : table[t].status \in InProgress => Active(t)

StagingInv == /\ TypeOK
              /\ OneGoroutine
              /\ WorkInProgress
              /\ DerivedHolds
              /\ ManifestHolds
              /\ InHands

\* The run is created before anything has touched its tables, which are all
\* about to be launched.
LEMMA CreateRunStep ==
  ASSUME StagingInv, CreateRun
  PROVE  StagingInv'
<1>1. TypeOK'
    BY StagingAssumption DEF StagingInv, CreateRun, TypeOK, RunStatus
<1>2. OneGoroutine'
    BY StagingAssumption DEF StagingInv, CreateRun, OneGoroutine, Up
<1>3. WorkInProgress'
    BY StagingAssumption DEF StagingInv, CreateRun, OneGoroutine, WorkInProgress, InProgress
<1>4. DerivedHolds'
    BY StagingAssumption DEF StagingInv, CreateRun, WorkInProgress, DerivedHolds, NoneInProgress,
     RequiredStaged, InProgress, Table
<1>5. ManifestHolds'
    BY StagingAssumption DEF StagingInv, CreateRun, ManifestHolds, RequiredStaged
<1>6. InHands'
    BY StagingAssumption DEF CreateRun, InHands, Active
<1> QED BY <1>1, <1>2, <1>3, <1>4, <1>5, <1>6 DEF StagingInv

\* A table that is launched goes on being in somebody's hands: the goroutine's.
LEMMA LaunchStep ==
  ASSUME StagingInv, NEW t \in Background, Launch(t)
  PROVE  StagingInv'
<1>1. TypeOK'
  <2>1. table' \in [Table -> TableRow]
    BY StagingAssumption DEF StagingInv, TypeOK, Launch, Table, WriteTable, Row, Exists, TableRow, TableStatus, InProgress
  <2>2. NoFetch \in FetchState
    BY StagingAssumption DEF NoFetch, FetchState
  <2>3. [NoFetch EXCEPT !.pc = "fetch"] \in FetchState
    BY <2>2 DEF FetchState
  <2>4. fetch' \in [Background -> FetchState]
    BY <2>3 DEF StagingInv, TypeOK, Launch
  <2> QED
    BY <2>1, <2>2, <2>3, <2>4, StagingAssumption
    DEF StagingInv, TypeOK, Launch, Table
<1>2. OneGoroutine'
    BY StagingAssumption DEF StagingInv, Launch, OneGoroutine, Up
<1>3. WorkInProgress'
    BY StagingAssumption DEF StagingInv, Launch, WorkInProgress, Active, Fetching, InProgress,
     Exists, WriteTable, Row
<1>4. DerivedHolds'
    BY StagingAssumption DEF StagingInv, Launch, WorkInProgress, DerivedHolds, NoneInProgress,
     RequiredStaged, Active, WriteTable, Row
<1>5. ManifestHolds'
    BY StagingAssumption DEF StagingInv, Launch, WorkInProgress, ManifestHolds, RequiredStaged,
     Active, InProgress, WriteTable, Row
<1>6. InHands'
    BY StagingAssumption DEF StagingInv, Launch, TypeOK, InHands, Active, Fetching, WriteTable,
     Row
<1> QED BY <1>1, <1>2, <1>3, <1>4, <1>5, <1>6 DEF StagingInv

\* The goroutine of a table that is staged has ended, so nothing is left in
\* progress without one.
LEMMA FetchOkStep ==
  ASSUME StagingInv, NEW t \in Background, FetchOk(t)
  PROVE  StagingInv'
<1>1. TypeOK'
    BY StagingAssumption DEF StagingInv, FetchOk, Table, Checker, TypeOK, TableRow, TableStatus,
     FetchState, CheckState, WriteTable, Row, NoFetch, NewCheck, NoCheck
<1>2. OneGoroutine'
    BY StagingAssumption DEF StagingInv, FetchOk, OneGoroutine, Up, WriteTable, Row, NoFetch,
     Exists
<1>3. WorkInProgress'
    BY StagingAssumption DEF StagingInv, FetchOk, TypeOK, OneGoroutine, WorkInProgress, Active,
     Fetching, Exists, WriteTable, Row, NoFetch
<1>4. DerivedHolds'
    BY StagingAssumption DEF StagingInv, FetchOk, DerivedHolds, NoneInProgress, RequiredStaged,
     InProgress, WriteTable, Row, NewCheck, NoCheck
<1>5. ManifestHolds'
    BY StagingAssumption DEF StagingInv, FetchOk, ManifestHolds, RequiredStaged, WriteTable, Row
<1>6. InHands'
    BY StagingAssumption DEF StagingInv, FetchOk, TypeOK, InHands, Active, Fetching, InProgress,
     Table, Exists, WriteTable, Row
<1> QED BY <1>1, <1>2, <1>3, <1>4, <1>5, <1>6 DEF StagingInv

\* A retry leaves the table in progress and in its goroutine's hands.
LEMMA FetchRetryStep ==
  ASSUME StagingInv, NEW t \in Background, FetchRetry(t)
  PROVE  StagingInv'
<1>1. TypeOK'
    BY StagingAssumption DEF StagingInv, FetchRetry, Table, Checker, NoTable, InProgress, TypeOK,
     TableRow, TableStatus, FetchState, CheckState, CallerState, Gateway, RunStatus, Terminal,
     WriteTable, Row, Exists
<1>2. OneGoroutine'
    BY StagingAssumption DEF StagingInv, FetchRetry, OneGoroutine, Up, WriteTable, Row, Exists
<1>3. WorkInProgress'
    BY StagingAssumption DEF StagingInv, FetchRetry, WorkInProgress, Active, Fetching, InProgress,
     Exists, WriteTable, Row
<1>4. DerivedHolds'
    BY StagingAssumption DEF StagingInv, FetchRetry, WorkInProgress, DerivedHolds, NoneInProgress,
     RequiredStaged, Active, WriteTable, Row
<1>5. ManifestHolds'
    BY StagingAssumption DEF StagingInv, FetchRetry, WorkInProgress, ManifestHolds,
     RequiredStaged, Active, InProgress, TableRow, WriteTable, Row
<1>6. InHands'
    BY StagingAssumption DEF StagingInv, FetchRetry, InHands, Active, Fetching, WriteTable, Row
<1> QED BY <1>1, <1>2, <1>3, <1>4, <1>5, <1>6 DEF StagingInv

\* A table that failed is no longer in progress; what was derived from the
\* tables before cannot say that all were fetched, since this one was not.
LEMMA FetchFailStep ==
  ASSUME StagingInv, NEW t \in Background, FetchFail(t)
  PROVE  StagingInv'
<1>1. TypeOK'
    BY StagingAssumption DEF StagingInv, FetchFail, Table, Checker, InProgress, TypeOK, TableRow,
     TableStatus, FetchState, CheckState, RunStatus, WriteTable, Row, NoFetch, NewCheck, NoCheck
<1>2. OneGoroutine'
    BY StagingAssumption DEF StagingInv, FetchFail, OneGoroutine, Fetching, Up, Row
<1>3. WorkInProgress'
    BY StagingAssumption DEF StagingInv, FetchFail, TypeOK, OneGoroutine, WorkInProgress, Active,
     Fetching, Exists, WriteTable, Row, NoFetch
<1>4. DerivedHolds'
    BY StagingAssumption DEF StagingInv, FetchFail, WorkInProgress, DerivedHolds, NoneInProgress,
     RequiredStaged, Active, WriteTable, Row, NewCheck, NoCheck
<1>5. ManifestHolds'
    BY StagingAssumption DEF StagingInv, FetchFail, WorkInProgress, DerivedHolds, ManifestHolds,
     NoneInProgress, RequiredStaged, Active, InProgress, WriteTable, Row
<1>6. InHands'
    BY StagingAssumption DEF StagingInv, FetchFail, TypeOK, InHands, Active, Fetching, InProgress,
     Table, Exists, WriteTable, Row
<1> QED BY <1>1, <1>2, <1>3, <1>4, <1>5, <1>6 DEF StagingInv

\* A failed run asks nothing of its tables.
LEMMA FailRunStep ==
  ASSUME StagingInv, NEW t \in Background, FailRun(t)
  PROVE  StagingInv'
<1>1. TypeOK'
    BY StagingAssumption DEF StagingInv, FailRun, TypeOK, FetchState, RunStatus, Terminal,
     WriteStatus, NoFetch
<1>2. OneGoroutine'
    BY StagingAssumption DEF StagingInv, FailRun, OneGoroutine, Up, WriteStatus
<1>3. WorkInProgress'
    BY StagingAssumption DEF StagingInv, FailRun, WorkInProgress, Active, Fetching, Exists,
     WriteStatus, NoFetch
<1>4. DerivedHolds'
    BY StagingAssumption DEF StagingInv, FailRun, DerivedHolds, NoneInProgress, RequiredStaged,
     WriteStatus
<1>5. ManifestHolds'
    BY StagingAssumption DEF StagingInv, FailRun, ManifestHolds, RequiredStaged
<1>6. InHands'
    BY StagingAssumption DEF FailRun, InHands, Exists, WriteStatus
<1> QED BY <1>1, <1>2, <1>3, <1>4, <1>5, <1>6 DEF StagingInv

\* Reading the run decides nothing yet.
LEMMA CheckRunStep ==
  ASSUME StagingInv, NEW k \in Checker, CheckRun(k)
  PROVE  StagingInv'
<1>1. TypeOK'
  <2>1. check' \in [Checker -> CheckState]
    BY StagingAssumption, ZenonT(60) DEF StagingInv, TypeOK, CheckRun, CheckState, NoCheck, Exists, RunStatus
  <2> QED
    BY <2>1, StagingAssumption
    DEF StagingInv, TypeOK, CheckRun
<1>2. OneGoroutine'
    BY StagingAssumption DEF StagingInv, CheckRun, OneGoroutine, Up
<1>3. WorkInProgress'
    BY StagingAssumption DEF StagingInv, CheckRun, WorkInProgress, Active, Fetching, Exists
<1>4. DerivedHolds'
    BY StagingAssumption DEF StagingInv, CheckRun, DerivedHolds, NoneInProgress, RequiredStaged,
     NoCheck
<1>5. ManifestHolds'
    BY StagingAssumption DEF StagingInv, CheckRun, ManifestHolds, RequiredStaged
<1>6. InHands'
    BY StagingAssumption DEF StagingInv, CheckRun, InHands, Active, Fetching
<1> QED BY <1>1, <1>2, <1>3, <1>4, <1>5, <1>6 DEF StagingInv

\* A status is derived from the tables as they are.
LEMMA CheckTablesStep ==
  ASSUME StagingInv, NEW k \in Checker, CheckTables(k)
  PROVE  StagingInv'
<1>1. TypeOK'
    BY StagingAssumption DEF StagingInv, CheckTables, TypeOK, CheckState, RunStatus, Terminal,
     NoCheck, DeriveRunStatus
<1>2. OneGoroutine'
    BY StagingAssumption DEF StagingInv, CheckTables, OneGoroutine, Up
<1>3. WorkInProgress'
    BY StagingAssumption DEF StagingInv, CheckTables, WorkInProgress, Active, Fetching, Exists
<1>4. DerivedHolds'
    BY StagingAssumption DEF StagingInv, CheckTables, TypeOK, DerivedHolds, NoneInProgress,
     RequiredStaged, InProgress, TableRow, TableStatus, NoCheck, DeriveRunStatus, With
<1>5. ManifestHolds'
    BY StagingAssumption DEF StagingInv, CheckTables, ManifestHolds, RequiredStaged
<1>6. InHands'
    BY StagingAssumption DEF StagingInv, CheckTables, InHands, Active, Fetching
<1> QED BY <1>1, <1>2, <1>3, <1>4, <1>5, <1>6 DEF StagingInv

\* The status written still fits the tables, whatever happened since they
\* were read: work never resumes and what is staged stays staged.
LEMMA CheckWriteStep ==
  ASSUME StagingInv, NEW k \in Checker, CheckWrite(k)
  PROVE  StagingInv'
<1>1. TypeOK'
    BY StagingAssumption DEF StagingInv, CheckWrite, TypeOK, CheckState, WriteStatus, NoCheck
<1>2. OneGoroutine'
  <2>1. check[k].next # "none"
    BY DEF StagingInv, DerivedHolds, CheckWrite
  <2>2. run' = "none" => run = "none"
    BY <2>1 DEF CheckWrite, WriteStatus
  <2> QED
    BY <2>2 DEF StagingInv, CheckWrite, OneGoroutine, Up
<1>3. WorkInProgress'
    BY StagingAssumption DEF StagingInv, CheckWrite, WorkInProgress, Active, Fetching, Exists,
     WriteStatus
<1>4. DerivedHolds'
    BY StagingAssumption DEF StagingInv, CheckWrite, DerivedHolds, NoneInProgress, RequiredStaged,
     WriteStatus, NoCheck
<1>5. ManifestHolds'
    BY StagingAssumption DEF StagingInv, CheckWrite, ManifestHolds, RequiredStaged
<1>6. InHands'
    BY StagingAssumption DEF StagingInv, CheckWrite, InHands, Exists, DerivedHolds, WriteStatus
<1> QED BY <1>1, <1>2, <1>3, <1>4, <1>5, <1>6 DEF StagingInv

\* A stager that has read the run has changed nothing.
LEMMA StageGetStep ==
  ASSUME StagingInv, NEW s \in Stager, NEW t \in AgentTable, StageGet(s, t)
  PROVE  StagingInv'
<1>1. TypeOK'
    BY StagingAssumption DEF StagingInv, StageGet, TypeOK
<1>2. OneGoroutine'
    BY StagingAssumption DEF StagingInv, StageGet, OneGoroutine, Up
<1>3. WorkInProgress'
    BY StagingAssumption DEF StagingInv, StageGet, WorkInProgress, Active, Fetching
<1>4. DerivedHolds'
    BY StagingAssumption DEF StagingInv, StageGet, DerivedHolds, NoneInProgress, RequiredStaged
<1>5. ManifestHolds'
    BY StagingAssumption DEF StagingInv, StageGet, ManifestHolds, RequiredStaged
<1>6. InHands'
    BY StagingAssumption DEF StagingInv, StageGet, InHands, Active, Fetching
<1> QED BY <1>1, <1>2, <1>3, <1>4, <1>5, <1>6 DEF StagingInv

\* The agent's tables are not the goroutines' and only become staged.
LEMMA StageWriteStep ==
  ASSUME StagingInv, NEW s \in Stager, NEW append \in BOOLEAN, StageWrite(s, append)
  PROVE  StagingInv'
<1>1. TypeOK'
    BY StagingAssumption DEF StagingInv, StageWrite, Table, Checker, TypeOK, TableRow,
     TableStatus, CheckState, WriteTable, Row, NewCheck, NoCheck
<1>2. OneGoroutine'
    BY StagingAssumption DEF StagingInv, StageWrite, OneGoroutine, Up, WriteTable, Row, Exists
<1>3. WorkInProgress'
    BY StagingAssumption DEF StagingInv, StageWrite, TypeOK, WorkInProgress, Active, Fetching,
     Exists, WriteTable, Row
<1>4. DerivedHolds'
    BY StagingAssumption DEF StagingInv, StageWrite, DerivedHolds, NoneInProgress, RequiredStaged,
     InProgress, WriteTable, Row, NewCheck, NoCheck
<1>5. ManifestHolds'
    BY StagingAssumption DEF StagingInv, StageWrite, ManifestHolds, RequiredStaged, WriteTable,
     Row
<1>6. InHands'
    BY StagingAssumption DEF StagingInv, StageWrite, InHands, Active, Fetching, InProgress,
     WriteTable, Row
<1> QED BY <1>1, <1>2, <1>3, <1>4, <1>5, <1>6 DEF StagingInv

\* A caller that finds the run staged finds its required tables staged.
LEMMA ReenterStep ==
  ASSUME StagingInv, NEW c \in Caller, Reenter(c)
  PROVE  StagingInv'
<1>1. TypeOK'
    BY StagingAssumption DEF StagingInv, Reenter, TypeOK, CallerState, RunStatus
<1>2. OneGoroutine'
    BY StagingAssumption DEF StagingInv, Reenter, OneGoroutine, Up
<1>3. WorkInProgress'
    BY StagingAssumption DEF StagingInv, Reenter, WorkInProgress, Active, Fetching, Exists
<1>4. DerivedHolds'
    BY StagingAssumption DEF StagingInv, Reenter, DerivedHolds, NoneInProgress, RequiredStaged
<1>5. ManifestHolds'
    BY StagingAssumption DEF StagingInv, Reenter, DerivedHolds, ManifestHolds, RequiredStaged
<1>6. InHands'
    BY StagingAssumption DEF Reenter, InHands
<1> QED BY <1>1, <1>2, <1>3, <1>4, <1>5, <1>6 DEF StagingInv

\* They still are when the manifest is read: the manifest has them all.
LEMMA ReadTablesStep ==
  ASSUME StagingInv, NEW c \in Caller, ReadTables(c)
  PROVE  StagingInv'
<1>1. TypeOK'
    BY StagingAssumption DEF StagingInv, ReadTables, TypeOK, CallerState, With
<1>2. OneGoroutine'
    BY StagingAssumption DEF StagingInv, ReadTables, OneGoroutine, Up
<1>3. WorkInProgress'
    BY StagingAssumption DEF StagingInv, ReadTables, WorkInProgress, Active, Fetching, Exists
<1>4. DerivedHolds'
    BY StagingAssumption DEF StagingInv, ReadTables, DerivedHolds, NoneInProgress, RequiredStaged
<1>5. ManifestHolds'
    BY StagingAssumption DEF StagingInv, ReadTables, ManifestHolds, RequiredStaged, With
<1>6. InHands'
    BY StagingAssumption DEF StagingInv, ReadTables, InHands, Active, Fetching
<1> QED BY <1>1, <1>2, <1>3, <1>4, <1>5, <1>6 DEF StagingInv

\* The run that executes was staged.
LEMMA CASExecuteStep ==
  ASSUME StagingInv, NEW c \in Caller, CASExecute(c)
  PROVE  StagingInv'
<1>1. TypeOK'
  <2>1. caller' \in [Caller -> CallerState]
    BY DEF StagingInv, TypeOK, CASExecute, CallerState, IdleCaller
  <2>2. executions' \in 0..MaxExecutions
    BY StagingAssumption DEF StagingInv, TypeOK, CASExecute
  <2> QED
    BY <2>1, <2>2, StagingAssumption
    DEF StagingInv, TypeOK, CASExecute, RunStatus
<1>2. OneGoroutine'
    BY StagingAssumption DEF StagingInv, CASExecute, OneGoroutine, Up
<1>3. WorkInProgress'
    BY StagingAssumption DEF StagingInv, CASExecute, WorkInProgress, Active, Fetching, Exists
<1>4. DerivedHolds'
    BY StagingAssumption DEF StagingInv, CASExecute, DerivedHolds, NoneInProgress, RequiredStaged
<1>5. ManifestHolds'
    BY StagingAssumption DEF StagingInv, CASExecute, TypeOK, ManifestHolds, RequiredStaged, Table,
     CallerState, IdleCaller
<1>6. InHands'
    BY StagingAssumption DEF StagingInv, CASExecute, InHands, Active, Fetching
<1> QED BY <1>1, <1>2, <1>3, <1>4, <1>5, <1>6 DEF StagingInv

\* A run that is over asks nothing of its tables.
LEMMA ExecuteStep ==
  ASSUME StagingInv, NEW c \in Caller, Execute(c)
  PROVE  StagingInv'
<1>1. TypeOK'
    BY StagingAssumption DEF StagingInv, Execute, TypeOK, CallerState, RunStatus, WriteStatus,
     IdleCaller
<1>2. OneGoroutine'
    BY StagingAssumption DEF StagingInv, Execute, OneGoroutine, Up, WriteStatus, Terminal
<1>3. WorkInProgress'
    BY StagingAssumption DEF StagingInv, Execute, WorkInProgress, Active, Fetching, Exists,
     WriteStatus
<1>4. DerivedHolds'
    BY StagingAssumption DEF StagingInv, Execute, DerivedHolds, NoneInProgress, RequiredStaged,
     Terminal, WriteStatus
<1>5. ManifestHolds'
    BY StagingAssumption DEF StagingInv, Execute, ManifestHolds, RequiredStaged, IdleCaller
<1>6. InHands'
    BY StagingAssumption DEF Execute, InHands, Exists, WriteStatus, Terminal
<1> QED BY <1>1, <1>2, <1>3, <1>4, <1>5, <1>6 DEF StagingInv

\* A crash ends every goroutine, and the gateway owes nothing while it is down.
LEMMA CrashStep ==
  ASSUME StagingInv, Crash
  PROVE  StagingInv'
<1>1. TypeOK'
  <2>1. crashes' \in 0..MaxCrashes
    BY StagingAssumption DEF StagingInv, TypeOK, Crash
  <2>2. gateway' \in Gateway
    BY DEF Crash, Serving, Gateway
  <2>3. fetch' \in [Background -> FetchState]
    BY StagingAssumption DEF Crash, NoFetch, FetchState
  <2>4. check' \in [Checker -> CheckState]
    BY DEF Crash, NoCheck, CheckState
  <2>5. stage' \in [Stager -> AgentTable \union {NoTable}]
    BY DEF Crash
  <2>6. caller' \in [Caller -> CallerState]
    BY DEF Crash, IdleCaller, CallerState
  <2> QED
    BY <2>1, <2>2, <2>3, <2>4, <2>5, <2>6, StagingAssumption
    DEF StagingInv, TypeOK, Crash
<1>2. OneGoroutine'
    BY StagingAssumption DEF StagingInv, Crash, OneGoroutine, Serving, NoFetch
<1>3. WorkInProgress'
    BY StagingAssumption DEF StagingInv, Crash, WorkInProgress, Active, Fetching, Serving, NoFetch
<1>4. DerivedHolds'
    BY StagingAssumption DEF StagingInv, Crash, DerivedHolds, NoneInProgress, RequiredStaged,
     NoCheck
<1>5. ManifestHolds'
    BY StagingAssumption DEF Crash, ManifestHolds, IdleCaller
<1>6. InHands'
    BY StagingAssumption DEF Crash, InHands
<1> QED BY <1>1, <1>2, <1>3, <1>4, <1>5, <1>6 DEF StagingInv

\* The files of the tables are not what their rows say.
LEMMA RunnerStartStep ==
  ASSUME StagingInv, RunnerStart
  PROVE  StagingInv'
<1>1. TypeOK'
    BY StagingAssumption DEF StagingInv, RunnerStart, TypeOK
<1>2. OneGoroutine'
    BY StagingAssumption DEF StagingInv, RunnerStart, OneGoroutine, Up
<1>3. WorkInProgress'
    BY StagingAssumption DEF StagingInv, RunnerStart, WorkInProgress, Active, Fetching, Exists
<1>4. DerivedHolds'
    BY StagingAssumption DEF StagingInv, RunnerStart, DerivedHolds, NoneInProgress, RequiredStaged
<1>5. ManifestHolds'
    BY StagingAssumption DEF StagingInv, RunnerStart, ManifestHolds, RequiredStaged
<1>6. InHands'
    BY StagingAssumption DEF StagingInv, RunnerStart, InHands, Active, Fetching
<1> QED BY <1>1, <1>2, <1>3, <1>4, <1>5, <1>6 DEF StagingInv

\* Of a run that was staging, every table in progress is on the list of the
\* recovery pass; no other run has one.
LEMMA RecoverActiveRunsStep ==
  ASSUME StagingInv, NEW fetcher \in BOOLEAN, RecoverActiveRuns(fetcher)
  PROVE  StagingInv'
<1>1. TypeOK'
    BY StagingAssumption DEF StagingInv, RecoverActiveRuns, TypeOK, Gateway, RecoverTables,
     Serving
<1>2. OneGoroutine'
  <2>1. gateway.todo = {} /\ launch = {}
    BY DEF StagingInv, OneGoroutine, RecoverActiveRuns, RecoverTables, Up
  <2>2. CASE run = "staging"
    <3>1. \A t \in Background : fetch[t].pc = "off"
      BY DEF StagingInv, OneGoroutine, RecoverActiveRuns, RecoverTables
    <3> QED
      BY <2>1, <2>2, <3>1 DEF RecoverActiveRuns, RecoverTables, OneGoroutine, Serving
  <2>3. CASE run # "staging"
    BY <2>1, <2>3 DEF StagingInv, RecoverActiveRuns, RecoverTables, OneGoroutine, Serving, Up
  <2> QED BY <2>2, <2>3
<1>3. WorkInProgress'
    BY StagingAssumption DEF StagingInv, RecoverActiveRuns, WorkInProgress, Active, Fetching,
     Exists, RecoverTables, Serving
<1>4. DerivedHolds'
    BY StagingAssumption DEF StagingInv, RecoverActiveRuns, DerivedHolds, NoneInProgress,
     RequiredStaged, RecoverTables
<1>5. ManifestHolds'
    BY StagingAssumption DEF StagingInv, RecoverActiveRuns, ManifestHolds, RequiredStaged,
     RecoverTables
<1>6. InHands'
    BY StagingAssumption DEF RecoverActiveRuns, InHands, Active, RecoverTables
<1> QED BY <1>1, <1>2, <1>3, <1>4, <1>5, <1>6 DEF StagingInv

\* The table leaves the list with a goroutine or not in progress.
LEMMA RecoverTableStep ==
  ASSUME StagingInv, NEW t \in Background, RecoverTable(t)
  PROVE  StagingInv'
<1>1. TypeOK'
  <2>1. [pc |-> "fetch", retries |-> 0, resumed |-> TRUE] \in FetchState
    BY StagingAssumption DEF FetchState
  <2>2. fetch' \in [Background -> FetchState]
    BY <2>1 DEF StagingInv, TypeOK, RecoverTable
  <2>3. table[t].plan \in BOOLEAN
    BY DEF StagingInv, TypeOK, Table, TableRow
  <2>4. Row("failed", table[t].plan) \in TableRow /\ Row("fetching", TRUE) \in TableRow
    BY <2>3 DEF Row, TableRow, TableStatus, InProgress
  <2>5. table' \in [Table -> TableRow]
    BY <2>4 DEF StagingInv, TypeOK, RecoverTable, Table, WriteTable
  <2>6. gateway' \in Gateway
    BY StagingAssumption DEF StagingInv, TypeOK, RecoverTable, Gateway, Resumable, Table, TableRow
  <2> QED
    BY <2>1, <2>2, <2>3, <2>4, <2>5, <2>6, StagingAssumption
    DEF StagingInv, TypeOK, RecoverTable
<1>2. OneGoroutine'
    BY StagingAssumption DEF StagingInv, RecoverTable, TypeOK, OneGoroutine, Up, Gateway, Row
<1>3. WorkInProgress'
  <2>1. /\ t \notin launch /\ fetch[t].pc = "off"
        /\ Exists => table[t].status \in InProgress
    BY DEF StagingInv, OneGoroutine, WorkInProgress, RecoverTable, Up, Active
  <2> QED
    BY <2>1, StagingAssumption
    DEF StagingInv, TypeOK, RecoverTable, WorkInProgress, Active, Fetching, Resumable, WriteTable,
        Row, Exists, InProgress, Table, TableRow, FetchState, Gateway
<1>4. DerivedHolds'
    BY StagingAssumption DEF StagingInv, RecoverTable, TypeOK, OneGoroutine, WorkInProgress,
     DerivedHolds, NoneInProgress, RequiredStaged, Active, Checker, Terminal, WriteTable, Row
<1>5. ManifestHolds'
    BY StagingAssumption DEF StagingInv, RecoverTable, TypeOK, OneGoroutine, WorkInProgress,
     DerivedHolds, ManifestHolds, RequiredStaged, Active, InProgress, Table, WriteTable, Row
<1>6. InHands'
    BY StagingAssumption DEF StagingInv, RecoverTable, TypeOK, InHands, Active, Fetching,
     InProgress, Table, Exists, WriteTable, Row
<1> QED BY <1>1, <1>2, <1>3, <1>4, <1>5, <1>6 DEF StagingInv

\* An empty list leaves every table in progress with its goroutine.
LEMMA RecoverEndStep ==
  ASSUME StagingInv, RecoverEnd
  PROVE  StagingInv'
<1>1. TypeOK'
  <2>1. gateway' \in {Serving, [Serving EXCEPT !.phase = "finish"]}
    BY DEF RecoverEnd
  <2>2. Serving \in Gateway
    BY DEF Serving, Gateway
  <2>3. gateway' \in Gateway
    BY <2>1, <2>2 DEF Gateway
  <2>4. check' \in [Checker -> CheckState]
    BY DEF StagingInv, TypeOK, RecoverEnd, CheckState, NewCheck, NoCheck
  <2> QED
    BY <2>1, <2>2, <2>3, <2>4, StagingAssumption
    DEF StagingInv, TypeOK, RecoverEnd
<1>2. OneGoroutine'
    BY StagingAssumption DEF StagingInv, RecoverEnd, OneGoroutine, Up, Serving
<1>3. WorkInProgress'
    BY StagingAssumption DEF StagingInv, RecoverEnd, WorkInProgress, Active, Fetching, Exists,
     Serving
<1>4. DerivedHolds'
    BY StagingAssumption DEF StagingInv, RecoverEnd, TypeOK, DerivedHolds, NoneInProgress,
     RequiredStaged, Checker, NewCheck, NoCheck
<1>5. ManifestHolds'
    BY StagingAssumption DEF StagingInv, RecoverEnd, ManifestHolds, RequiredStaged
<1>6. InHands'
    BY StagingAssumption DEF StagingInv, RecoverEnd, InHands, Active, Fetching
<1> QED BY <1>1, <1>2, <1>3, <1>4, <1>5, <1>6 DEF StagingInv

\* Serving changes nothing of the run.
LEMMA ServeStep ==
  ASSUME StagingInv, Serve
  PROVE  StagingInv'
<1>1. TypeOK'
    BY StagingAssumption DEF StagingInv, Serve, TypeOK, Gateway, Serving
<1>2. OneGoroutine'
    BY StagingAssumption DEF StagingInv, Serve, OneGoroutine, Up, Serving
<1>3. WorkInProgress'
    BY StagingAssumption DEF StagingInv, Serve, WorkInProgress, Active, Fetching, Exists, Serving
<1>4. DerivedHolds'
    BY StagingAssumption DEF StagingInv, Serve, DerivedHolds, NoneInProgress, RequiredStaged
<1>5. ManifestHolds'
    BY StagingAssumption DEF StagingInv, Serve, ManifestHolds, RequiredStaged
<1>6. InHands'
    BY StagingAssumption DEF StagingInv, Serve, OneGoroutine, InHands, Active, Fetching
<1> QED BY <1>1, <1>2, <1>3, <1>4, <1>5, <1>6 DEF StagingInv

\* A run that is gone asks nothing.
LEMMA ReapStep ==
  ASSUME StagingInv, Reap
  PROVE  StagingInv'
<1>1. TypeOK'
    BY StagingAssumption DEF StagingInv, Reap, TypeOK
<1>2. OneGoroutine'
    BY StagingAssumption DEF StagingInv, Reap, OneGoroutine, Untouched
<1>3. WorkInProgress'
    BY StagingAssumption DEF StagingInv, Reap, WorkInProgress, Exists
<1>4. DerivedHolds'
    BY StagingAssumption DEF StagingInv, Reap, DerivedHolds, NoneInProgress, RequiredStaged
<1>5. ManifestHolds'
    BY StagingAssumption DEF StagingInv, Reap, ManifestHolds, RequiredStaged
<1>6. InHands'
    BY StagingAssumption DEF Reap, InHands
<1> QED BY <1>1, <1>2, <1>3, <1>4, <1>5, <1>6 DEF StagingInv

\* The files of the tables are not what their rows say.
LEMMA ReapOrphanedDirsStep ==
  ASSUME StagingInv, ReapOrphanedDirs
  PROVE  StagingInv'
<1>1. TypeOK'
    BY StagingAssumption DEF StagingInv, ReapOrphanedDirs, TypeOK
<1>2. OneGoroutine'
    BY StagingAssumption DEF StagingInv, ReapOrphanedDirs, OneGoroutine, Untouched
<1>3. WorkInProgress'
    BY StagingAssumption DEF StagingInv, ReapOrphanedDirs, WorkInProgress, Active, Fetching,
     Untouched
<1>4. DerivedHolds'
    BY StagingAssumption DEF StagingInv, ReapOrphanedDirs, DerivedHolds, NoneInProgress,
     RequiredStaged
<1>5. ManifestHolds'
    BY StagingAssumption DEF StagingInv, ReapOrphanedDirs, ManifestHolds, RequiredStaged
<1>6. InHands'
    BY StagingAssumption DEF StagingInv, ReapOrphanedDirs, InHands, Active, Fetching
<1> QED BY <1>1, <1>2, <1>3, <1>4, <1>5, <1>6 DEF StagingInv

\* The database is empty and nobody works.
LEMMA StagingInit == Init => StagingInv
<1> SUFFICES ASSUME Init PROVE StagingInv
  OBVIOUS
<1>1. TypeOK
  <2>1. table \in [Table -> TableRow]
    BY StagingAssumption DEF Init, Row, TableRow, TableStatus, InProgress, Table
  <2>2. fetch \in [Background -> FetchState] /\ check \in [Checker -> CheckState]
    BY StagingAssumption DEF Init, NoFetch, FetchState, NoCheck, CheckState
  <2>3. caller \in [Caller -> CallerState] /\ stage \in [Stager -> AgentTable \union {NoTable}]
    BY DEF Init, IdleCaller, CallerState
  <2>4. gateway \in Gateway
    BY DEF Init, Serving, Gateway
  <2>5. executions \in 0..MaxExecutions /\ crashes \in 0..MaxCrashes
    BY StagingAssumption DEF Init
  <2> QED
    BY <2>1, <2>2, <2>3, <2>4, <2>5 DEF Init, TypeOK
<1>2. OneGoroutine
  BY StagingAssumption DEF Init, OneGoroutine, Serving, NoFetch, Row, Table, Up
<1>3. WorkInProgress
  BY StagingAssumption DEF Init, WorkInProgress, Row, Table, Exists
<1>4. DerivedHolds /\ ManifestHolds /\ InHands
  BY DEF Init, DerivedHolds, ManifestHolds, InHands, NoCheck, IdleCaller
<1> QED
  BY <1>1, <1>2, <1>3, <1>4 DEF StagingInv

\* Every step of the run, its callers and the gateway keeps the invariant.
LEMMA StagingNext == StagingInv /\ [Next]_vars => StagingInv'
<1> SUFFICES ASSUME StagingInv, [Next]_vars PROVE StagingInv'
  OBVIOUS
<1>1. CASE UNCHANGED vars
  BY <1>1
  DEF StagingInv, TypeOK, OneGoroutine, WorkInProgress, DerivedHolds, ManifestHolds, InHands, Active,
      Fetching, NoneInProgress, RequiredStaged, Exists, Up, vars
<1>2. CASE CreateRun
  BY <1>2, CreateRunStep
<1>3. CASE \E t \in Background : Launch(t) \/ FetchStep(t)
  BY <1>3, LaunchStep, FetchOkStep, FetchRetryStep, FetchFailStep, FailRunStep DEF FetchStep
<1>4. CASE \E k \in Checker : CheckStep(k)
  BY <1>4, CheckRunStep, CheckTablesStep, CheckWriteStep DEF CheckStep
<1>5. CASE \E s \in Stager : StageStep(s) \/ \E t \in AgentTable : StageGet(s, t)
  BY <1>5, StageWriteStep, StageGetStep DEF StageStep
<1>6. CASE \E c \in Caller : CallerStep(c)
  BY <1>6, ReenterStep, ReadTablesStep, CASExecuteStep, ExecuteStep DEF CallerStep
<1>7. CASE Crash
  BY <1>7, CrashStep
<1>8. CASE RunnerStart
  BY <1>8, RunnerStartStep
<1>9. CASE RecoveryStep
  BY <1>9, RecoverActiveRunsStep, RecoverTableStep, RecoverEndStep, ServeStep DEF RecoveryStep
<1>10. CASE Reap
  BY <1>10, ReapStep
<1>11. CASE ReapOrphanedDirs
  BY <1>11, ReapOrphanedDirsStep
<1> QED
  BY <1>1, <1>2, <1>3, <1>4, <1>5, <1>6, <1>7, <1>8, <1>9, <1>10, <1>11 DEF Next

\* The run's status, the rows of its tables and the goroutines at work agree in
\* every reachable state (checkAndTransitionRunToStaged, RecoverActiveRuns).
THEOREM StagingInvariant == Spec => []StagingInv
  BY StagingInit, StagingNext, PTL DEF Spec

\* A strategy is executed only with every required table in its manifest, and
\* the run never waits for a goroutine that does not exist.
THEOREM StagingIsSound == Spec => []StagingSound
<1>1. StagingInv => ManifestComplete
  BY DEF StagingInv, ManifestHolds, ManifestComplete
<1>2. StagingInv => NoOrphanFetch
  <2> SUFFICES ASSUME StagingInv, Up, Exists, run \notin Terminal, NEW t \in Background,
                      table[t].status \in InProgress
               PROVE  t \in launch \/ fetch[t].pc = "fetch"
    BY DEF NoOrphanFetch
  <2>1. run = "staging"
    BY DEF StagingInv, DerivedHolds, NoneInProgress, TypeOK, RunStatus, Exists, Table
  <2> QED
    BY <2>1 DEF StagingInv, InHands, OneGoroutine, Active, Fetching, Up
<1> QED
  BY <1>1, <1>2, StagingInvariant, PTL DEF StagingSound

\* Only the goroutine of a table, a recovery pass or a stager writes its row, and
\* none but a stager has a staged table in its hands.
LEMMA StagedStep ==
  ASSUME StagingInv, [Next]_vars, NEW t \in Table, table[t].status = "staged"
  PROVE  table'[t].status = "staged"
<1> USE DEF WriteTable, Row
<1>1. t \in Background => ~Active(t) \/ ~Exists
  BY DEF StagingInv, WorkInProgress, InProgress
<1>2. CASE \E b \in Background : Launch(b) \/ FetchOk(b) \/ FetchRetry(b) \/ FetchFail(b) \/ RecoverTable(b)
  BY <1>1, <1>2
  DEF StagingInv, TypeOK, Launch, FetchOk, FetchRetry, FetchFail, RecoverTable, Fetching, Active, Table
<1>3. CASE \E s \in Stager, append \in BOOLEAN : StageWrite(s, append)
  BY <1>3 DEF StagingInv, TypeOK, StageWrite, Table
<1>4. CASE UNCHANGED table
  BY <1>4
<1> QED
  BY <1>2, <1>3, <1>4
  DEF Next, vars, CreateRun, FetchStep, FailRun, CheckStep, CheckRun, CheckTables, CheckWrite, StageStep,
      StageGet, CallerStep, Reenter, ReadTables, CASExecute, Execute, Crash, RunnerStart, RecoveryStep,
      RecoverActiveRuns, RecoverTables, RecoverEnd, Serve, Reap, ReapOrphanedDirs

\* A table that is staged is never fetched again, failed or awaited: no retry,
\* crash or recovery pass takes it back.
THEOREM StagedStaysStaged == Spec => StagedForGood
<1>1. StagingInv /\ [Next]_vars =>
        [\A t \in Table : table[t].status = "staged" => table'[t].status = "staged"]_vars
  BY StagedStep
<1> QED
  BY <1>1, StagingInvariant, PTL DEF Spec, StagedForGood

=============================================================================
