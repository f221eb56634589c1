-------------------------- MODULE SqliteExecutors --------------------------
(***************************************************************************)
(* The SQLite targets that execute what they are sent: one query, one      *)
(* transaction, a scenario of two connections, and the fixed probe of the  *)
(* writer lock.  Each decodes its input, runs it against a database of its *)
(* own that it throws away, and either writes a transcript and exits with  *)
(* 0 or writes nothing and exits with the code of what stopped it.         *)
(*                                                                         *)
(* A request is drawn one statement or step at a time: what is drawn is    *)
(* what decoding accepted.  The database is one table, the sequence of the *)
(* texts inserted; a text is its length.  SQLite itself, its locks and     *)
(* snapshots, is outside the repository.  An SQLite call costs one step of *)
(* the virtual machine.                                                    *)
(* Operators named <definition>_<bug> are bugs; no action of               *)
(* ExecutorNext uses them.                                                 *)
(***************************************************************************)
EXTENDS Integers, Sequences, FiniteSets, SequencesExt, FaultController

CONSTANTS
  Job,            \* what a target is configured to do, and what it may be asked
  Text            \* the texts that are inserted

ASSUME TextAssumption == Text \subseteq Nat

\* What a target may be configured to do; the rest of it follows the statements, below.
ASSUME JobAssumption ==
  \A j \in Job :
    /\ j.worker \in {"query", "transaction", "two_connection", "lock"}
    /\ j.journal \in {"delete", "wal"} /\ {j.commit, j.reopen, j.faults} \subseteq BOOLEAN
    /\ j.begin \in {"deferred", "immediate", "exclusive"}
    /\ j.worker = "lock" => {j.begin, j.contender} \subseteq {"immediate", "exclusive"}
    /\ j.faults => j.fault \in [occurrence : Nat,
                                operation : IF j.worker = "query" THEN {"setup", "query"}
                                            ELSE {"setup", "transaction", "finalize", "observe"}]
    /\ {j.budget, j.ceilings.columns, j.ceilings.rows, j.ceilings.value, j.ceilings.bytes,
        j.ceilings.transcript} \subseteq Nat

VARIABLES
  job,            \* the target's arguments and the fault of its request
  phase,          \* which part of _run comes next
  controller,     \* the fault to inject
  remaining,      \* steps of the virtual machine left, if they are bounded
  stored,         \* the committed table
  session,        \* per connection: what SQLite holds for it
  request,        \* per stage, what was drawn and ran to its end
  records,        \* the transcript
  result,         \* the last result that was collected
  exit            \* the exit code, Running before

executor == <<job, phase, controller, remaining, stored, session, request, records, result, exit>>

Running == -1
Exited == exit # Running
Live == {"a", "b"}
Peer(c) == IF c = "a" THEN "b" ELSE "a"
BusyErrors == {"SQLITE_BUSY", "SQLITE_BUSY_SNAPSHOT"}

Idle == [active |-> FALSE, reads |-> FALSE, base |-> <<>>, own |-> <<>>, lock |-> "none"]
NoResult == [columns |-> 0, rows |-> <<>>]
NoFault == FaultSpec("never", 0)
Stages == {"setup", "transaction", "finalize", "observe", "query", "steps"}

ExecutorInit ==
  /\ job \in Job /\ phase = IF job.worker = "lock" THEN "hold" ELSE "setup"
  /\ remaining = job.budget
  /\ controller = NewController(IF job.faults THEN job.fault ELSE NoFault)
  /\ stored = <<>> /\ session = [c \in Live |-> Idle]
  /\ request = [stage \in Stages |-> <<>>]
  /\ records = <<>> /\ result = NoResult /\ exit = Running

----------------------------------------------------------------------------
(* Statements.                                                             *)

Insertion(v) == [sql |-> "insert", value |-> v, columns |-> 0]
InsertReturning(v) == [sql |-> "insert", value |-> v, columns |-> 1]
Selection(n) == [sql |-> "select", value |-> 0, columns |-> n]
\* A statement SQLite refuses: no such table, a constraint that is violated.
BrokenStatement == [sql |-> "broken", value |-> 0, columns |-> 0]
\* ATTACH, DETACH, PRAGMA; but for the query worker, also the control of transactions.
ControlStatement == [sql |-> "control", value |-> 0, columns |-> 0]
NoStatement == [sql |-> "none", value |-> 0, columns |-> 0]

Statement ==
  {Insertion(v) : v \in Text} \cup {InsertReturning(v) : v \in Text}
    \cup {Selection(n) : n \in 1..2} \cup {BrokenStatement, ControlStatement}

Adds(s) == IF s.sql = "insert" THEN <<s.value>> ELSE <<>>
RowsOf(s, table) ==
  CASE s.columns = 0 -> <<>>
    [] s.columns > 0 /\ s.sql = "insert" -> Adds(s)
    [] s.columns > 0 /\ s.sql = "select" -> table

\* The statements _validate_user_sql lets through; the other workers leave it to SQLite's
\* authorizer to deny them.
Admits(s) == s.sql # "control"

\* The steps _decode_step lets through.  Job draws from some of them.
BeginModes == {"deferred", "immediate", "exclusive"}
ScenarioSteps ==
  [connection : Live, op : {"begin", "try_begin"}, mode : BeginModes, statement : {NoStatement}]
  \cup [connection : Live, op : {"commit", "rollback"}, mode : {"none"}, statement : {NoStatement}]
  \cup [connection : Live, op : {"execute", "query", "try_execute", "try_query"}, mode : {"none"},
        statement : {s \in Statement : Admits(s)}]
ASSUME DrawnAssumption == \A j \in Job : j.statements \subseteq Statement /\ j.steps \subseteq ScenarioSteps

----------------------------------------------------------------------------
(* SQLite: who may read, write and commit.  In DELETE mode a reader shares *)
(* the file, one writer reserves it beside readers and needs it alone to   *)
(* commit.  In WAL mode a reader keeps its snapshot, and may write only if *)
(* nobody committed since.                                                 *)

NoError == "none"
Tabled(c) == (IF session[c].reads THEN session[c].base ELSE stored) \o session[c].own

ReadError(c) ==
  IF job.journal = "delete" /\ session[Peer(c)].lock = "exclusive" THEN "SQLITE_BUSY" ELSE NoError

WriteError(c) ==
  CASE session[c].lock # "none" -> NoError
    [] session[c].lock = "none" /\ session[Peer(c)].lock # "none" -> "SQLITE_BUSY"
    [] OTHER -> IF session[c].reads /\ session[c].base # stored
                THEN "SQLITE_BUSY_SNAPSHOT" ELSE NoError

BeginError(c, mode) ==
  CASE session[c].active -> "SQLITE_ERROR"
    [] ~session[c].active /\ mode = "deferred" -> NoError
    [] OTHER -> IF mode = "exclusive" /\ job.journal = "delete" /\ session[Peer(c)].reads
                THEN "SQLITE_BUSY" ELSE WriteError(c)

\* A commit of a writer, whether it wrote or not, and of a statement that writes by itself.
CommitError(c) ==
  IF job.journal = "delete" /\ session[c].lock # "exclusive" /\ session[Peer(c)].reads
  THEN "SQLITE_BUSY" ELSE NoError
EndError(c) == IF session[c].lock = "none" THEN NoError ELSE CommitError(c)

\* How execute() may fail.  A statement that does not compile may be told so or, if the
\* schema cannot be read, that the database is busy.
ExecuteErrors(c, s) ==
  CASE s.sql \in {"broken", "control"} -> {"SQLITE_ERROR"} \cup ({ReadError(c)} \ {NoError})
    [] s.sql = "select" -> {ReadError(c)}
    [] s.sql = "insert" ->
         {IF WriteError(c) = NoError /\ ~session[c].active /\ s.columns = 0
          THEN CommitError(c) ELSE WriteError(c)}

\* How the iteration over its rows may fail: a statement by itself that returns rows commits
\* when the last of them was read.
DrainError(c, s) ==
  IF s.sql = "insert" /\ s.columns > 0 /\ ~session[c].active
  THEN CommitError(c) ELSE NoError

Began(c, mode) ==
  LET writer == mode # "deferred" IN
  [session EXCEPT ![c] =
     [active |-> TRUE, reads |-> writer, base |-> IF writer THEN stored ELSE <<>>, own |-> <<>>,
      lock |-> CASE ~writer -> "none"
                 [] writer /\ mode = "immediate" -> "reserved"
                 [] writer /\ mode = "exclusive" ->
                      IF job.journal = "wal" THEN "reserved" ELSE "exclusive"]]

Executed(c, s) ==
  IF ~session[c].active THEN session
  ELSE [session EXCEPT
          ![c].reads = TRUE,
          ![c].base = IF session[c].reads THEN @ ELSE stored,
          ![c].own = @ \o Adds(s),
          ![c].lock = IF @ = "none" /\ s.sql = "insert" THEN "reserved" ELSE @]

StoredAfter(c, s) == IF session[c].active THEN stored ELSE stored \o Adds(s)
CommittedBy(c) ==
  IF session[c].own = <<>> THEN stored ELSE session[c].base \o session[c].own

----------------------------------------------------------------------------
(* Sizes, in bytes of compact JSON, and the ceilings.                      *)

Total(sizes) == FoldLeft(LAMBDA total, size : total + size, 0, sizes)
SizeOfJsonList(sizes) ==
  2 + Total(sizes) + (IF sizes = <<>> THEN 0 ELSE Len(sizes) - 1)
Repeated(n, size) == [i \in 1..n |-> size]
RowBytes(columns, text) == SizeOfJsonList(Repeated(columns, text + 2))
ColumnsBytes(columns) == SizeOfJsonList(Repeated(columns, 3))
RowsBytes(r) == SizeOfJsonList([i \in 1..Len(r.rows) |-> RowBytes(r.columns, r.rows[i])])
\* {"columns":C,"rows":R}
ResultBytes(r) == 11 + ColumnsBytes(r.columns) + 8 + RowsBytes(r) + 1

\* The bytes the collecting loops count before the first row: the two-connection worker counts
\* the whole result, the others its list of rows.
FrameBytes(r) ==
  IF job.worker = "two_connection" THEN 11 + ColumnsBytes(r.columns) + 11 ELSE 2

UsedBytes_WithoutCommas(r, n) ==
  FrameBytes(r) + Total([i \in 1..n |-> RowBytes(r.columns, r.rows[i])])
UsedBytes(r, n) ==
  FrameBytes(r) + Total([i \in 1..n |-> RowBytes(r.columns, r.rows[i])])
    + (IF n = 0 THEN 0 ELSE n - 1)

Normalizes(text) == text <= job.ceilings.value

\* What the loops check, before the first row and at each.
CollectsColumns(r) == r.columns <= job.ceilings.columns /\ FrameBytes(r) <= job.ceilings.bytes
Collects(r) ==
  /\ CollectsColumns(r)
  /\ \A i \in 1..Len(r.rows) :
       /\ i - 1 < job.ceilings.rows
       /\ Normalizes(r.rows[i])
       /\ UsedBytes(r, i) <= job.ceilings.bytes

\* A record is HeaderBytes and its result, if it has one: its keys are abstracted.
HeaderBytes == 30
RecordBytes(record) ==
  IF job.worker = "two_connection"
  THEN HeaderBytes + (IF record.result = NoResult THEN 0 ELSE ResultBytes(record.result))
  ELSE ResultBytes(record.result)
TranscriptBytes(transcript) ==
  Total([i \in 1..Len(transcript) |-> RecordBytes(transcript[i])])
HasRoomFor(record) ==
  job.worker = "query" \/ TranscriptBytes(Append(records, record)) <= job.ceilings.transcript

----------------------------------------------------------------------------
(* The end of a run: connections are rolled back and closed.  What a       *)
(* failed run committed is thrown away with its database.                  *)

Ends(code) ==
  /\ exit' = code /\ phase' = "over" /\ session' = [c \in Live |-> Idle]
Fails(code) == Ends(code) /\ UNCHANGED <<request, records, stored>>

RecordOf(op, c, error, r) == [op |-> op, connection |-> c, error |-> error, result |-> r]
Ran(stage, what) == request' = [request EXCEPT ![stage] = Append(@, what)]
Drawn(stage) == request[stage]

\* Decoding precedes everything.  A scenario is rejected for a step that is not one of
\* ScenarioSteps, or for too many, none, or more SQL or parameters than allowed; transactions
\* and queries for the same and a malformed fault; the probe for any input at all.
Rejects == Drawn("setup") = <<>> /\ Fails(2) /\ UNCHANGED <<job, controller, remaining, result>>
RejectScenario == phase = "setup" /\ job.worker = "two_connection" /\ Rejects
RejectTransaction == phase = "setup" /\ job.worker = "transaction" /\ Rejects
RejectQuery == phase = "setup" /\ job.worker = "query" /\ Rejects
RejectProbe == phase = "hold" /\ Rejects

\* An operation the injected fault or the budget of the virtual machine may prevent.
OutOfSteps == job.budget > 0 /\ remaining - 1 <= 0
Spend == remaining' = IF job.budget > 0 THEN remaining - 1 ELSE remaining
Attempted(operation, body) ==
  /\ controller' = checkpoint(controller, operation) /\ UNCHANGED job
  /\ IF Fires(controller, operation) THEN Fails(5) /\ UNCHANGED <<result, remaining>>
     ELSE Spend /\ IF OutOfSteps THEN Fails(6) /\ UNCHANGED result ELSE body
Refused(s) == s.sql \in {"broken", "control"}

Sets(s) ==
  IF Refused(s) THEN Fails(3)
  ELSE stored' = stored \o Adds(s) /\ Ran("setup", s) /\ UNCHANGED <<phase, session, records, exit>>

BootstrapStatement(s) ==
  /\ phase = "setup" /\ job.worker = "two_connection"
  /\ s \in job.statements /\ Admits(s) /\ Len(Drawn("setup")) < job.max_setup
  /\ Sets(s) /\ UNCHANGED <<job, controller, remaining, result>>

SetupStatement(s) ==
  /\ phase = "setup" /\ job.worker \in {"transaction", "query"}
  /\ s \in job.statements /\ Len(Drawn("setup")) < job.max_setup
  /\ Attempted("setup", Sets(s) /\ UNCHANGED result)

SetupDone ==
  /\ phase = "setup"
  /\ phase' = CASE job.worker = "two_connection" -> "steps"
                [] job.worker = "transaction" -> "begin"
                [] job.worker = "query" -> "query"
  /\ UNCHANGED <<job, controller, remaining, stored, session, request, records, result, exit>>

----------------------------------------------------------------------------
(* One transaction, or one query.  Their only connection is "a".           *)

BeginTransaction ==
  /\ phase = "begin"
  /\ Attempted("begin",
       /\ session' = Began("a", job.begin) /\ phase' = "transaction"
       /\ UNCHANGED <<stored, request, records, result, exit>>)

\* _execute_statement: the statement, its rows, and the ceilings on both.
Answered(s, kept) ==
  LET r == [columns |-> s.columns, rows |-> RowsOf(s, Tabled("a"))] IN
    IF Refused(s) THEN Fails(3) /\ UNCHANGED result
    ELSE /\ result' = r
         /\ IF Collects(r) /\ HasRoomFor(RecordOf("execute", "a", NoError, r))
            THEN records' = Append(records, RecordOf("execute", "a", NoError, r)) /\ kept
            ELSE Fails(4)

TransactionStatement(s) ==
  /\ phase = "transaction" /\ s \in job.statements /\ Len(Drawn("transaction")) < job.max_steps
  /\ Attempted("transaction",
       Answered(s, /\ session' = Executed("a", s) /\ Ran("transaction", s)
                   /\ UNCHANGED <<phase, stored, exit>>))

\* A database in memory is gone when its connection is closed.
OnDisk_WalOnly == job.journal = "wal"
OnDisk == job.reopen \/ job.journal = "wal"

Finalize ==
  /\ phase = "transaction" /\ Drawn("transaction") # <<>>
  /\ Attempted("finalize",
       /\ stored' = IF job.reopen /\ ~OnDisk THEN <<>>
                    ELSE IF job.commit THEN CommittedBy("a") ELSE stored
       /\ session' = [session EXCEPT !["a"] = Idle] /\ phase' = "observe"
       /\ Ran("finalize", NoStatement) /\ UNCHANGED <<records, result, exit>>)

ObserveStatement(s) ==
  /\ phase = "observe" /\ s \in job.statements
  /\ Attempted("observe",
       Answered(s, stored' = StoredAfter("a", s) /\ Ran("observe", s) /\ Ends(0)))

QueryStatement(s) ==
  /\ phase = "query" /\ s \in job.statements
  /\ Attempted("query",
       Answered(s, stored' = StoredAfter("a", s) /\ Ran("query", s) /\ Ends(0)))

----------------------------------------------------------------------------
(* A scenario of two connections.                                          *)

Scenario(step) ==
  /\ phase = "steps" /\ step \in job.steps /\ Len(Drawn("steps")) < job.max_steps
  /\ UNCHANGED <<job, controller, remaining>>

\* The record of a step, if the transcript has room for it.
Retained(step, error, r, sessionAfter, storedAfter) ==
  LET record == RecordOf(step.op, step.connection, error, r) IN
    IF HasRoomFor(record)
    THEN /\ records' = Append(records, record) /\ Ran("steps", step)
         /\ session' = sessionAfter /\ stored' = storedAfter /\ UNCHANGED <<phase, exit>>
    ELSE Fails(4)

\* An error of SQLite: only a try step records one, and only that the database is busy.
Raised_AsDone(step, error) ==
  IF step.op \in {"try_begin", "try_execute", "try_query"} /\ error \in BusyErrors
  THEN Retained(step, NoError, NoResult, session, stored)
  ELSE Fails(3)
Raised(step, error) ==
  IF step.op \in {"try_begin", "try_execute", "try_query"} /\ error \in BusyErrors
  THEN Retained(step, error, NoResult, session, stored)
  ELSE Fails(3)

BeginStep(step) ==
  /\ Scenario(step) /\ step.op \in {"begin", "try_begin"} /\ result' = NoResult
  /\ LET c == step.connection
         error == BeginError(c, step.mode)
     IN  IF error = NoError
         THEN Retained(step, NoError, NoResult, Began(c, step.mode), stored)
         ELSE Raised(step, error)

EndStep(step) ==
  /\ Scenario(step) /\ step.op \in {"commit", "rollback"} /\ result' = NoResult
  /\ LET c == step.connection
         commits == step.op = "commit"
     IN  IF ~session[c].active \/ (commits /\ EndError(c) # NoError)
         THEN Fails(3)
         ELSE Retained(step, NoError, NoResult, [session EXCEPT ![c] = Idle],
                       IF commits THEN CommittedBy(c) ELSE stored)

ExecuteStep(step) ==
  /\ Scenario(step) /\ step.op \in {"execute", "try_execute"} /\ result' = NoResult
  /\ LET c == step.connection
         s == step.statement
     IN  \E error \in ExecuteErrors(c, s) :
           CASE error # NoError -> Raised(step, error)
             [] error = NoError /\ s.columns > 0 -> Fails(2)
             [] OTHER -> Retained(step, NoError, NoResult, Executed(c, s), StoredAfter(c, s))

\* The errors of the iteration are outside the try block.
QueryStep(step) ==
  /\ Scenario(step) /\ step.op \in {"query", "try_query"}
  /\ LET c == step.connection
         s == step.statement
         r == [columns |-> s.columns, rows |-> RowsOf(s, Tabled(c))]
     IN  \E error \in ExecuteErrors(c, s) :
           CASE error # NoError -> Raised(step, error) /\ result' = NoResult
             [] error = NoError /\ s.columns = 0 -> Fails(2) /\ result' = NoResult
             [] OTHER ->
                  /\ result' = r
                  /\ IF CollectsColumns(r) /\ DrainError(c, s) # NoError THEN Fails(3)
                     ELSE IF ~Collects(r) THEN Fails(4)
                     ELSE Retained(step, NoError, r, Executed(c, s), StoredAfter(c, s))

ScenarioDone ==
  /\ phase = "steps" /\ Drawn("steps") # <<>>
  /\ IF \E c \in Live : session[c].active THEN Fails(3)
     ELSE Ends(0) /\ UNCHANGED <<request, records, stored>>
  /\ UNCHANGED <<job, controller, remaining, result>>

----------------------------------------------------------------------------
(* The probe of the writer lock: "a" holds it, "b" contends.               *)

Probing(at, next) ==
  /\ phase = at /\ phase' = next /\ UNCHANGED <<stored, request, records, result, exit>>
ProbeIf(condition, at, next, sessionAfter) ==
  /\ phase = at
  /\ IF condition THEN Probing(at, next) /\ session' = sessionAfter
     ELSE Fails(3) /\ UNCHANGED result
Holds(c, mode, v) == [Began(c, mode) EXCEPT ![c].own = <<v>>]
Unchanging == UNCHANGED <<job, controller, remaining>>

HoldLock == Unchanging /\ ProbeIf(TRUE, "hold", "contend", Holds("a", job.begin, 1))
ContendForLock ==
  Unchanging /\ ProbeIf(BeginError("b", job.contender) \in BusyErrors, "contend", "release", session)
ReleaseLock ==
  Unchanging /\ Probing("release", "retry") /\ session' = [session EXCEPT !["a"] = Idle]
RetryLock ==
  /\ Unchanging
  /\ ProbeIf(BeginError("b", job.contender) = NoError, "retry", "settle",
             Holds("b", job.contender, 2))
SettleLock ==
  /\ phase = "settle" /\ Unchanging
  /\ IF EndError("b") # NoError THEN Fails(3) /\ UNCHANGED result
     ELSE /\ stored' = CommittedBy("b") /\ result' = [columns |-> 1, rows |-> CommittedBy("b")]
          /\ Ends(0) /\ UNCHANGED <<request, records>>

----------------------------------------------------------------------------
ExecutorNext ==
  \/ RejectScenario \/ RejectTransaction \/ RejectQuery \/ RejectProbe
  \/ SetupDone \/ BeginTransaction \/ Finalize \/ ScenarioDone
  \/ \E s \in Statement :
       \/ BootstrapStatement(s) \/ SetupStatement(s)
       \/ TransactionStatement(s) \/ ObserveStatement(s) \/ QueryStatement(s)
  \/ \E step \in job.steps : BeginStep(step) \/ EndStep(step) \/ ExecuteStep(step) \/ QueryStep(step)
  \/ HoldLock \/ ContendForLock \/ ReleaseLock \/ RetryLock \/ SettleLock

ExecutorSpec == ExecutorInit /\ [][ExecutorNext]_executor

----------------------------------------------------------------------------
(* Properties.                                                             *)

PhasesOf(worker) ==
  CASE worker = "query" -> {"setup", "query", "over"}
    [] worker = "transaction" -> {"setup", "begin", "transaction", "observe", "over"}
    [] worker = "two_connection" -> {"setup", "steps", "over"}
    [] OTHER -> {"hold", "contend", "release", "retry", "settle", "over"}
Faultable == {"never", "setup", "transaction", "finalize", "observe", "query"}
Sessions == [active : BOOLEAN, reads : BOOLEAN, base : Seq(Nat), own : Seq(Nat),
             lock : {"none", "reserved", "exclusive"}]
Results == [columns : Nat, rows : Seq(Nat)]
Transcribed ==
  [op : {"begin", "try_begin", "commit", "rollback", "execute", "query", "try_execute", "try_query"},
   connection : Live, error : BusyErrors \cup {NoError}, result : Results]

ExecutorTypeOK ==
  /\ job \in Job /\ controller \in Controllers(Faultable) /\ remaining \in Int
  /\ phase \in PhasesOf(job.worker)
  /\ stored \in Seq(Nat) /\ session \in [Live -> Sessions]
  /\ DOMAIN request = Stages /\ request["steps"] \in Seq(ScenarioSteps)
  /\ \A stage \in Stages \ {"steps"} : request[stage] \in Seq(Statement \cup {NoStatement})
  /\ records \in Seq(Transcribed) /\ result \in Results
  /\ exit \in {0, 2, 3, 4, 5, 6, Running} /\ (Exited <=> phase = "over")

AddedBy(statements) == FlattenSeq([i \in 1..Len(statements) |-> Adds(statements[i])])
TableSetUp == AddedBy(Drawn("setup"))

\* What a record of a step adds to the story so far: the committed table, and per connection
\* whether it is in a transaction, what it wrote, and the tables it may have been looking at
\* since.
Tell(story, step, record) ==
  LET c == step.connection
      s == step.statement
      rows == record.result.rows
      publish(table) ==
        [story EXCEPT !.table = table,
           !.views = [d \in Live |-> IF d # c /\ story.active[d] THEN @[d] \cup {table} ELSE @[d]]]
      views == IF step.op \in {"query", "try_query"}
               THEN {t \in story.views[c] : rows = RowsOf(s, t \o story.own[c])}
               ELSE story.views[c]
  IN  CASE record.error # NoError -> story
        [] record.error = NoError /\ step.op \in {"begin", "try_begin"} ->
             [story EXCEPT !.active[c] = TRUE, !.own[c] = <<>>, !.views[c] = {story.table}]
        [] record.error = NoError /\ step.op = "rollback" ->
             [story EXCEPT !.active[c] = FALSE, !.agrees = @ /\ story.active[c]]
        [] record.error = NoError /\ step.op = "commit" ->
             [publish(story.table \o story.own[c]) EXCEPT
                !.active[c] = FALSE,
                !.agrees = /\ @ /\ story.active[c]
                           /\ story.own[c] # <<>> => story.table \in story.views[c]]
        [] OTHER ->
             IF story.active[c]
             THEN [story EXCEPT !.own[c] = @ \o Adds(s), !.views[c] = views,
                                !.agrees = @ /\ views # {}]
             ELSE [publish(story.table \o Adds(s)) EXCEPT
                     !.agrees = @ /\ rows = RowsOf(s, story.table)]

\* What a transcript tells.
Told(steps, transcript) ==
  LET told[n \in 0..Len(transcript)] ==
        IF n = 0
        THEN [table |-> TableSetUp, active |-> [c \in Live |-> FALSE],
              own |-> [c \in Live |-> <<>>], views |-> [c \in Live |-> {}], agrees |-> TRUE]
        ELSE Tell(told[n - 1], steps[n], transcript[n])
  IN  told[Len(transcript)]

\* A transcript accounts for everything: one record per step; what it calls done was done and
\* what it calls busy had no effect, so that the committed table is what its commits add up to;
\* every read of a transaction shows one committed table and the transaction's own writes, and
\* nobody committed between that table and the transaction's commit; no transaction is left
\* open.  The probe of the writer lock finds the second writer blocked, then alone.
TranscriptExplainsTheDatabase ==
  /\ (exit = 0 /\ job.worker = "two_connection") =>
       /\ Len(records) = Len(Drawn("steps"))
       /\ LET told == Told(Drawn("steps"), records) IN
            told.agrees /\ told.table = stored /\ \A c \in Live : ~told.active[c]
  /\ (Exited /\ job.worker = "lock") => exit \in {0, 2} /\ (exit = 0 => result.rows = <<2>>)

\* What a transaction target writes is what a run without faults, files and budgets would: each
\* statement sees those before it, and the observation all of the transaction or nothing of
\* it, also when the database was closed and opened in between.  A fault stops the run at its
\* occurrence, never one early or late, and is never overslept; neither is the budget.
ObservationIsAllOrNothing ==
  LET ran == Drawn("transaction")
      before(i) == TableSetUp \o AddedBy(SubSeq(ran, 1, i - 1))
      final == TableSetUp \o (IF job.commit THEN AddedBy(ran) ELSE <<>>)
      observed == Drawn("observe") \o Drawn("query")
      reached == Len(Drawn(job.fault.operation))
      operations == Len(Drawn("setup")) + Len(ran) + Len(Drawn("finalize")) + Len(observed)
  IN  job.worker \in {"transaction", "query"} =>
        /\ exit = 0 =>
             /\ Len(records) = Len(ran) + 1
             /\ \A i \in 1..Len(ran) : records[i].result.rows = RowsOf(ran[i], before(i))
             /\ Last(records).result.rows = RowsOf(Last(observed), final)
             /\ job.faults => reached <= job.fault.occurrence
             /\ job.budget > 0 => operations < job.budget
        /\ exit = 5 => job.faults /\ reached = job.fault.occurrence
        /\ exit = 6 => operations + 1 \in {job.budget - 1, job.budget}

\* The ceilings cut neither early nor late, although sizes are summed up row by row: all that
\* is written fits its ceilings, and what was refused as too large does not.
Fits(r) ==
  /\ r.columns <= job.ceilings.columns /\ Len(r.rows) <= job.ceilings.rows
  /\ \A i \in 1..Len(r.rows) : r.rows[i] <= job.ceilings.value
  /\ (IF job.worker = "two_connection" THEN ResultBytes(r) ELSE RowsBytes(r)) <= job.ceilings.bytes
CeilingsAreExact ==
  /\ exit = 0 => \A i \in 1..Len(records) : records[i].result = NoResult \/ Fits(records[i].result)
  /\ exit = 4 =>
       \/ ~Fits(result)
       \/ /\ job.worker # "query"
          /\ TranscriptBytes(Append(records, RecordOf("", "", NoError, result)))
               > job.ceilings.transcript
=============================================================================
