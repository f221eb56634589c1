----------------------------- MODULE SqliteWal -----------------------------
(***************************************************************************)
(* The SQLite WAL targets (_sqlite_wal_*_worker.py): scripts over one or   *)
(* two databases with one row.  A script opens connections of its own and  *)
(* starts children that hold a snapshot or an uncommitted update until     *)
(* they are killed; it compares every answer with the one it expects and   *)
(* raises when they differ.  try/finally blocks kill the children on the   *)
(* way out.  The scripts themselves are the constant Steps; this module    *)
(* executes them over a model of SQLite's log, which is outside the        *)
(* repository, and lets any operation fail.                                *)
(*                                                                         *)
(* The only row stands for the whole database; a frame of the log is a     *)
(* commit.  A connection is named after its role and its database.         *)
(* Operators named <definition>_<bug> are bugs; no action of Next uses     *)
(* them.                                                                   *)
(***************************************************************************)
EXTENDS Integers, Sequences, FiniteSets, FiniteSetsExt

CONSTANTS
  Script, Steps,        \* the scripts' names, and what each does
  Blocks,               \* the try/finally blocks around each step
  Database, Connection, Home,  \* Home[c]: the database c opens
  Child,                \* the connections a child process holds
  Sleeper,              \* the children that must not be left to end by themselves
  Value, Nothing,
  MaxFailures           \* bound: operations that fail

ASSUME ConnectionAssumption ==
  Home \in [Connection -> Database] /\ Sleeper \subseteq Child /\ Child \subseteq Connection
ASSUME ValueAssumption == Nothing \notin Value /\ MaxFailures \in Nat
\* Scripts are sequences of steps, each with a value of the kind that it needs.
WellFormed(steps) ==
  Len(steps) \in Nat /\ \A i \in 1..Len(steps) :
    LET step == steps[i] IN
      /\ step.by \in Connection
      /\ step.do \in {"insert", "update"} => step.value \in Value
      /\ step.do = "backup" => step.value \in Connection
      /\ step.do = "spawn" => step.by \in Child /\ step.value \in {"never", "once", "always"}
      /\ step.do = "ask" => step.by \in Child
      /\ step.do = "try" => step.value \in Seq(Child)

\* A block is entered and left inside its script.  Only the child it kills first may sleep.
Nested(steps, blocks) ==
  /\ blocks[1] = <<>> /\ blocks[Len(steps) + 1] = <<>>
  /\ \A i \in 1..Len(steps) :
       LET step == steps[i]
           around == blocks[i]
           next == blocks[i + 1]
       IN  /\ around \in Seq(Seq(Child))
           /\ \A n \in DOMAIN around : \A m \in DOMAIN around[n] :
                around[n][m] \in Sleeper => m = 1
           /\ IF step.do = "try" THEN next = <<step.value>> \o around
              ELSE IF step.do \in {"hand over", "finally"}
              THEN around # <<>> /\ next = Tail(around)
              ELSE next = around

\* A child that was started and not ended before step i is in a block, but for the moment
\* before it is entered; a reader is also started before a connection is opened.  Where a
\* block is left in its finally, all of its children were ended.
Started(steps, i, c) ==
  \E j \in 1..(i - 1) :
    /\ steps[j].do = "spawn" /\ steps[j].by = c
    /\ \A k \in (j + 1)..(i - 1) : ~(steps[k].do \in {"kill", "exit"} /\ steps[k].by = c)
InABlock(c, blocks) == \E n \in DOMAIN blocks : \E m \in DOMAIN blocks[n] : blocks[n][m] = c
Protecting(steps, blocks) ==
  \A i \in 1..(Len(steps) + 1) : \A c \in Child : Started(steps, i, c) =>
    /\ \/ InABlock(c, blocks[i])
       \/ i <= Len(steps) /\ steps[i].do = "try" /\ InABlock(c, <<steps[i].value>>)
       \/ i <= Len(steps) /\ steps[i].do = "open" /\ c \notin Sleeper
    /\ i <= Len(steps) /\ steps[i].do = "finally" => ~InABlock(c, <<Head(blocks[i])>>)

ASSUME ScriptsAssumption ==
  \A s \in Script :
    WellFormed(Steps[s]) /\ Nested(Steps[s], Blocks[s]) /\ Protecting(Steps[s], Blocks[s])

VARIABLES
  script, at,           \* which script, and its next step
  file,                 \* per database: its file and its log
  open,                 \* connections that are open
  mark,                 \* per connection: where its snapshot ends in the log, 0: in the file
  pending,              \* per connection: its uncommitted update
  alive,                \* children that run
  answers,              \* per child: how often it still says what it sees
  scopes,               \* the try/finally blocks entered: whom each kills, innermost first
  raising,              \* an exception is on its way out
  failures              \* operations that failed so far

engine == <<file, open, mark, pending>>
processes == <<alive, answers, scopes, raising, failures>>
vars == <<script, at, engine, processes>>

NoSnapshot == -1
Missing == [wal |-> FALSE, base |-> Nothing, log |-> <<>>, backfilled |-> 0]

TypeOK ==
  /\ script \in Script /\ at \in 1..Len(Steps[script]) + 1
  /\ file \in [Database -> [wal : BOOLEAN, base : Value \cup {Nothing}, log : Seq(Value),
                            backfilled : Nat]]
  /\ open \subseteq Connection /\ mark \in [Connection -> Nat \cup {NoSnapshot}]
  /\ pending \in [Connection -> Value \cup {Nothing}]
  /\ alive \subseteq Child /\ answers \in [Child -> {"never", "once", "always"}]
  /\ scopes \in Seq(Seq(Child)) /\ raising \in BOOLEAN
  /\ failures \in 0..MaxFailures

Init ==
  /\ script \in Script /\ at = 1
  /\ file = [d \in Database |-> Missing]
  /\ open = {} /\ mark = [c \in Connection |-> NoSnapshot]
  /\ pending = [c \in Connection |-> Nothing]
  /\ alive = {} /\ answers = [c \in Child |-> "never"] /\ scopes = <<>> /\ raising = FALSE /\ failures = 0

----------------------------------------------------------------------------
(* SQLite.  A reader whose log was copied into the file reads the file     *)
(* (mark 0), any other the log up to its mark.                             *)

Frames(d) == Len(file[d].log)
FreshMark(d) == IF file[d].backfilled = Frames(d) THEN 0 ELSE Frames(d)
ValueAt(d, m) == IF m = 0 THEN file[d].base ELSE file[d].log[m]
Others(c) == {x \in open \ {c} : Home[x] = Home[c]}
Marks(C) == {mark[x] : x \in C} \ {NoSnapshot}
Writing(C) == \E x \in C : pending[x] # Nothing
Users(d) == {x \in open : Home[x] = d}

\* What a SELECT of c returns: its own update, its snapshot, or the committed value.
Select(c) ==
  CASE pending[c] # Nothing -> pending[c]
    [] pending[c] = Nothing /\ mark[c] # NoSnapshot -> ValueAt(Home[c], mark[c])
    [] OTHER -> ValueAt(Home[c], FreshMark(Home[c]))

\* A commit: a frame, or the first of a log that is started again when all of it is in the
\* file and nobody reads it.
Stored(c, m, v) ==
  LET f == file[Home[c]] IN
    CASE ~f.wal -> [f EXCEPT !.base = v]
      [] f.wal /\ m = 0 /\ f.backfilled > 0 /\ Marks(Others(c)) \subseteq {0} ->
           [f EXCEPT !.log = <<v>>, !.backfilled = 0]
      [] OTHER -> [f EXCEPT !.log = Append(@, v)]

\* A checkpoint copies what every reader of the log has passed, unless someone reads the file.
Backfilled(c) ==
  LET f == file[Home[c]]
      safe == Min({Len(f.log)} \cup (Marks(Others(c)) \ {0}))
  IN  IF 0 \in Marks(Others(c)) \/ safe <= f.backfilled
      THEN f ELSE [f EXCEPT !.base = f.log[safe], !.backfilled = safe]

\* TRUNCATE is busy beside a writer, an incomplete copy or a reader of the log.
Busy(c) ==
  \/ Writing(Others(c))
  \/ Backfilled(c).backfilled < Frames(Home[c])
  \/ \E m \in Marks(Others(c)) : m > 0
Emptied(f) == [f EXCEPT !.log = <<>>, !.backfilled = 0]
Checkpointed(c) == IF Busy(c) THEN Backfilled(c) ELSE Emptied(Backfilled(c))

\* The last connection to be closed checkpoints and removes the log.
Closed(c) == IF Others(c) = {} THEN Emptied(Backfilled(c)) ELSE file[Home[c]]

\* The first connection to open a log left by a crash counts its frames anew.
Recovered(c) ==
  IF Others(c) = {} THEN [file[Home[c]] EXCEPT !.backfilled = 0] ELSE file[Home[c]]

Detach(c) ==
  /\ open' = open \ {c}
  /\ mark' = [mark EXCEPT ![c] = NoSnapshot] /\ pending' = [pending EXCEPT ![c] = Nothing]

----------------------------------------------------------------------------
(* One step of the script: what it does, on whose behalf, and the value it *)
(* writes or expects.  A wrong answer raises.                              *)

Step == Steps[script][at]

\* What SQLite rejects: a connection that is not open, a transaction or a checkpoint inside
\* a transaction, a second writer, a write to a database without a log beside a reader; and
\* to replace a database that is being read.  No script asks for it: one that did would raise.
Rejected(step) ==
  LET c == step.by IN
    \/ /\ step.do \in {"pin", "update", "insert", "checkpoint"}
       /\ c \notin open \/ mark[c] # NoSnapshot
    \/ step.do \in {"update", "insert"} /\ Writing(Others(c))
    \/ /\ step.do = "insert" \/ (step.do = "commit" /\ pending[c] # Nothing)
       /\ ~file[Home[c]].wal /\ Marks(Others(c)) # {}
    \/ step.do = "backup" /\ Marks(Users(Home[step.value])) # {}
    \/ step.do = "unlink" /\ Marks(Users(Home[c])) # {}

Doing(name) == ~raising /\ at <= Len(Steps[script]) /\ \E step \in {Step} : step.do = name /\ ~Rejected(step)
Advance == at' = at + 1 /\ UNCHANGED <<script, raising, failures>>
Raise == raising' = TRUE /\ UNCHANGED <<script, at>>
Becomes(c, f) == file' = [file EXCEPT ![Home[c]] = f]
Quiet == UNCHANGED <<alive, answers, scopes>>

Open(c) ==
  /\ Doing("open") /\ Step.by = c /\ Advance
  /\ open' = open \cup {c} /\ Becomes(c, Recovered(c))
  /\ Quiet /\ UNCHANGED <<mark, pending>>

Close(c) ==
  /\ Doing("close") /\ Step.by = c /\ Advance
  /\ Becomes(c, Closed(c)) /\ Detach(c) /\ Quiet

SetWal(c) ==
  /\ Doing("set wal") /\ Step.by = c /\ Advance
  /\ Becomes(c, [file[Home[c]] EXCEPT !.wal = TRUE])
  /\ Quiet /\ UNCHANGED <<open, mark, pending>>

\* CREATE TABLE and INSERT, each its own transaction.
Insert(c) ==
  /\ Doing("insert") /\ Step.by = c /\ Advance
  /\ Becomes(c, Stored(c, FreshMark(Home[c]), Step.value))
  /\ Quiet /\ UNCHANGED <<open, mark, pending>>

IsWal(c) ==
  /\ Doing("is wal") /\ Step.by = c
  /\ IF file[Home[c]].wal THEN Advance ELSE Raise /\ UNCHANGED failures
  /\ Quiet /\ UNCHANGED engine

\* BEGIN and a first SELECT.
Pin(c) ==
  /\ Doing("pin") /\ Step.by = c
  /\ IF Select(c) = Step.value
     THEN Advance /\ mark' = [mark EXCEPT ![c] = FreshMark(Home[c])]
     ELSE Raise /\ UNCHANGED <<failures, mark>>
  /\ Quiet /\ UNCHANGED <<file, open, pending>>

Read(c) ==
  /\ Doing("read") /\ Step.by = c
  /\ IF Select(c) = Step.value THEN Advance ELSE Raise /\ UNCHANGED failures
  /\ Quiet /\ UNCHANGED engine

\* BEGIN IMMEDIATE and UPDATE.
Update(c) ==
  /\ Doing("update") /\ Step.by = c /\ Advance
  /\ mark' = [mark EXCEPT ![c] = FreshMark(Home[c])]
  /\ pending' = [pending EXCEPT ![c] = Step.value]
  /\ Quiet /\ UNCHANGED <<file, open>>

Commit(c) ==
  /\ Doing("commit") /\ Step.by = c /\ Advance
  /\ IF pending[c] = Nothing THEN UNCHANGED file
     ELSE Becomes(c, Stored(c, mark[c], pending[c]))
  /\ mark' = [mark EXCEPT ![c] = NoSnapshot] /\ pending' = [pending EXCEPT ![c] = Nothing]
  /\ Quiet /\ UNCHANGED open

Rollback(c) ==
  /\ Doing("rollback") /\ Step.by = c /\ Advance
  /\ mark' = [mark EXCEPT ![c] = NoSnapshot] /\ pending' = [pending EXCEPT ![c] = Nothing]
  /\ Quiet /\ UNCHANGED <<file, open>>

Checkpoint(c) ==
  /\ Doing("checkpoint") /\ Step.by = c
  /\ IF Busy(c) = Step.value THEN Advance ELSE Raise /\ UNCHANGED failures
  /\ Becomes(c, Checkpointed(c))
  /\ Quiet /\ UNCHANGED <<open, mark, pending>>

\* The copy has the mode of its source and an empty log.
Backup(c) ==
  /\ Doing("backup") /\ Step.by = c /\ Advance
  /\ Becomes(Step.value, [Missing EXCEPT !.wal = file[Home[c]].wal,
                                         !.base = ValueAt(Home[c], FreshMark(Home[c]))])
  /\ Quiet /\ UNCHANGED <<open, mark, pending>>

Unlink(c) ==
  /\ Doing("unlink") /\ Step.by = c /\ Advance /\ Becomes(c, Missing)
  /\ Quiet /\ UNCHANGED <<open, mark, pending>>

----------------------------------------------------------------------------
(* Children and the blocks that kill them.  A killed child closes nothing. *)

Spawn(c) ==
  /\ Doing("spawn") /\ Step.by = c /\ Advance
  /\ alive' = alive \cup {c} /\ answers' = [answers EXCEPT ![c] = Step.value]
  /\ UNCHANGED <<engine, scopes>>

\* A child is asked for what it sees.  Asked in vain, it lets the script wait for ever.
Ask(c) ==
  /\ Doing("ask") /\ Step.by = c /\ answers[c] # "never"
  /\ IF Select(c) = Step.value THEN Advance ELSE Raise /\ UNCHANGED failures
  /\ answers' = [answers EXCEPT ![c] = IF @ = "once" THEN "never" ELSE @]
  /\ UNCHANGED <<engine, alive, scopes>>

Kill(c) == alive' = alive \ {c} /\ Detach(c) /\ UNCHANGED <<file, answers>>

KillChild(c) ==
  /\ Doing("kill") /\ Step.by = c /\ Advance /\ Kill(c) /\ UNCHANGED scopes

\* A child that was told to finish closes its connection and exits.
Exit(c) ==
  /\ Doing("exit") /\ Step.by = c /\ Advance
  /\ alive' = alive \ {c} /\ Becomes(c, Closed(c)) /\ Detach(c) /\ UNCHANGED <<answers, scopes>>

Try ==
  /\ Doing("try") /\ Advance
  /\ scopes' = <<Step.value>> \o scopes /\ UNCHANGED <<engine, alive, answers>>

\* A start function returns: from here its caller answers for the child.
HandOver ==
  /\ Doing("hand over") /\ Advance
  /\ scopes' = Tail(scopes) /\ UNCHANGED <<engine, alive, answers>>

Cleaning_OnSuccess == scopes # <<>> /\ Doing("finally")
Cleaning == scopes # <<>> /\ (raising \/ Doing("finally"))
Living == {i \in DOMAIN Head(scopes) : Head(scopes)[i] \in alive}
FirstLiving == Head(scopes)[Min(Living)]

KillLiving ==
  /\ Cleaning /\ Living # {} /\ Kill(FirstLiving)
  /\ UNCHANGED <<script, at, scopes, raising, failures>>

LeaveScope ==
  /\ Cleaning /\ Living = {} /\ scopes' = Tail(scopes)
  /\ IF raising THEN UNCHANGED <<script, at, raising, failures>> ELSE Advance
  /\ UNCHANGED <<engine, alive, answers>>

----------------------------------------------------------------------------
(* Failures: an operation raises without effect, because SQLite rejects it *)
(* or by accident; the wait for a killed child times out, which in a       *)
(* finally block skips what is left of it.                                 *)

MayFail == failures < MaxFailures /\ failures' = failures + 1

StepFails ==
  /\ ~raising /\ at <= Len(Steps[script]) /\ Raise
  /\ IF \E step \in {Step} : Rejected(step) THEN UNCHANGED failures ELSE MayFail
  /\ Step.do \notin {"try", "hand over", "finally", "kill"}
  /\ Quiet /\ UNCHANGED engine

KillTimesOut ==
  /\ MayFail /\ ~raising /\ at <= Len(Steps[script]) /\ Step.do = "kill" /\ Raise
  /\ Kill(Step.by) /\ UNCHANGED scopes

CleaningTimesOut ==
  /\ MayFail /\ Cleaning /\ Living # {} /\ Raise
  /\ Kill(FirstLiving) /\ scopes' = Tail(scopes)

Over == ~Cleaning /\ (raising \/ at > Len(Steps[script]))
Stopped == Over /\ UNCHANGED vars

----------------------------------------------------------------------------
Next ==
  \/ \E c \in Connection :
       \/ Open(c) \/ Close(c) \/ SetWal(c) \/ IsWal(c) \/ Insert(c) \/ Pin(c) \/ Read(c) \/ Update(c)
       \/ Commit(c) \/ Rollback(c) \/ Checkpoint(c) \/ Backup(c) \/ Unlink(c)
       \/ Spawn(c) \/ Ask(c) \/ KillChild(c) \/ Exit(c)
  \/ Try \/ HandOver \/ KillLiving \/ LeaveScope
  \/ StepFails \/ KillTimesOut \/ CleaningTimesOut
  \/ Stopped

Spec == Init /\ [][Next]_vars

----------------------------------------------------------------------------
(* Properties.                                                             *)

\* The scripts' expectations are consistent: if nothing fails, each read, checkpoint and
\* write gets the answer its script raises without, and no reader is asked more often than
\* it answers (_read_snapshot waits without a time limit).  An expectation that SQLite's
\* own rules contradict would make the target fail whatever it was meant to test.
ScriptsAgree ==
  /\ raising => failures > 0
  /\ Doing("ask") => answers[Step.by] # "never"

\* When a target ends, none of its writers is left running, however many operations failed:
\* they sleep for ever, but for the one that committed and exits when its control pipe closes
\* (_sqlite_wal_partial_release_committed_writer_crash_worker.py:23), of which no less is
\* asked.  A reader, which exits in that way too, is left only if a second operation failed
\* while the first was being cleaned up, or if what failed is a connect between the start of
\* the reader and the block that kills it.
NothingIsLeftRunning ==
  Over =>
    /\ alive \cap Sleeper = {}
    /\ failures = 0 => alive = {}
    /\ failures = 1 /\ alive # {} => Step.do = "open"
=============================================================================
