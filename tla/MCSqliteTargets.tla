-------------------------- MODULE MCSqliteTargets --------------------------
(***************************************************************************)
(* Every WAL script of the repository, with up to two operations that      *)
(* fail; the executors with scenarios of up to seven steps and             *)
(* transactions of up to two statements, each fault, small budgets of      *)
(* virtual machine steps, and ceilings at the sizes of the results.        *)
(***************************************************************************)
EXTENDS SqliteTargets, TLC

SourceConnection == {"older", "newer", "writer", "own", "guest", "reader"}
BackupConnection == {"copy", "detached writer", "detached reader"}

MCHome == [c \in SourceConnection \cup BackupConnection |->
             IF c \in SourceConnection THEN "source" ELSE "backup"]
MCConnection == DOMAIN MCHome
MCSteps == StepsOf
MCScript == Worker
MCBlocks == [n \in Worker |-> BlocksAround(StepsOf[n])]
MCValue == 0..204

----------------------------------------------------------------------------
Roomy == [columns |-> 9, rows |-> 9, value |-> 9, bytes |-> 999, transcript |-> 999]
\* One row of a text of 1 byte is 5 bytes of JSON, one of 3 bytes is 7.
Tight(worker) ==
  {[Roomy EXCEPT !.columns = 1], [Roomy EXCEPT !.rows = 1], [Roomy EXCEPT !.value = 1]}
  \cup {[Roomy EXCEPT !.bytes = n] : n \in IF worker = "two_connection" THEN {26, 32, 39, 40} ELSE {1, 7, 12, 13}}
  \cup {[Roomy EXCEPT !.transcript = n] : n \in IF worker = "two_connection" THEN {30, 62, 97} ELSE {25, 57, 64}}

Base == [worker |-> "query", journal |-> "delete", begin |-> "deferred", contender |-> "none",
         commit |-> TRUE, reopen |-> FALSE, faults |-> FALSE, fault |-> NoFault, budget |-> 0,
         ceilings |-> Roomy, max_setup |-> 1, max_steps |-> 2, steps |-> {},
         statements |-> {Insertion(1), InsertReturning(3), Selection(1), Selection(2),
                         BrokenStatement, ControlStatement}]

Transactions ==
  {[Base EXCEPT !.worker = "transaction", !.journal = j, !.reopen = r, !.commit = c,
                !.begin = IF c THEN "deferred" ELSE "exclusive"] :
     j \in {"delete", "wal"}, r \in BOOLEAN, c \in BOOLEAN}

Faulty(j, operations) ==
  {[j EXCEPT !.fault = FaultSpec(o, n), !.faults = TRUE] : o \in operations, n \in 0..1}
    \cup {[j EXCEPT !.fault = FaultSpec("setup", 0)]}
Few(j) == [j EXCEPT !.statements = {Insertion(1), InsertReturning(3), Selection(1)}]
Varied(j, operations) ==
  {j} \cup Faulty(Few(j), operations)
  \cup {[Few(j) EXCEPT !.budget = n] : n \in {1, 3, 4, 5, 6}}
  \cup {[j EXCEPT !.ceilings = c] : c \in Tight(j.worker)}

TransactionJobs ==
  UNION {Varied(j, {"setup", "transaction", "finalize", "observe"}) : j \in Transactions}
QueryJobs == Varied([Base EXCEPT !.max_setup = 2], {"setup", "query"})

ScenarioStep(c, op, mode, s) == [connection |-> c, op |-> op, mode |-> mode, statement |-> s]
\* A reader that turns writer on "a", and a writer on "b".
Duel ==
  {ScenarioStep("a", "begin", "deferred", NoStatement),
   ScenarioStep("a", "query", "none", Selection(1)),
   ScenarioStep("a", "try_execute", "none", Insertion(1)),
   ScenarioStep("b", "try_begin", "immediate", NoStatement),
   ScenarioStep("b", "try_query", "none", InsertReturning(3))}
  \cup {ScenarioStep(c, "commit", "none", NoStatement) : c \in Live}
\* Every kind of lock on "b".
Locks ==
  Duel \cup
  {ScenarioStep("b", "try_begin", "exclusive", NoStatement),
   ScenarioStep("b", "try_query", "none", Selection(1)),
   ScenarioStep("b", "rollback", "none", NoStatement)}

Scenarios ==
  LET two == [Base EXCEPT !.worker = "two_connection", !.statements = {Insertion(1), BrokenStatement}] IN
    {[two EXCEPT !.journal = j, !.steps = Duel, !.max_setup = 0,
                  !.max_steps = IF j = "wal" THEN 7 ELSE 5] : j \in {"delete", "wal"}}
    \cup {[two EXCEPT !.steps = Locks, !.max_steps = 5, !.max_setup = 0]}
    \cup {[two EXCEPT !.journal = j, !.steps = ScenarioSteps] : j \in {"delete", "wal"}}
    \cup {[two EXCEPT !.ceilings = c, !.max_steps = 3, !.steps =
             {ScenarioStep("a", "query", "none", s) : s \in {Selection(1), Selection(2)}}
             \cup {ScenarioStep("a", "execute", "none", Insertion(3))}] : c \in Tight("two_connection")}

LockProbes ==
  {[Base EXCEPT !.worker = "lock", !.journal = j, !.begin = h, !.contender = c] :
     j \in {"delete", "wal"}, h \in {"immediate", "exclusive"}, c \in {"immediate", "exclusive"}}

AllJobs == TransactionJobs \cup QueryJobs \cup Scenarios \cup LockProbes
MCJob == AllJobs
=============================================================================
