--------------------------- MODULE SqliteTargets ---------------------------
(***************************************************************************)
(* The SQLite targets side by side: a run is a run of one WAL script or of *)
(* one executor, each a process of its own with its own databases.         *)
(***************************************************************************)
EXTENDS WalScripts, SqliteExecutors

\* There are WAL scripts to run.
ASSUME TargetsAssumption == Script # {}

NoJob == [worker |-> "none", steps |-> {}]

NoScriptRuns ==
  /\ script = (CHOOSE n \in Script : TRUE) /\ at = Len(Steps[script]) + 1
  /\ file = [d \in Database |-> Missing]
  /\ open = {} /\ mark = [c \in Connection |-> NoSnapshot]
  /\ pending = [c \in Connection |-> Nothing]
  /\ alive = {} /\ answers = [c \in Child |-> "never"] /\ scopes = <<>>
  /\ raising = FALSE /\ failures = 0

NoExecutorRuns ==
  /\ job = NoJob /\ phase = "none" /\ remaining = 0 /\ controller = NewController(NoFault)
  /\ stored = <<>> /\ session = [c \in Live |-> Idle]
  /\ request = [stage \in Stages |-> <<>>] /\ records = <<>> /\ result = NoResult /\ exit = Running

SqliteInit == (Init /\ NoExecutorRuns) \/ (NoScriptRuns /\ ExecutorInit)

SqliteNext ==
  \/ Next /\ UNCHANGED executor
  \/ ExecutorNext /\ UNCHANGED vars

SqliteSpec == SqliteInit /\ [][SqliteNext]_<<vars, executor>>
=============================================================================
