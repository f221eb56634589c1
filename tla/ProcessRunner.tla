--------------------------- MODULE ProcessRunner ---------------------------
(***************************************************************************)
(* run_process (runner.py) after its arguments are validated: the calling  *)
(* thread, the two drain threads and the stdin thread, the target's root   *)
(* process with the descendants it spawns, and the operating system that   *)
(* contains them (a POSIX process group, a Windows job: _windows_job.py).  *)
(*                                                                         *)
(* Time is abstract: the deadline passes at any moment, and a wait with a  *)
(* timeout may give up at any moment as long as what it waits for is not   *)
(* there.  A process identifier is not reused before the call returns.     *)
(* Operators named <definition>_<bug> are bugs; no action of Next uses     *)
(* them.                                                                   *)
(***************************************************************************)
EXTENDS Integers, FiniteSets

CONSTANTS Platforms,       \* the platforms to consider, of "posix" and "nt"
          Descendant,      \* identities of the processes the target may spawn
          root,            \* identity of the process Popen starts
          max_output_bytes, max_total_output_bytes,
          PipeSize,        \* units a pipe holds before its writer blocks
          MaxEmitted       \* bound: units of output written in one run

ASSUME PlatformAssumption == Platforms \subseteq {"posix", "nt"}
ASSUME ProcessAssumption == root \notin Descendant
ASSUME LimitAssumption == /\ max_output_bytes \in Nat /\ max_total_output_bytes \in Nat \ {0}
                          /\ PipeSize \in Nat \ {0} /\ MaxEmitted \in Nat

Proc == {root} \cup Descendant
Stream == {"stdout", "stderr"}

VARIABLES
  platform,
  pc,              \* where the calling thread is
  life,            \* per process: "none", "running", "zombie" (exited) or "gone"
  doomed,          \* processes with a pending kill
  contained,       \* members of the process group (posix) or of the job (nt)
  attached,        \* processes that hold the three inherited pipe ends
  job,             \* "none", "open" or "closed": the Windows job handle
  job_processes,   \* what the job query said: "unasked", "zero", "some" or "error"
  pipe, emitted,   \* per stream: units in the pipe, units ever written
  drain, chunk,    \* per stream: where its drain thread is, and what it just read
  total_bytes, captured, \* per stream: the _StreamAccumulator
  budget,          \* the _OutputBudget: total_bytes and the exceeded event
  stdin_thread,    \* "writing" or "done"
  late,            \* the deadline has passed
  timed_out, termination_requested, infrastructure_error,
  result           \* the ExecutionResult, or NoResult

windows == <<job, job_processes>>
os == <<life, doomed, contained, attached>>
output == <<pipe, emitted>>
threads == <<drain, chunk, total_bytes, captured, budget>>
verdict == <<timed_out, termination_requested, infrastructure_error>>
vars == <<platform, pc, os, windows, output, threads, stdin_thread, late, verdict,
          result>>

Errors == {"SpawnFailure", "WindowsJobError", "OutputLimitExceeded",
           "ProcessTerminationTimeout", "ProcessTreeLeak"}
NoError == "None"
NoResult == [returned |-> FALSE]

SystemTypes ==
  /\ platform \in Platforms
  /\ life \in [Proc -> {"none", "running", "zombie", "gone"}]
  /\ doomed \subseteq Proc /\ contained \subseteq Proc /\ attached \subseteq Proc
  /\ job \in {"none", "open", "closed"}
  /\ job_processes \in {"unasked", "zero", "some", "error"}

StreamTypes ==
  /\ pipe \in [Stream -> 0..PipeSize] /\ emitted \in [Stream -> Nat]
  /\ drain \in [Stream -> {"read", "feed", "keep", "done"}]
  /\ chunk \in [Stream -> 0..PipeSize]
  /\ total_bytes \in [Stream -> Nat] /\ captured \in [Stream -> 0..max_output_bytes]
  /\ budget \in [total_bytes : Nat, exceeded : BOOLEAN]
  /\ stdin_thread \in {"writing", "done"}

CallTypes ==
  /\ pc \in {"launch", "job", "poll", "budget", "deadline", "wait", "wait again", "group",
             "query", "join", "rejoin", "late", "publish", "done"}
  /\ late \in BOOLEAN /\ timed_out \in BOOLEAN /\ termination_requested \in BOOLEAN
  /\ infrastructure_error \in Errors \cup {NoError}

TypeOK == SystemTypes /\ StreamTypes /\ CallTypes

Init ==
  /\ platform \in Platforms /\ pc = "launch"
  /\ life = [p \in Proc |-> "none"]
  /\ doomed = {} /\ contained = {} /\ attached = {} /\ job = "none"
  /\ job_processes = "unasked"
  /\ pipe = [s \in Stream |-> 0] /\ emitted = [s \in Stream |-> 0]
  /\ drain = [s \in Stream |-> "read"] /\ chunk = [s \in Stream |-> 0]
  /\ total_bytes = [s \in Stream |-> 0] /\ captured = [s \in Stream |-> 0]
  /\ budget = [total_bytes |-> 0, exceeded |-> FALSE]
  /\ stdin_thread = "writing" /\ late = FALSE
  /\ timed_out = FALSE /\ termination_requested = FALSE /\ infrastructure_error = NoError
  /\ result = NoResult

Sum(f) == f["stdout"] + f["stderr"]
Launched == pc # "launch" /\ infrastructure_error # "SpawnFailure"
Running == {p \in Proc : life[p] = "running"}

----------------------------------------------------------------------------
(* The target: any program, with any tree of descendants.                  *)

Spawn(p, d) ==
  /\ p \in Running /\ p \notin doomed /\ life[d] = "none"
  /\ life' = [life EXCEPT ![d] = "running"]
  /\ contained' = IF p \in contained THEN contained \cup {d} ELSE contained
  /\ attached' = IF p \in attached THEN attached \cup {d} ELSE attached
  /\ UNCHANGED <<platform, pc, doomed, windows, output, threads, stdin_thread, late, verdict,
                 result>>

\* setsid, the escape the documentation leaves open on POSIX.
NewSession(d) ==
  /\ platform = "posix" /\ d \in Running \ doomed /\ d \in contained /\ d # root
  /\ contained' = contained \ {d}
  /\ UNCHANGED <<platform, pc, life, doomed, attached, windows, output, threads, stdin_thread,
                 late, verdict, result>>

RedirectStdio(p) ==
  /\ p \in Running \ doomed /\ p \in attached
  /\ attached' = attached \ {p}
  /\ UNCHANGED <<platform, pc, life, doomed, contained, windows, output, threads, stdin_thread,
                 late, verdict, result>>

Emit(p, s) ==
  /\ p \in Running \ doomed /\ p \in attached
  /\ pipe[s] < PipeSize /\ Sum(emitted) < MaxEmitted
  /\ pipe' = [pipe EXCEPT ![s] = @ + 1]
  /\ emitted' = [emitted EXCEPT ![s] = @ + 1]
  /\ UNCHANGED <<platform, pc, os, windows, threads, stdin_thread, late, verdict, result>>

\* By itself or killed; the kernel closes what it held.
Exit(p) ==
  /\ p \in Running
  /\ life' = [life EXCEPT ![p] = IF platform = "nt" /\ p # root THEN "gone" ELSE "zombie"]
  /\ attached' = attached \ {p}
  /\ UNCHANGED <<platform, pc, doomed, contained, windows, output, threads, stdin_thread, late,
                 verdict, result>>

\* The parent or init collects a descendant; run_process itself collects the root.
Collect(d) ==
  /\ d # root /\ life[d] = "zombie"
  /\ life' = [life EXCEPT ![d] = "gone"]
  /\ UNCHANGED <<platform, pc, doomed, contained, attached, windows, output, threads,
                 stdin_thread, late, verdict, result>>

DeadlinePasses ==
  /\ pc \notin {"launch", "done"} /\ ~late
  /\ late' = TRUE
  /\ UNCHANGED <<platform, pc, os, windows, output, threads, stdin_thread, verdict, result>>

----------------------------------------------------------------------------
(* The three daemon threads.                                               *)

ThreadsStarted == Launched /\ pc # "job"

\* os.read returns what is there, up to a chunk, or the end of the file once every
\* process that holds the write end is gone.
Read(s) ==
  /\ ThreadsStarted /\ drain[s] = "read"
  /\ \/ /\ pipe[s] > 0
        /\ chunk' = [chunk EXCEPT ![s] = pipe[s]]
        /\ pipe' = [pipe EXCEPT ![s] = 0]
        /\ drain' = [drain EXCEPT ![s] = "feed"]
     \/ /\ pipe[s] = 0 /\ attached = {}
        /\ drain' = [drain EXCEPT ![s] = "done"]
        /\ UNCHANGED <<chunk, pipe>>
  /\ UNCHANGED <<platform, pc, os, windows, emitted, total_bytes, captured, budget,
                 stdin_thread, late, verdict, result>>

account(size) ==
  budget' = [total_bytes |-> budget.total_bytes + size,
             exceeded |-> budget.exceeded
                          \/ budget.total_bytes + size > max_total_output_bytes]

Feed(s) ==
  /\ drain[s] = "feed"
  /\ total_bytes' = [total_bytes EXCEPT ![s] = @ + chunk[s]]
  /\ account(chunk[s])
  /\ drain' = [drain EXCEPT ![s] = "keep"]
  /\ UNCHANGED <<platform, pc, os, windows, output, chunk, captured, stdin_thread, late, verdict,
                 result>>

Least(a, b) == IF a <= b THEN a ELSE b

Keep_Unbounded(s) ==
  /\ drain[s] = "keep"
  /\ captured' = [captured EXCEPT ![s] = @ + chunk[s]]
  /\ drain' = [drain EXCEPT ![s] = "read"]
  /\ UNCHANGED <<platform, pc, os, windows, output, chunk, total_bytes, budget, stdin_thread,
                 late, verdict, result>>
Keep(s) ==
  /\ drain[s] = "keep"
  /\ captured' = [captured EXCEPT ![s] = Least(@ + chunk[s], max_output_bytes)]
  /\ drain' = [drain EXCEPT ![s] = "read"]
  /\ UNCHANGED <<platform, pc, os, windows, output, chunk, total_bytes, budget, stdin_thread,
                 late, verdict, result>>

\* The payload is consumed, or nobody is left to read it and the write fails.
WriteStdin ==
  /\ ThreadsStarted /\ stdin_thread = "writing"
  /\ stdin_thread' = "done"
  /\ UNCHANGED <<platform, pc, os, windows, output, threads, late, verdict, result>>

----------------------------------------------------------------------------
(* What the calling thread asks of the operating system.                   *)

\* process.poll() collects the root if it has exited.
Reaped == [life EXCEPT ![root] = IF @ = "zombie" THEN "gone" ELSE @]

killpg == doomed' = doomed \cup (contained \cap Running)

TerminateJob == job = "open" /\ killpg

\* taskkill walks the tree of a root that still runs and may miss or fail; then
\* Popen.kill() is tried on the root alone, and its failure is ignored.
TaskKill ==
  IF root \in Running THEN \E K \in SUBSET Running : doomed' = doomed \cup K
                      ELSE UNCHANGED doomed

_terminate_process_tree_SkipsExitedRoot(root_may_have_exited) ==
  /\ life' = Reaped
  /\ IF life[root] # "running" THEN UNCHANGED doomed
     ELSE \/ platform = "posix" /\ killpg
          \/ platform = "nt" /\ (TerminateJob \/ TaskKill)
_terminate_process_tree(root_may_have_exited) ==
  /\ life' = Reaped
  /\ IF life[root] # "running" /\ ~root_may_have_exited THEN UNCHANGED doomed
     ELSE \/ platform = "posix" /\ killpg
          \/ platform = "nt" /\ (TerminateJob \/ TaskKill)

\* A signal to a group reaches members that have exited but are not collected yet.
_posix_process_group_survives_root ==
  \E p \in contained : life[p] \in {"running", "zombie"}

_join_io_threads_Any == (\E s \in Stream : drain[s] = "done") /\ stdin_thread = "done"
_join_io_threads == (\A s \in Stream : drain[s] = "done") /\ stdin_thread = "done"

GoTo(label) == pc' = label

Blame(error) ==
  infrastructure_error' =
    IF infrastructure_error = NoError /\ ~timed_out THEN error ELSE infrastructure_error

----------------------------------------------------------------------------
(* The calling thread.                                                     *)

Launch ==
  /\ pc = "launch"
  /\ GoTo(IF platform = "nt" THEN "job" ELSE "poll")
  /\ life' = [life EXCEPT ![root] = "running"]
  /\ contained' = IF platform = "posix" THEN {root} ELSE {}
  /\ attached' = {root}
  /\ UNCHANGED <<platform, doomed, windows, output, threads, stdin_thread, late, verdict, result>>

LaunchFails ==
  /\ pc = "launch" /\ GoTo("done")
  /\ infrastructure_error' = "SpawnFailure"
  /\ result' = [returned |-> TRUE, timed_out |-> FALSE, reaped |-> FALSE,
                infrastructure_error |-> "SpawnFailure",
                captured |-> captured, total_bytes |-> total_bytes]
  /\ UNCHANGED <<platform, os, windows, output, threads, stdin_thread, late, timed_out,
                 termination_requested>>

CreateJob ==
  /\ pc = "job" /\ GoTo("poll")
  /\ root \in Running
  /\ job' = "open" /\ contained' = {root}
  /\ UNCHANGED <<platform, life, doomed, attached, job_processes, output, threads,
                 stdin_thread, late, verdict, result>>

CreateJobFails ==
  /\ pc = "job" /\ GoTo("poll")
  /\ infrastructure_error' = "WindowsJobError" /\ termination_requested' = TRUE
  /\ _terminate_process_tree(FALSE)
  /\ UNCHANGED <<platform, contained, attached, windows, output, threads, stdin_thread, late,
                 timed_out, result>>

Poll ==
  /\ pc = "poll"
  /\ life' = Reaped
  /\ GoTo(IF root \in Running THEN "budget" ELSE "wait")
  /\ UNCHANGED <<platform, doomed, contained, attached, windows, output, threads, stdin_thread,
                 late, verdict, result>>

CheckBudget ==
  /\ pc = "budget"
  /\ IF budget.exceeded
     THEN /\ infrastructure_error' = "OutputLimitExceeded" /\ termination_requested' = TRUE
          /\ _terminate_process_tree(FALSE)
          /\ GoTo("wait")
     ELSE /\ GoTo("deadline")
          /\ UNCHANGED <<infrastructure_error, termination_requested, life, doomed>>
  /\ UNCHANGED <<platform, contained, attached, windows, output, threads, stdin_thread, late,
                 timed_out, result>>

CheckDeadline ==
  /\ pc = "deadline"
  /\ IF late
     THEN /\ timed_out' = TRUE /\ termination_requested' = TRUE
          /\ _terminate_process_tree(FALSE)
          /\ GoTo("wait")
     ELSE /\ GoTo("poll")
          /\ UNCHANGED <<timed_out, termination_requested, life, doomed>>
  /\ UNCHANGED <<platform, contained, attached, windows, output, threads, stdin_thread, late,
                 infrastructure_error, result>>

AfterWait ==
  CASE platform = "posix" -> "group"
    [] platform = "nt"    -> IF job = "open" THEN "query" ELSE "join"

\* Both the unbounded wait of a root that poll() collected and the bounded ones.
Wait ==
  /\ pc \in {"wait", "wait again"} /\ root \notin Running
  /\ life' = Reaped
  /\ GoTo(AfterWait)
  /\ UNCHANGED <<platform, doomed, contained, attached, windows, output, threads, stdin_thread,
                 late, verdict, result>>

\* The first timeout: one direct kill of the root, which may fail.
GiveUpWaiting_Never ==
  /\ pc = "wait" /\ termination_requested /\ root \notin Running
  /\ GoTo("wait again")
  /\ UNCHANGED <<platform, os, windows, output, threads, stdin_thread, late, verdict, result>>
GiveUpWaiting ==
  /\ pc = "wait" /\ termination_requested /\ root \in Running
  /\ GoTo("wait again")
  /\ doomed' \in {doomed, doomed \cup {root}}
  /\ UNCHANGED <<platform, life, contained, attached, windows, output, threads, stdin_thread,
                 late, verdict, result>>

\* The second timeout: this error replaces any other.
GiveUpReaping_Silently ==
  /\ pc = "wait again" /\ root \in Running
  /\ GoTo(AfterWait)
  /\ UNCHANGED <<platform, os, windows, output, threads, stdin_thread, late, verdict, result>>
GiveUpReaping ==
  /\ pc = "wait again" /\ root \in Running
  /\ infrastructure_error' = "ProcessTerminationTimeout"
  /\ GoTo(AfterWait)
  /\ UNCHANGED <<platform, os, windows, output, threads, stdin_thread, late, timed_out,
                 termination_requested, result>>

CheckGroup ==
  /\ pc = "group" /\ GoTo("join")
  /\ IF _posix_process_group_survives_root
     THEN Blame("ProcessTreeLeak") /\ _terminate_process_tree(TRUE)
     ELSE UNCHANGED <<infrastructure_error, life, doomed>>
  /\ UNCHANGED <<platform, contained, attached, windows, output, threads, stdin_thread, late,
                 timed_out, termination_requested, result>>

\* active_processes: zero within the 0.1 s the counter has to settle, or some process,
\* alive or not yet discounted, or the query itself fails.
QueryJobEmpty ==
  /\ pc = "query" /\ GoTo("join")
  /\ contained \cap Running = {}
  /\ job_processes' = "zero"
  /\ UNCHANGED <<platform, os, job, output, threads, stdin_thread, late, verdict, result>>

QueryJob(answer, error) ==
  /\ pc = "query" /\ GoTo("join")
  /\ job_processes' = answer
  /\ Blame(error)
  /\ _terminate_process_tree(TRUE)
  /\ UNCHANGED <<platform, contained, attached, job, output, threads, stdin_thread, late,
                 timed_out, termination_requested, result>>

QueryJobActive == QueryJob("some", "ProcessTreeLeak")
QueryJobFails == QueryJob("error", "WindowsJobError")

JoinThreads ==
  /\ pc = "join" /\ _join_io_threads
  /\ GoTo("late")
  /\ UNCHANGED <<platform, os, windows, output, threads, stdin_thread, late, verdict, result>>

JoinGivesUp ==
  /\ pc = "join" /\ ~_join_io_threads
  /\ Blame("ProcessTreeLeak")
  /\ _terminate_process_tree(TRUE)
  /\ GoTo("rejoin")
  /\ UNCHANGED <<platform, contained, attached, windows, output, threads, stdin_thread, late,
                 timed_out, termination_requested, result>>

\* The outcome of the second join is not looked at.
Rejoin ==
  /\ pc = "rejoin" /\ GoTo("late")
  /\ UNCHANGED <<platform, os, windows, output, threads, stdin_thread, late, verdict, result>>

\* Unlike the other verdicts, this one is also recorded for a run that timed out.
LateBudgetCheck ==
  /\ pc = "late" /\ GoTo("publish")
  /\ infrastructure_error' =
       IF infrastructure_error = NoError /\ budget.exceeded
       THEN "OutputLimitExceeded" ELSE infrastructure_error
  /\ UNCHANGED <<platform, os, windows, output, threads, stdin_thread, late, timed_out,
                 termination_requested, result>>

\* The return code is known iff the root was collected.  Closing the job handle kills
\* what is left in the job.
Publish ==
  /\ pc = "publish" /\ GoTo("done")
  /\ result' = [returned |-> TRUE, timed_out |-> timed_out, reaped |-> life[root] = "gone",
                infrastructure_error |-> infrastructure_error,
                captured |-> captured, total_bytes |-> total_bytes]
  /\ IF job = "open" THEN job' = "closed" /\ killpg ELSE UNCHANGED <<job, doomed>>
  /\ UNCHANGED <<platform, life, contained, attached, job_processes, output, threads,
                 stdin_thread, late, verdict>>

----------------------------------------------------------------------------
Target ==
  \/ \E p \in Proc, d \in Descendant : Spawn(p, d)
  \/ \E d \in Descendant : NewSession(d) \/ Collect(d)
  \/ \E p \in Proc : RedirectStdio(p) \/ Exit(p)
  \/ \E p \in Proc, s \in Stream : Emit(p, s)

Drain(s) == Read(s) \/ Feed(s) \/ Keep(s)

Calling ==
  \/ Launch \/ LaunchFails \/ CreateJob \/ CreateJobFails
  \/ Poll \/ CheckBudget \/ CheckDeadline
  \/ Wait \/ GiveUpWaiting \/ GiveUpReaping
  \/ CheckGroup \/ QueryJobEmpty \/ QueryJobActive \/ QueryJobFails
  \/ JoinThreads \/ JoinGivesUp \/ Rejoin \/ LateBudgetCheck \/ Publish

Returned == pc = "done" /\ UNCHANGED vars

\* The model ends when the call returns.
Next ==
  \/ pc # "done" /\ (Target \/ DeadlinePasses \/ WriteStdin \/ \E s \in Stream : Drain(s))
  \/ Calling
  \/ Returned

Spec == Init /\ [][Next]_vars

\* The scheduler runs the calling thread and time passes; nothing is assumed of the
\* target, of the drain threads or of a kill that never takes effect.
FairSpec == Spec /\ WF_vars(Calling) /\ WF_vars(DeadlinePasses)

----------------------------------------------------------------------------
(* Properties.                                                             *)

\* A result that compare_results compares stream by stream: neither an infrastructure
\* failure nor a timeout.
Comparable ==
  result.returned /\ result.infrastructure_error = NoError /\ ~result.timed_out

\* Output that is compared is never cut short by the races of exit, drain and publication:
\* the result accounts for every unit written, keeps all of it up to the capture limit,
\* and stayed within the aggregate budget.
ComparableOutputIsComplete ==
  pc = "done" /\ Comparable =>
    /\ \A s \in Stream : /\ result.total_bytes[s] = emitted[s]
                         /\ result.captured[s] = Least(emitted[s], max_output_bytes)
    /\ Sum(emitted) <= max_total_output_bytes

\* A run leaves no background workload in its group or job: behind a comparable result no
\* member still runs, behind any other result every member has been killed.
NoMemberSurvives ==
  pc = "done" => /\ contained \cap Running \subseteq doomed
                 /\ Comparable => contained \cap Running = {}

\* A result without a return code always says why: the launch failed or the root could
\* not be reaped.  A timeout alone never hides an unreaped root.
UnreapedRootIsReported ==
  pc = "done" /\ ~result.reaped =>
    result.infrastructure_error \in {"SpawnFailure", "ProcessTerminationTimeout"}

\* run_process returns whatever the target does: never exits, cannot be killed, floods or
\* holds its pipes, leaves descendants that do.
Returns == <>(pc = "done")

\* docs/process-tree-cleanup.md:17 and the docstring of run_process: on Windows an ordinary
\* child is always inside the job, so none outlives an accepted run unnoticed.
WindowsTreeIsContained ==
  platform = "nt" /\ pc = "done" /\ Comparable => Descendant \cap Running = {}

\* docs/process-tree-cleanup.md:7: a job that cannot be queried is an infrastructure failure.
QueryFailureIsReported ==
  pc = "done" /\ job_processes = "error" => result.infrastructure_error # NoError
=============================================================================
