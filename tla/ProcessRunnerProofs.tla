------------------------ MODULE ProcessRunnerProofs ------------------------
(***************************************************************************)
(* The safety properties of ProcessRunner for any set of descendants, any  *)
(* limits and both platforms.                                              *)
(***************************************************************************)
EXTENDS ProcessRunner, TLAPS

Background == Target \/ DeadlinePasses \/ WriteStdin \/ \E s \in Stream : Drain(s)

LEMMA NextCases ==
  ASSUME [Next]_vars
  PROVE  (pc # "done" /\ Background) \/ Calling \/ UNCHANGED vars
BY DEF Next, Background, Returned

LEMMA LeastBound ==
  ASSUME NEW a \in Nat, NEW b \in Nat
  PROVE  Least(a, b) \in 0..b
BY DEF Least

----------------------------------------------------------------------------
(* Types.                                                                  *)

\* What the target, the threads and the clock do to the processes and the streams.
LEMMA BackgroundSystemTypes ==
  ASSUME SystemTypes, Background
  PROVE  SystemTypes'
<1>1. root \in Proc /\ Descendant \subseteq Proc
  BY DEF Proc
<1> USE <1>1 DEF SystemTypes, os, windows, Running
<1>2. ASSUME NEW p \in Proc, NEW d \in Descendant, Spawn(p, d) PROVE SystemTypes'
  BY <1>2 DEF Spawn
<1>3. ASSUME NEW d \in Descendant, NewSession(d) \/ Collect(d) PROVE SystemTypes'
  BY <1>3 DEF NewSession, Collect
<1>4. ASSUME NEW p \in Proc, RedirectStdio(p) \/ Exit(p) PROVE SystemTypes'
  BY <1>4 DEF RedirectStdio, Exit
<1>5. ASSUME NEW p \in Proc, NEW s \in Stream, Emit(p, s) PROVE SystemTypes'
  BY <1>5 DEF Emit
<1>6. ASSUME NEW s \in Stream, Drain(s) PROVE SystemTypes'
  BY <1>6 DEF Drain, Read, Feed, Keep
<1>7. CASE DeadlinePasses \/ WriteStdin
  BY <1>7 DEF DeadlinePasses, WriteStdin
<1> QED BY <1>2, <1>3, <1>4, <1>5, <1>6, <1>7 DEF Background, Target

LEMMA BackgroundStreamTypes ==
  ASSUME StreamTypes, Background
  PROVE  StreamTypes'
<1> USE LimitAssumption DEF StreamTypes, output, threads
<1>1. CASE Target
  <2>1. ASSUME NEW p \in Proc, NEW s \in Stream, Emit(p, s) PROVE StreamTypes'
    BY <2>1 DEF Emit
  <2>2. ASSUME NEW p \in Proc, NEW d \in Descendant, Spawn(p, d) PROVE StreamTypes'
    BY <2>2 DEF Spawn
  <2>3. ASSUME NEW d \in Descendant, NewSession(d) \/ Collect(d) PROVE StreamTypes'
    BY <2>3 DEF NewSession, Collect
  <2>4. ASSUME NEW p \in Proc, RedirectStdio(p) \/ Exit(p) PROVE StreamTypes'
    BY <2>4 DEF RedirectStdio, Exit
  <2> QED BY <1>1, <2>1, <2>2, <2>3, <2>4 DEF Target
<1>2. ASSUME NEW s \in Stream, Read(s) PROVE StreamTypes'
  BY <1>2 DEF Read
<1>3. ASSUME NEW s \in Stream, Feed(s) PROVE StreamTypes'
  BY <1>3 DEF Feed, account
<1>4. ASSUME NEW s \in Stream, Keep(s) PROVE StreamTypes'
  <2>1. captured[s] + chunk[s] \in Nat
    OBVIOUS
  <2>2. Least(captured[s] + chunk[s], max_output_bytes) \in 0..max_output_bytes
    BY <2>1, LeastBound
  <2> QED BY <1>4, <2>2 DEF Keep
<1>5. CASE DeadlinePasses \/ WriteStdin
  BY <1>5 DEF DeadlinePasses, WriteStdin
<1> QED BY <1>1, <1>2, <1>3, <1>4, <1>5 DEF Background, Drain

LEMMA BackgroundCallTypes ==
  ASSUME CallTypes, Background
  PROVE  CallTypes'
<1>1. /\ UNCHANGED <<pc, verdict>>
      /\ late' = late \/ late' = TRUE
  BY DEF Background, Target, Drain, Spawn, NewSession, Collect, RedirectStdio, Exit, Emit,
     Read, Feed, Keep, DeadlinePasses, WriteStdin
<1> QED BY <1>1 DEF CallTypes, verdict, Errors, NoError

\* _terminate_process_tree collects the root and marks processes killed, nothing else.
LEMMA TerminateTypes ==
  ASSUME SystemTypes, NEW flag \in BOOLEAN, _terminate_process_tree(flag)
  PROVE  /\ life' = Reaped /\ life' \in [Proc -> {"none", "running", "zombie", "gone"}]
         /\ doomed' \subseteq Proc /\ doomed \subseteq doomed'
         /\ platform = "posix" /\ flag => contained \cap Running \subseteq doomed'
<1>1. life' = Reaped
  BY DEF _terminate_process_tree
<1>2. Reaped \in [Proc -> {"none", "running", "zombie", "gone"}]
  BY DEF Reaped, SystemTypes
<1>3. \/ doomed' = doomed
      \/ doomed' = doomed \cup (contained \cap Running)
      \/ \E K \in SUBSET Running : doomed' = doomed \cup K
  BY DEF _terminate_process_tree, killpg, TerminateJob, TaskKill
<1>4. doomed' \subseteq Proc /\ doomed \subseteq doomed'
  BY <1>3 DEF SystemTypes, Running
<1>5. platform = "posix" /\ flag => contained \cap Running \subseteq doomed'
  BY DEF _terminate_process_tree, killpg
<1> QED BY <1>1, <1>2, <1>4, <1>5

LEMMA CallingSystemTypes ==
  ASSUME SystemTypes, Calling
  PROVE  SystemTypes'
<1>1. root \in Proc
  BY DEF Proc
<1>2. Reaped \in [Proc -> {"none", "running", "zombie", "gone"}]
  BY DEF Reaped, SystemTypes
<1> USE <1>1 DEF SystemTypes, os, windows
<1>3. CASE Launch
  BY <1>3 DEF Launch
<1>4. CASE CreateJob
  BY <1>4 DEF CreateJob
<1>5. CASE CreateJobFails
  BY <1>5, TerminateTypes DEF CreateJobFails
<1>6. CASE Poll \/ Wait
  BY <1>2, <1>6 DEF Poll, Wait
<1>7. CASE CheckBudget
  BY <1>7, TerminateTypes DEF CheckBudget
<1>8. CASE CheckDeadline
  BY <1>8, TerminateTypes DEF CheckDeadline
<1>9. CASE GiveUpWaiting
  BY <1>9 DEF GiveUpWaiting
<1>10. CASE CheckGroup
  BY <1>10, TerminateTypes DEF CheckGroup
<1>11. CASE QueryJobActive \/ QueryJobFails
  BY <1>11, TerminateTypes DEF QueryJobActive, QueryJobFails, QueryJob
<1>12. CASE JoinGivesUp
  BY <1>12, TerminateTypes DEF JoinGivesUp
<1>13. CASE Publish
  BY <1>13 DEF Publish, killpg, Running
<1>14. CASE QueryJobEmpty
  BY <1>14 DEF QueryJobEmpty
<1>15. CASE LaunchFails \/ GiveUpReaping \/ JoinThreads \/ Rejoin \/ LateBudgetCheck
  BY <1>15 DEF LaunchFails, GiveUpReaping, JoinThreads, Rejoin, LateBudgetCheck
<1> QED BY <1>3, <1>4, <1>5, <1>6, <1>7, <1>8, <1>9, <1>10, <1>11, <1>12, <1>13, <1>14, <1>15
        DEF Calling

LEMMA CallingStreamTypes ==
  ASSUME StreamTypes, Calling
  PROVE  StreamTypes'
<1> USE DEF StreamTypes, output, threads
<1>1. CASE Launch \/ LaunchFails \/ CreateJob \/ CreateJobFails
  BY <1>1 DEF Launch, LaunchFails, CreateJob, CreateJobFails
<1>2. CASE Poll \/ CheckBudget \/ CheckDeadline
  BY <1>2 DEF Poll, CheckBudget, CheckDeadline
<1>3. CASE Wait \/ GiveUpWaiting \/ GiveUpReaping
  BY <1>3 DEF Wait, GiveUpWaiting, GiveUpReaping
<1>4. CASE CheckGroup \/ QueryJobEmpty \/ QueryJobActive \/ QueryJobFails
  BY <1>4 DEF CheckGroup, QueryJobEmpty, QueryJobActive, QueryJobFails, QueryJob
<1>5. CASE JoinThreads \/ JoinGivesUp \/ Rejoin \/ LateBudgetCheck \/ Publish
  BY <1>5 DEF JoinThreads, JoinGivesUp, Rejoin, LateBudgetCheck, Publish
<1> QED BY <1>1, <1>2, <1>3, <1>4, <1>5 DEF Calling

LEMMA CallingCallTypes ==
  ASSUME CallTypes, SystemTypes, Calling
  PROVE  CallTypes'
<1> USE DEF CallTypes, verdict, Errors, NoError, GoTo
<1>1. CASE Launch \/ LaunchFails \/ CreateJob \/ CreateJobFails
  BY <1>1 DEF Launch, LaunchFails, CreateJob, CreateJobFails
<1>2. CASE Poll \/ CheckBudget \/ CheckDeadline
  BY <1>2 DEF Poll, CheckBudget, CheckDeadline
<1>3. AfterWait \in {"group", "query", "join"}
  BY PlatformAssumption DEF AfterWait, SystemTypes
<1>4. CASE Wait \/ GiveUpWaiting \/ GiveUpReaping
  BY <1>3, <1>4 DEF Wait, GiveUpWaiting, GiveUpReaping
<1>5. CASE CheckGroup \/ QueryJobEmpty \/ QueryJobActive \/ QueryJobFails
  BY <1>5 DEF CheckGroup, QueryJobEmpty, QueryJobActive, QueryJobFails, QueryJob, Blame
<1>6. CASE JoinThreads \/ JoinGivesUp \/ Rejoin \/ LateBudgetCheck \/ Publish
  BY <1>6 DEF JoinThreads, JoinGivesUp, Rejoin, LateBudgetCheck, Publish, Blame
<1> QED BY <1>1, <1>2, <1>4, <1>5, <1>6 DEF Calling

\* Every variable of a run keeps its type.
THEOREM TypeCorrect == Spec => []TypeOK
<1>1. Init => TypeOK
  <2> SUFFICES ASSUME Init PROVE TypeOK
      OBVIOUS
  <2>1. SystemTypes
    BY DEF Init, SystemTypes
  <2>2. StreamTypes
    BY LimitAssumption DEF Init, StreamTypes
  <2>3. CallTypes
    BY DEF Init, CallTypes, NoError
  <2> QED BY <2>1, <2>2, <2>3 DEF TypeOK
<1>2. TypeOK /\ [Next]_vars => TypeOK'
  <2> SUFFICES ASSUME TypeOK, [Next]_vars PROVE TypeOK'
      OBVIOUS
  <2>1. CASE Background
    BY <2>1, BackgroundSystemTypes, BackgroundStreamTypes, BackgroundCallTypes DEF TypeOK
  <2>2. CASE Calling
    BY <2>2, CallingSystemTypes, CallingStreamTypes, CallingCallTypes DEF TypeOK
  <2>3. CASE UNCHANGED vars
    <3>1. SystemTypes' /\ StreamTypes'
      BY <2>3 DEF TypeOK, vars, os, windows, output, threads, SystemTypes, StreamTypes
    <3>2. CallTypes'
      BY <2>3 DEF TypeOK, vars, verdict, CallTypes, Errors, NoError
    <3> QED BY <3>1, <3>2 DEF TypeOK
  <2> QED BY <2>1, <2>2, <2>3, NextCases
<1> QED BY <1>1, <1>2, PTL DEF Spec

----------------------------------------------------------------------------
(* No member of the group or job survives.  The invariant follows the       *)
(* calling thread: past the group check or the job query (Settled), a run   *)
(* that is neither blamed nor late has an empty group or job, and on POSIX  *)
(* whoever is left has been killed.  A member that is not killed could      *)
(* still spawn members; an empty or killed group cannot grow.               *)

Settled == {"join", "rejoin", "late", "publish", "done"}

Members == contained \cap Running

Containment ==
  /\ platform = "posix" => job = "none"
  /\ platform = "nt" /\ job = "none" => contained = {}
  /\ pc \in {"job", "query"} => platform = "nt"
  /\ job = "closed" => pc = "done"
  /\ pc = "launch" => contained = {} /\ job = "none" /\ ~timed_out
  /\ \A p \in contained : life[p] # "none"
  /\ pc \in Settled /\ platform = "posix" => Members \subseteq doomed
  /\ pc \in Settled /\ infrastructure_error = NoError /\ ~timed_out => Members = {}
  /\ pc = "done" => /\ Members \subseteq doomed
                    /\ result.infrastructure_error = infrastructure_error
                    /\ result.timed_out = timed_out

LEMMA ContainmentBackground ==
  ASSUME TypeOK, Containment, pc # "done", Background
  PROVE  Containment'
<1>1. UNCHANGED <<platform, pc, verdict, result, doomed, job>>
  BY DEF Background, Target, Drain, Spawn, NewSession, Collect, RedirectStdio, Exit, Emit,
     Read, Feed, Keep, DeadlinePasses, WriteStdin, windows, os
<1>2. /\ Members' \subseteq Members \/ \E p \in Members \ doomed : TRUE
      /\ contained = {} => contained' = {}
      /\ \A p \in contained' : life'[p] # "none"
  <2> USE DEF Members, Running, TypeOK, SystemTypes, Containment
  <2>1. ASSUME NEW p \in Proc, NEW d \in Descendant, Spawn(p, d)
        PROVE  /\ Members' \subseteq Members \/ \E q \in Members \ doomed : TRUE
               /\ contained = {} => contained' = {}
               /\ \A q \in contained' : life'[q] # "none"
    BY <2>1 DEF Spawn, Proc
  <2>2. ASSUME NEW d \in Descendant, NewSession(d) \/ Collect(d)
        PROVE  /\ Members' \subseteq Members /\ (contained = {} => contained' = {})
               /\ \A q \in contained' : life'[q] # "none"
    BY <2>2 DEF NewSession, Collect
  <2>3. ASSUME NEW p \in Proc, RedirectStdio(p) \/ Exit(p)
        PROVE  /\ Members' \subseteq Members /\ (contained = {} => contained' = {})
               /\ \A q \in contained' : life'[q] # "none"
    BY <2>3 DEF RedirectStdio, Exit
  <2>4. ASSUME UNCHANGED os
        PROVE  /\ Members' \subseteq Members /\ (contained = {} => contained' = {})
               /\ \A q \in contained' : life'[q] # "none"
    BY <2>4 DEF os
  <2>5. ASSUME NEW s \in Stream, Drain(s) PROVE UNCHANGED os
    BY <2>5 DEF Drain, Read, Feed, Keep
  <2>6. ASSUME NEW p \in Proc, NEW s \in Stream, Emit(p, s) PROVE UNCHANGED os
    BY <2>6 DEF Emit
  <2>7. DeadlinePasses \/ WriteStdin => UNCHANGED os
    BY DEF DeadlinePasses, WriteStdin
  <2> QED BY <2>1, <2>2, <2>3, <2>4, <2>5, <2>6, <2>7 DEF Background, Target
<1> QED BY <1>1, <1>2 DEF Containment, verdict, NoError, Settled

LEMMA ContainmentCalling ==
  ASSUME TypeOK, Containment, Calling
  PROVE  Containment'
<1> USE DEF TypeOK, Containment, Settled, GoTo, NoError
<1> DEFINE Quiet == UNCHANGED <<platform, contained, job>> /\ Members' \subseteq Members
                    /\ doomed \subseteq doomed' /\ \A p \in contained' : life'[p] # "none"
<1>1. \A l : l = Reaped => /\ {p \in Proc : l[p] = "running"} = Running
                          /\ \A p \in contained : l[p] # "none"
  BY DEF Reaped, Running, SystemTypes
<1>2. CASE Launch
  BY <1>2, PlatformAssumption DEF Launch, SystemTypes, windows, verdict, Proc
<1>3. CASE LaunchFails
  <2>1. Quiet /\ contained = {} /\ UNCHANGED <<timed_out, doomed>> /\ ~timed_out
    BY <1>3 DEF LaunchFails, Members, Running, os, windows
  <2>2. /\ pc = "launch" /\ pc' = "done" /\ infrastructure_error' = "SpawnFailure"
        /\ result'.infrastructure_error = "SpawnFailure"
        /\ result'.timed_out = FALSE /\ timed_out' = FALSE
    BY <1>3 DEF LaunchFails, CallTypes
  <2>3. Members' = {}
    BY <2>1 DEF Members
  <2> QED BY <2>1, <2>2, <2>3
<1>4. CASE CreateJob
  BY <1>4 DEF CreateJob, SystemTypes, Running, verdict
<1>5. CASE CreateJobFails
  <2>1. Quiet
    BY <1>1, <1>5, TerminateTypes DEF CreateJobFails, windows, Members, Running
  <2> QED BY <1>5, <2>1 DEF CreateJobFails
<1>6. CASE Poll
  <2>1. Quiet
    BY <1>1, <1>6 DEF Poll, windows, Members, Running
  <2> QED BY <1>6, <2>1 DEF Poll
<1>7. CASE CheckBudget
  <2>1. Quiet
    BY <1>1, <1>7, TerminateTypes DEF CheckBudget, windows, Members, Running
  <2> QED BY <1>7, <2>1 DEF CheckBudget
<1>8. CASE CheckDeadline
  <2>1. Quiet
    BY <1>1, <1>8, TerminateTypes DEF CheckDeadline, windows, Members, Running
  <2> QED BY <1>8, <2>1 DEF CheckDeadline
<1>9. CASE Wait
  <2>1. Quiet
    BY <1>1, <1>9 DEF Wait, windows, Members, Running
  <2>2. pc' \in Settled => Members' = {} /\ platform = "nt"
    BY <1>9, <2>1, PlatformAssumption DEF Wait, AfterWait, SystemTypes, Members
  <2> QED BY <1>9, <2>1, <2>2, PlatformAssumption DEF Wait, AfterWait, SystemTypes, verdict
<1>10. CASE GiveUpWaiting
  <2>1. Quiet
    BY <1>10 DEF GiveUpWaiting, windows, Members, Running
  <2> QED BY <1>10, <2>1 DEF GiveUpWaiting
<1>11. CASE GiveUpReaping
  <2>1. Quiet
    BY <1>11 DEF GiveUpReaping, windows, os, Members, Running
  <2>2. pc' \in Settled => Members' = {} /\ platform = "nt"
    BY <1>11, <2>1, PlatformAssumption DEF GiveUpReaping, AfterWait, SystemTypes, Members
  <2>3. infrastructure_error' # NoError /\ pc' \in {"group", "query", "join"}
    BY <1>11, PlatformAssumption DEF GiveUpReaping, AfterWait, SystemTypes
  <2>4. pc' = "query" => platform = "nt"
    BY <1>11, PlatformAssumption DEF GiveUpReaping, AfterWait, SystemTypes
  <2>5. pc = "wait again" /\ pc' # "done" /\ UNCHANGED doomed
    BY <1>11, <2>3 DEF GiveUpReaping, os
  <2> QED BY <2>1, <2>2, <2>3, <2>4, <2>5
<1>12. CASE CheckGroup
  <2>1. Quiet /\ UNCHANGED timed_out
    BY <1>1, <1>12, TerminateTypes DEF CheckGroup, windows, Members, Running
  <2>2. CASE _posix_process_group_survives_root
    <3>1. platform = "posix" => Members \subseteq doomed'
      BY <1>12, <2>2, TerminateTypes DEF CheckGroup, Members
    <3>2. infrastructure_error' # NoError \/ timed_out'
      BY <1>12, <2>2 DEF CheckGroup, Blame
    <3> QED BY <1>12, <2>1, <3>1, <3>2 DEF CheckGroup
  <2>3. CASE ~_posix_process_group_survives_root
    <3>1. Members = {}
      BY <2>3 DEF _posix_process_group_survives_root, Members, Running
    <3> QED BY <1>12, <2>1, <3>1 DEF CheckGroup
  <2> QED BY <2>2, <2>3
<1>13. CASE QueryJobEmpty
  <2>1. Quiet /\ Members = {}
    BY <1>13 DEF QueryJobEmpty, os, Members, Running
  <2> QED BY <1>13, <2>1 DEF QueryJobEmpty
<1>14. CASE QueryJobActive \/ QueryJobFails
  <2>1. Quiet /\ UNCHANGED timed_out /\ pc = "query" /\ pc' = "join"
    BY <1>1, <1>14, TerminateTypes DEF QueryJobActive, QueryJobFails, QueryJob, Members, Running
  <2>2. infrastructure_error' # NoError \/ timed_out'
    <3>1. CASE QueryJobActive
      BY <2>1, <3>1 DEF QueryJobActive, QueryJob, Blame
    <3>2. CASE QueryJobFails
      BY <2>1, <3>2 DEF QueryJobFails, QueryJob, Blame
    <3> QED BY <1>14, <3>1, <3>2
  <2> QED BY <2>1, <2>2
<1>15. CASE JoinGivesUp
  <2>1. Quiet /\ UNCHANGED timed_out
    BY <1>1, <1>15, TerminateTypes DEF JoinGivesUp, windows, Members, Running
  <2>2. infrastructure_error' = NoError => infrastructure_error = NoError
    BY <1>15 DEF JoinGivesUp, Blame
  <2> QED BY <1>15, <2>1, <2>2 DEF JoinGivesUp
<1>16. CASE JoinThreads \/ Rejoin
  <2>1. Quiet /\ UNCHANGED <<verdict, doomed>>
    BY <1>16 DEF JoinThreads, Rejoin, windows, os, Members, Running
  <2> QED BY <1>16, <2>1 DEF JoinThreads, Rejoin, verdict
<1>17. CASE LateBudgetCheck
  <2>1. Quiet /\ UNCHANGED <<doomed, timed_out>>
    BY <1>17 DEF LateBudgetCheck, windows, os, Members, Running
  <2>2. infrastructure_error' = NoError => infrastructure_error = NoError
    BY <1>17 DEF LateBudgetCheck
  <2> QED BY <1>17, <2>1, <2>2 DEF LateBudgetCheck
<1>18. CASE Publish
  <2>1. /\ UNCHANGED <<platform, contained, verdict>> /\ Members' = Members
        /\ doomed \subseteq doomed' /\ \A p \in contained' : life'[p] # "none"
    BY <1>18 DEF Publish, killpg, Members, Running
  <2>2. Members' \subseteq doomed'
    <3>1. CASE job = "open"
      BY <1>18, <2>1, <3>1 DEF Publish, killpg, Members
    <3>2. CASE job # "open"
      BY <1>18, <2>1, <3>2, PlatformAssumption DEF Publish, SystemTypes, Members
    <3> QED BY <3>1, <3>2
  <2>3. job' = "closed" => pc' = "done"
    BY <1>18 DEF Publish
  <2>4. job' = "none" <=> job = "none"
    BY <1>18 DEF Publish, SystemTypes
  <2> QED BY <1>18, <2>1, <2>2, <2>3, <2>4 DEF Publish, verdict
<1> QED BY <1>2, <1>3, <1>4, <1>5, <1>6, <1>7, <1>8, <1>9, <1>10, <1>11, <1>12, <1>13, <1>14,
           <1>15, <1>16, <1>17, <1>18 DEF Calling

\* Behind a comparable result no member of the group or job runs; behind any result every
\* member has been killed.
THEOREM NoMemberEverSurvives == Spec => []NoMemberSurvives
<1>1. Init => Containment
  BY DEF Init, Containment, Settled, NoError
<1>2. TypeOK /\ Containment /\ [Next]_vars => Containment'
  <2> SUFFICES ASSUME TypeOK, Containment, [Next]_vars PROVE Containment'
      OBVIOUS
  <2>1. CASE UNCHANGED vars
    BY <2>1 DEF vars, os, windows, verdict, Containment, Members, Running, Settled, NoError
  <2> QED BY <2>1, ContainmentBackground, ContainmentCalling, NextCases
<1>3. Containment => NoMemberSurvives
  BY DEF Containment, NoMemberSurvives, Members, Comparable, Settled
<1> QED BY <1>1, <1>2, <1>3, TypeCorrect, PTL DEF Spec

----------------------------------------------------------------------------
(* An unreaped root is reported.                                           *)

Reaping ==
  /\ pc \notin {"launch", "done"} => life[root] # "none"
  /\ pc \in {"group", "query", "join", "rejoin", "late", "publish"} =>
       life[root] = "gone" \/ infrastructure_error = "ProcessTerminationTimeout"
  /\ UnreapedRootIsReported

LEMMA ReapingBackground ==
  ASSUME TypeOK, Reaping, pc # "done", Background
  PROVE  Reaping'
<1> USE ProcessAssumption DEF TypeOK, SystemTypes, Proc, Running
<1>1. UNCHANGED <<pc, verdict, result>>
  BY DEF Background, Target, Drain, Spawn, NewSession, Collect, RedirectStdio, Exit, Emit,
     Read, Feed, Keep, DeadlinePasses, WriteStdin
<1>2. /\ life[root] = "gone" => life'[root] = "gone"
      /\ life[root] # "none" => life'[root] # "none"
  <2>1. ASSUME NEW q \in Proc, NEW d \in Descendant, Spawn(q, d) PROVE <1>2
    BY <2>1 DEF Spawn
  <2>2. ASSUME NEW d \in Descendant, NewSession(d) \/ Collect(d) PROVE <1>2
    BY <2>2 DEF NewSession, Collect
  <2>3. ASSUME NEW q \in Proc, RedirectStdio(q) \/ Exit(q) PROVE <1>2
    BY <2>3 DEF RedirectStdio, Exit
  <2>4. ASSUME NEW s \in Stream, Drain(s) PROVE <1>2
    BY <2>4 DEF Drain, Read, Feed, Keep, os
  <2>5. ASSUME NEW q \in Proc, NEW s \in Stream, Emit(q, s) PROVE <1>2
    BY <2>5 DEF Emit, os
  <2>6. CASE DeadlinePasses \/ WriteStdin
    BY <2>6 DEF DeadlinePasses, WriteStdin, os
  <2> QED BY <2>1, <2>2, <2>3, <2>4, <2>5, <2>6 DEF Background, Target
<1> QED BY <1>1, <1>2 DEF Reaping, UnreapedRootIsReported, verdict

LEMMA ReapingCalling ==
  ASSUME TypeOK, Reaping, Calling
  PROVE  Reaping'
<1>1. /\ life[root] = "gone" => Reaped[root] = "gone"
      /\ life[root] \notin {"none", "running"} => Reaped[root] = "gone"
      /\ life[root] # "none" => Reaped[root] # "none"
  BY DEF TypeOK, SystemTypes, Reaped, Proc
<1>2. root \in Running <=> life[root] = "running"
  BY DEF Running, Proc
<1>3. AfterWait \in {"group", "query", "join"}
  BY PlatformAssumption DEF AfterWait, TypeOK, SystemTypes
<1>4. ASSUME NEW flag \in BOOLEAN, _terminate_process_tree(flag) PROVE life' = Reaped
  BY <1>4 DEF _terminate_process_tree
<1> USE DEF Reaping, UnreapedRootIsReported, GoTo, NoError
<1>5. CASE Launch \/ LaunchFails
  BY <1>5 DEF Launch, LaunchFails, TypeOK, SystemTypes, Proc
<1>6. CASE CreateJob \/ CreateJobFails \/ Poll
  BY <1>1, <1>4, <1>6 DEF CreateJob, CreateJobFails, Poll
<1>7. CASE CheckBudget \/ CheckDeadline
  BY <1>1, <1>4, <1>7 DEF CheckBudget, CheckDeadline
<1>8. CASE Wait
  BY <1>1, <1>2, <1>3, <1>8 DEF Wait
<1>9. CASE GiveUpWaiting \/ GiveUpReaping
  BY <1>3, <1>9 DEF GiveUpWaiting, GiveUpReaping, os
<1>10. CASE CheckGroup
  BY <1>1, <1>4, <1>10 DEF CheckGroup, Blame
<1>11. CASE QueryJobEmpty \/ QueryJobActive \/ QueryJobFails
  BY <1>1, <1>4, <1>11 DEF QueryJobEmpty, QueryJobActive, QueryJobFails, QueryJob, Blame, os,
     verdict
<1>12. CASE JoinThreads \/ Rejoin
  BY <1>12 DEF JoinThreads, Rejoin, os, verdict
<1>13. CASE JoinGivesUp
  BY <1>1, <1>4, <1>13 DEF JoinGivesUp, Blame
<1>14. CASE LateBudgetCheck
  BY <1>14 DEF LateBudgetCheck, os
<1>15. CASE Publish
  BY <1>15 DEF Publish, verdict
<1> QED BY <1>5, <1>6, <1>7, <1>8, <1>9, <1>10, <1>11, <1>12, <1>13, <1>14,
           <1>15 DEF Calling

\* A result without a return code always says why.
THEOREM UnreapedRootsAreReported == Spec => []UnreapedRootIsReported
<1>1. Init => Reaping
  BY DEF Init, Reaping, UnreapedRootIsReported
<1>2. TypeOK /\ Reaping /\ [Next]_vars => Reaping'
  <2> SUFFICES ASSUME TypeOK, Reaping, [Next]_vars PROVE Reaping'
      OBVIOUS
  <2>1. CASE UNCHANGED vars
    BY <2>1 DEF vars, os, verdict, Reaping, UnreapedRootIsReported
  <2> QED BY <2>1, ReapingBackground, ReapingCalling, NextCases
<1>3. Reaping => UnreapedRootIsReported
  BY DEF Reaping
<1> QED BY <1>1, <1>2, <1>3, TypeCorrect, PTL DEF Spec

----------------------------------------------------------------------------
(* Output that is compared is complete.  At every step each unit written   *)
(* is in the pipe, in the hands of its drain thread, or counted, and what  *)
(* is kept is what was counted up to the capture limit.  A thread that is  *)
(* done has seen the end of its stream, and then nobody can write to it.   *)

Uncounted(s) == IF drain[s] = "feed" THEN chunk[s] ELSE 0
Unkept(s) == IF drain[s] = "keep" THEN chunk[s] ELSE 0

StreamAccount(s) ==
  /\ emitted[s] = total_bytes[s] + pipe[s] + Uncounted(s)
  /\ Unkept(s) <= total_bytes[s]
  /\ captured[s] = Least(total_bytes[s] - Unkept(s), max_output_bytes)
  /\ drain[s] = "done" => pipe[s] = 0 /\ attached = {} /\ pc # "launch"

BudgetAccount ==
  /\ budget.total_bytes = Sum(total_bytes)
  /\ budget.exceeded = (budget.total_bytes > max_total_output_bytes)

Accounting == (\A s \in Stream : StreamAccount(s)) /\ BudgetAccount

Drained == \A s \in Stream : drain[s] = "done"

\* What a run with nothing to report has behind it: both streams drained, within budget.
Clearance ==
  /\ infrastructure_error = NoError /\ ~timed_out =>
       /\ pc # "rejoin"
       /\ pc \in {"late", "publish"} => Drained
       /\ pc = "publish" => ~budget.exceeded
  /\ ComparableOutputIsComplete

LEMMA Unchanged ==
  ASSUME Accounting, UNCHANGED <<pc, os, output, threads>>
  PROVE  Accounting'
BY DEF os, output, threads, Accounting, StreamAccount, BudgetAccount, Uncounted, Unkept, Sum

\* The target writes to a pipe, or changes who may.
LEMMA AccountingTarget ==
  ASSUME TypeOK, Accounting, Target
  PROVE  Accounting'
<1> USE DEF TypeOK, SystemTypes, StreamTypes
<1>1. UNCHANGED <<threads, pc>>
  BY DEF Target, Spawn, NewSession, Collect, RedirectStdio, Exit, Emit
<1>2. BudgetAccount'
  BY <1>1 DEF Accounting, BudgetAccount, Sum, threads
<1>3. ASSUME UNCHANGED output, attached = {} => attached' = {}
      PROVE  \A s \in Stream : StreamAccount(s)'
  BY <1>1, <1>3 DEF Accounting, StreamAccount, Uncounted, Unkept, threads, output
<1>4. ASSUME NEW p \in Proc, NEW t \in Stream, Emit(p, t)
      PROVE  \A s \in Stream : StreamAccount(s)'
  <2> TAKE s \in Stream
  <2>1. StreamAccount(s) /\ attached # {} /\ attached' = attached
    BY <1>4 DEF Accounting, Emit, os
  <2>2. emitted'[s] - pipe'[s] = emitted[s] - pipe[s]
    BY <1>4 DEF Emit
  <2>3. emitted'[s] \in Nat /\ pipe'[s] \in Nat
    BY <1>4 DEF Emit
  <2> QED BY <1>1, <2>1, <2>2, <2>3 DEF StreamAccount, Uncounted, Unkept, threads
<1>5. CASE \E p \in Proc, d \in Descendant : Spawn(p, d)
  BY <1>2, <1>3, <1>5 DEF Spawn, Accounting
<1>6. CASE \E d \in Descendant : NewSession(d) \/ Collect(d)
  BY <1>2, <1>3, <1>6 DEF NewSession, Collect, Accounting
<1>7. CASE \E p \in Proc : RedirectStdio(p) \/ Exit(p)
  BY <1>2, <1>3, <1>7 DEF RedirectStdio, Exit, Accounting
<1> QED BY <1>2, <1>4, <1>5, <1>6, <1>7 DEF Target, Accounting

LEMMA AccountingDrain ==
  ASSUME TypeOK, Accounting, NEW t \in Stream, Drain(t)
  PROVE  Accounting'
<1> USE LimitAssumption DEF TypeOK, StreamTypes
<1>1. StreamAccount(t) /\ BudgetAccount
  BY DEF Accounting
<1>2. CASE Read(t)
  <2>1. UNCHANGED <<emitted, total_bytes, captured, budget, attached, pc>> /\ pc # "launch"
    BY <1>2 DEF Read, os, ThreadsStarted, Launched
  <2>2. StreamAccount(t)'
    BY <1>1, <1>2, <2>1 DEF Read, StreamAccount, Uncounted, Unkept
  <2>3. ASSUME NEW s \in Stream, s # t PROVE StreamAccount(s)'
    BY <1>2, <2>1, <2>3 DEF Read, Accounting, StreamAccount, Uncounted, Unkept
  <2> QED BY <1>1, <2>1, <2>2, <2>3 DEF Accounting, BudgetAccount, Sum
<1>3. CASE Feed(t)
  <2>1. UNCHANGED <<emitted, pipe, chunk, captured, attached, pc>>
    BY <1>3 DEF Feed, os, output
  <2>2. StreamAccount(t)'
    BY <1>1, <1>3, <2>1 DEF Feed, StreamAccount, Uncounted, Unkept
  <2>3. ASSUME NEW s \in Stream, s # t PROVE StreamAccount(s)'
    BY <1>3, <2>1, <2>3 DEF Feed, Accounting, StreamAccount, Uncounted, Unkept
  <2>4. BudgetAccount'
    <3>1. Sum(total_bytes') = Sum(total_bytes) + chunk[t]
      BY <1>3 DEF Feed, Sum, Stream
    <3>2. /\ budget'.total_bytes = budget.total_bytes + chunk[t]
          /\ budget'.exceeded = (budget.exceeded
                                 \/ budget.total_bytes + chunk[t] > max_total_output_bytes)
      BY <1>3 DEF Feed, account
    <3>3. budget.total_bytes \in Nat /\ chunk[t] \in Nat
      OBVIOUS
    <3> QED BY <1>1, <3>1, <3>2, <3>3 DEF BudgetAccount
  <2> QED BY <2>2, <2>3, <2>4 DEF Accounting
<1>4. CASE Keep(t)
  <2>1. UNCHANGED <<emitted, pipe, chunk, total_bytes, budget, attached, pc>>
    BY <1>4 DEF Keep, os, output
  <2>2. StreamAccount(t)'
    <3>1. /\ drain[t] = "keep" /\ drain'[t] = "read"
          /\ captured'[t] = Least(captured[t] + chunk[t], max_output_bytes)
      BY <1>4 DEF Keep
    <3>2. captured'[t] = Least(total_bytes[t], max_output_bytes)
      BY <1>1, <3>1 DEF StreamAccount, Unkept, Least
    <3> QED BY <1>1, <2>1, <3>1, <3>2 DEF StreamAccount, Uncounted, Unkept
  <2>3. ASSUME NEW s \in Stream, s # t PROVE StreamAccount(s)'
    BY <1>4, <2>1, <2>3 DEF Keep, Accounting, StreamAccount, Uncounted, Unkept
  <2> QED BY <1>1, <2>1, <2>2, <2>3 DEF Accounting, BudgetAccount, Sum
<1> QED BY <1>2, <1>3, <1>4 DEF Drain

\* The calling thread only lets the root inherit the pipes, before any thread is done.
LEMMA AccountingCalling ==
  ASSUME TypeOK, Accounting, Calling
  PROVE  Accounting'
<1>1. UNCHANGED <<output, threads>>
  BY DEF Calling, Launch, LaunchFails, CreateJob, CreateJobFails, Poll, CheckBudget,
     CheckDeadline, Wait, GiveUpWaiting, GiveUpReaping, CheckGroup, QueryJobEmpty,
     QueryJobActive, QueryJobFails, QueryJob, JoinThreads, JoinGivesUp, Rejoin,
     LateBudgetCheck, Publish
<1>2. pc = "launch" \/ (UNCHANGED attached /\ pc' # "launch")
  <2>1. AfterWait # "launch"
    BY PlatformAssumption DEF AfterWait, TypeOK, SystemTypes
  <2> QED
    BY <2>1 DEF Calling, Launch, LaunchFails, CreateJob, CreateJobFails, Poll, CheckBudget,
     CheckDeadline, Wait, GiveUpWaiting, GiveUpReaping, CheckGroup, QueryJobEmpty,
     QueryJobActive, QueryJobFails, QueryJob, JoinThreads, JoinGivesUp, Rejoin,
     LateBudgetCheck, Publish, GoTo, os
<1> QED BY <1>1, <1>2 DEF Accounting, StreamAccount, BudgetAccount, Uncounted, Unkept, Sum,
           output, threads

LEMMA ClearanceBackground ==
  ASSUME TypeOK, Clearance, pc # "done", Background
  PROVE  Clearance'
<1>1. UNCHANGED <<pc, verdict, result>>
  BY DEF Background, Target, Drain, Spawn, NewSession, Collect, RedirectStdio, Exit, Emit,
     Read, Feed, Keep, DeadlinePasses, WriteStdin
<1>2. Drained => UNCHANGED <<drain, budget>>
  BY DEF Drained, Background, Target, Drain, Spawn, NewSession, Collect, RedirectStdio, Exit,
     Emit, Read, Feed, Keep, DeadlinePasses, WriteStdin, threads
<1> QED BY <1>1, <1>2 DEF Clearance, ComparableOutputIsComplete, Drained, verdict, NoError

LEMMA ClearanceCalling ==
  ASSUME TypeOK, Accounting, Clearance, Calling
  PROVE  Clearance'
<1> USE DEF Clearance, ComparableOutputIsComplete, Drained, GoTo, NoError
<1>1. CASE pc \notin {"join", "rejoin", "late", "publish"}
  <2>1. AfterWait \in {"group", "query", "join"}
    BY PlatformAssumption DEF AfterWait, TypeOK, SystemTypes
  <2>2. pc' \in {"job", "poll", "budget", "deadline", "wait", "wait again", "group", "query",
                 "join"}
        \/ (pc' = "done" /\ result'.infrastructure_error = "SpawnFailure")
    <3>1. CASE Launch \/ CreateJob \/ CreateJobFails
      BY <3>1 DEF Launch, CreateJob, CreateJobFails
    <3>6. CASE LaunchFails
      BY <3>6 DEF LaunchFails
    <3>2. CASE Poll \/ CheckBudget \/ CheckDeadline
      BY <3>2 DEF Poll, CheckBudget, CheckDeadline
    <3>3. CASE Wait \/ GiveUpWaiting \/ GiveUpReaping
      BY <2>1, <3>3 DEF Wait, GiveUpWaiting, GiveUpReaping
    <3>4. CASE CheckGroup \/ QueryJobEmpty \/ QueryJobActive \/ QueryJobFails
      BY <3>4 DEF CheckGroup, QueryJobEmpty, QueryJobActive, QueryJobFails, QueryJob
    <3>5. ~(JoinThreads \/ JoinGivesUp \/ Rejoin \/ LateBudgetCheck \/ Publish)
      BY <1>1 DEF JoinThreads, JoinGivesUp, Rejoin, LateBudgetCheck, Publish
    <3> QED BY <3>1, <3>2, <3>3, <3>4, <3>5, <3>6 DEF Calling
  <2> QED BY <2>2 DEF Comparable
<1>2. CASE JoinThreads
  BY <1>2 DEF JoinThreads, _join_io_threads, threads
<1>3. CASE JoinGivesUp
  BY <1>3 DEF JoinGivesUp, Blame
<1>4. CASE Rejoin
  BY <1>4 DEF Rejoin, verdict
<1>5. CASE LateBudgetCheck
  BY <1>5 DEF LateBudgetCheck, threads
<1>6. CASE Publish
  <2>1. /\ UNCHANGED <<output, threads, verdict>> /\ pc = "publish" /\ pc' = "done"
        /\ result'.infrastructure_error = infrastructure_error
        /\ result'.timed_out = timed_out
        /\ result'.captured = captured /\ result'.total_bytes = total_bytes
    BY <1>6 DEF Publish
  <2>2. ASSUME infrastructure_error = NoError, ~timed_out
        PROVE  /\ \A s \in Stream : /\ total_bytes[s] = emitted[s]
                                    /\ captured[s] = Least(emitted[s], max_output_bytes)
               /\ Sum(emitted) <= max_total_output_bytes
    <3>1. Drained /\ ~budget.exceeded
      BY <2>1, <2>2
    <3>2. \A s \in Stream : /\ total_bytes[s] = emitted[s]
                            /\ captured[s] = Least(emitted[s], max_output_bytes)
      BY <3>1 DEF Accounting, StreamAccount, Uncounted, Unkept, TypeOK, StreamTypes
    <3>3. Sum(emitted) = budget.total_bytes
      BY <3>2 DEF Accounting, BudgetAccount, Sum, Stream
    <3>4. budget.total_bytes <= max_total_output_bytes
      BY <3>1, LimitAssumption DEF Accounting, BudgetAccount, TypeOK, StreamTypes
    <3> QED BY <3>2, <3>3, <3>4
  <2> QED BY <2>1, <2>2 DEF Comparable, output, verdict
<1>7. pc \in {"join", "rejoin", "late", "publish"} =>
        JoinThreads \/ JoinGivesUp \/ Rejoin \/ LateBudgetCheck \/ Publish
  BY DEF Calling, Launch, LaunchFails, CreateJob, CreateJobFails, Poll,
     CheckBudget, CheckDeadline, Wait, GiveUpWaiting, GiveUpReaping, CheckGroup,
     QueryJobEmpty, QueryJobActive, QueryJobFails, QueryJob
<1> QED BY <1>1, <1>2, <1>3, <1>4, <1>5, <1>6, <1>7

\* Output that is compared is never cut short, for any limits, pipes and descendants.
THEOREM ComparableOutputsAreComplete == Spec => []ComparableOutputIsComplete
<1>1. Init => Accounting /\ Clearance
  <2> SUFFICES ASSUME Init PROVE Accounting /\ Clearance
      OBVIOUS
  <2>1. \A s \in Stream : StreamAccount(s)
    BY LimitAssumption DEF Init, StreamAccount, Uncounted, Unkept, Least
  <2>2. Sum(total_bytes) = 0
    BY DEF Init, Sum, Stream
  <2>3. BudgetAccount
    <3>1. (0 > max_total_output_bytes) = FALSE
      BY LimitAssumption
    <3>2. budget.total_bytes = 0 /\ budget.exceeded = FALSE
      BY DEF Init
    <3> QED BY <2>2, <3>1, <3>2 DEF BudgetAccount
  <2>4. Clearance
    BY DEF Init, Clearance, ComparableOutputIsComplete
  <2> QED BY <2>1, <2>3, <2>4 DEF Accounting
<1>2. TypeOK /\ Accounting /\ Clearance /\ [Next]_vars => Accounting' /\ Clearance'
  <2> SUFFICES ASSUME TypeOK, Accounting, Clearance, [Next]_vars
               PROVE  Accounting' /\ Clearance'
      OBVIOUS
  <2>1. CASE pc # "done" /\ Background
    <3>1. CASE DeadlinePasses \/ WriteStdin
      <4>1. UNCHANGED <<pc, os, output, threads>>
        BY <3>1 DEF DeadlinePasses, WriteStdin
      <4>2. Accounting'
        BY <4>1, Unchanged
      <4> QED BY <2>1, <4>2, ClearanceBackground
    <3> QED BY <2>1, <3>1, AccountingTarget, AccountingDrain, ClearanceBackground
            DEF Background
  <2>2. CASE Calling
    BY <2>2, AccountingCalling, ClearanceCalling
  <2>3. CASE UNCHANGED vars
    <3>1. Accounting'
      BY <2>3, Unchanged DEF vars
    <3> QED BY <2>3, <3>1 DEF vars, output, threads, verdict, Clearance,
            ComparableOutputIsComplete, Comparable, Drained, NoError
  <2> QED BY <2>1, <2>2, <2>3, NextCases
<1>3. Clearance => ComparableOutputIsComplete
  BY DEF Clearance
<1> QED BY <1>1, <1>2, <1>3, TypeCorrect, PTL DEF Spec
=============================================================================
