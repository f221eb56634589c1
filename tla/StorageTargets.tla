--------------------------- MODULE StorageTargets ---------------------------
(***************************************************************************)
(* The three storage workers behind the crash targets: programs that take  *)
(* DurablePublish through a fixed script, killing a child at a marker,     *)
(* injecting one fault, reading after each call what the directory shows,  *)
(* and printing a report only when all of it is as the script says.  Any   *)
(* other outcome ends the worker with a target error.                      *)
(*                                                                         *)
(* A worker's k-th call stages in Staging[k] and publishes generation k,   *)
(* or stops before its rename or before its directory fsync.  The call is  *)
(* made by the worker or by a child that is killed while it sleeps after   *)
(* its marker: the file system keeps what it did either way.  When no      *)
(* worker runs, writers publish freely, as DurablePublish says.            *)
(***************************************************************************)
EXTENDS DurablePublish

CONSTANTS Staging,               \* the staging file of each call of a script
          Concurrent,            \* the writers that publish when no worker runs
          ConcurrentPublications \* bound: publish calls they make

ASSUME TargetAssumption ==
  /\ Staging \in [1..4 -> Writer] /\ Concurrent \subseteq Writer /\ 4 <= MaxPublications
  /\ \A i, j \in 1..4 : i # j => Staging[i] # Staging[j]

VARIABLES script,  \* the worker that runs, or "none"
          at,      \* the number of its current call
          failure, \* the error the operating system raised in it: "none", "EIO" or "other"
          exit     \* "starting", "running" or how it ended

target == <<script, at, failure, exit>>

NoFaults == [operation \in Operations |-> 99]
FaultAt(operation) == [NoFaults EXCEPT ![operation] = 0]

Call(until, faults, shows, staging) ==
  [until |-> until, faults |-> faults, shows |-> shows, staging |-> staging]

\* A child killed between its rename and its directory fsync, a publish whose directory
\* fsync fails, and a child killed after its publish returned.
durable_publish_crash ==
  <<Call("dir_fsync", NoFaults, 1, "absent"),
    Call("idle", FaultAt("dir_fsync"), 2, "absent"),
    Call("idle", NoFaults, 3, "absent")>>

\* A child killed before its rename, a publish whose file fsync fails, and one without.
file_sync_crash ==
  <<Call("replace", NoFaults, 0, "whole"),
    Call("idle", FaultAt("fsync"), 0, "exists"),
    Call("idle", NoFaults, 3, "absent")>>

\* A child killed before its rename and one killed after, a rename that fails, and one
\* that does not; this worker removes the staging files that are left.
atomic_replace_crash ==
  <<Call("replace", NoFaults, 0, "removed"),
    Call("dir_fsync", NoFaults, 2, "absent"),
    Call("dir_fsync", FaultAt("replace"), 2, "removed"),
    Call("dir_fsync", NoFaults, 4, "absent")>>

Scripts ==
  [durable_publish |-> durable_publish_crash, file_sync |-> file_sync_crash,
   atomic_replace |-> atomic_replace_crash]

Now == Scripts[script][at]
writer == Staging[at]

----------------------------------------------------------------------------

TargetInit ==
  /\ script \in {"none"} \cup DOMAIN Scripts
  /\ at = 1 /\ failure = "none" /\ exit = IF script = "none" THEN "none" ELSE "starting"
  /\ IF script = "none" THEN Init
     ELSE /\ NothingStarted
          /\ publisher = [w \in Writer |->
               NewPublisher(IF \E k \in DOMAIN Scripts[script] : Staging[k] = w
                            THEN Scripts[script][CHOOSE k \in 1..4 : Staging[k] = w].faults
                            ELSE NoFaults)]

Concurrently ==
  /\ script = "none"
  /\ \/ PowerLoss
     \/ \E w \in Concurrent : (Step(w) \/ Kill(w)) /\ calls' <= ConcurrentPublications
  /\ UNCHANGED target

\* Input on stdin is refused; two of the workers ask a POSIX host; writing generation 0
\* and syncing its directory may fail.
Launch ==
  /\ exit = "starting"
  /\ \/ exit' \in {"running", "protocol_error"} /\ UNCHANGED failure
     \/ script # "atomic_replace" /\ exit' = "unsupported" /\ UNCHANGED failure
     \/ exit' = "target_error" /\ failure' = "other"
  /\ UNCHANGED <<vars, script, at>>

Underway == calls = at /\ pc[writer] \notin {"idle", Now.until}

Advances ==
  /\ exit = "running"
  /\ \/ calls < at /\ Open(writer)
     \/ /\ Underway
        /\ Write(writer) \/ FileSync(writer) \/ Replace(writer) \/ DirectorySync(writer)
  /\ UNCHANGED target

\* The operating system fails a call of the script once, where no fault is injected.  No
\* script goes on without the staging file.
CallFails ==
  /\ exit = "running" /\ failure = "none"
  /\ failure' \in {"EIO", "other"}
  /\ \/ calls < at /\ exit' = "target_error" /\ UNCHANGED vars
     \/ /\ Underway /\ (pc[writer] \in Operations => Now.faults[pc[writer]] # 0)
        /\ StorageFails(writer) /\ UNCHANGED exit
  /\ UNCHANGED <<script, at>>

\* The marker was read, the publish returned, or an error with errno EIO was caught where
\* one is injected; atomic_replace asks the fault whether it was the one.
AsScripted_AnyError ==
  IF Now.faults = NoFaults THEN outcome[writer] \in {"none", "returned"}
  ELSE outcome[writer] \notin {"none", "returned"} /\ failure # "other"
AsScripted ==
  IF Now.faults = NoFaults THEN outcome[writer] \in {"none", "returned"}
  ELSE /\ outcome[writer] \notin {"none", "returned"} /\ failure # "other"
       /\ script = "atomic_replace" => publisher[writer].replace.triggered

\* What is read of the destination and of the staging file of the call.
Observed ==
  /\ cache[entries[dest]] = Now.shows
  /\ (entries[writer] = Absent) = (Now.staging = "absent")
  /\ Now.staging = "whole" => cache[entries[writer]] = current[writer]

\* The child is killed, or the call is over; the next one has processes and publishers of
\* its own.
CallEnds ==
  /\ exit = "running" /\ calls = at /\ ~Underway
  /\ AsScripted /\ Observed
  /\ IF Now.staging = "removed" THEN Directory_becomes([entries EXCEPT ![writer] = Absent])
     ELSE UNCHANGED <<entries, survivors>>
  /\ Restart(writer, Now.faults)
  /\ at' = at + 1
  /\ exit' = IF at = Len(Scripts[script]) THEN "reported" ELSE exit
  /\ UNCHANGED <<cache, disk, calls, current, history, script, failure>>

Raises ==
  /\ exit = "running" /\ calls = at /\ ~Underway
  /\ ~(AsScripted /\ Observed)
  /\ exit' = "target_error"
  /\ UNCHANGED <<vars, script, at, failure>>

TargetNext == Concurrently \/ Launch \/ Advances \/ CallFails \/ CallEnds \/ Raises

TargetSpec == TargetInit /\ [][TargetNext]_<<vars, target>>

----------------------------------------------------------------------------
(* Properties.                                                             *)

\* What a report says of the generations: those that became visible, in their order,
\* those whose publish returned, and the staging files that are left.
Claimed ==
  [durable_publish |-> [visible |-> <<1, 2, 3>>, returned |-> {3}, left |-> {}],
   file_sync |-> [visible |-> <<3>>, returned |-> {3}, left |-> {1, 2}],
   atomic_replace |-> [visible |-> <<2, 4>>, returned |-> {}, left |-> {}]]

\* A failing write of the file_sync worker's second call.
TakenForTheFault ==
  script = "file_sync" /\ failure = "EIO" /\ cache[entries[Staging[2]]] = Torn

\* A worker reports only what happened: what became visible, what returned and what is
\* left staged are what its report says, and every injected fault was the error it met.
\* One error passes for another: the file_sync worker does not ask whether its fault was
\* triggered, and an EIO of the write before it leaves all that is read as expected.  A
\* worker gives up only if the operating system failed it.
ReportIsTrue ==
  /\ exit = "reported" =>
       /\ published = Claimed[script].visible /\ returned = Claimed[script].returned
       /\ \A k \in 1..4 : (entries[Staging[k]] # Absent) = (k \in Claimed[script].left)
       /\ failure = "none" \/ TakenForTheFault
  /\ exit = "target_error" => failure # "none"
=============================================================================
