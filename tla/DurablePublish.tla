--------------------------- MODULE DurablePublish ---------------------------
(***************************************************************************)
(* FaultingDurableFilePublisher.publish (durable_publish.py) over the      *)
(* three faulting adapters it composes, run by several writer processes    *)
(* that share one destination, with the crashes its contract is about: a   *)
(* writer killed between two calls (the crash workers) and a power loss.   *)
(*                                                                         *)
(* A publication is the number of a publish call and stands for its        *)
(* payload; 0 is what the destination held before.  The file system is     *)
(* external: a file keeps what was written and what was fsynced apart, and *)
(* a power loss leaves of a file that differs either of the two or a torn  *)
(* one, and of the directory any version since its last fsync (a directory *)
(* update is atomic, and updates reach the disk in order).  Operators      *)
(* named <definition>_<bug> are bugs; no action of Next uses them.         *)
(***************************************************************************)
EXTENDS Integers, Sequences, FaultController

CONSTANTS Writer,           \* processes; also the names of their staging files
          dest,             \* the name of the published file
          Faults,           \* per writer, the occurrences its three FaultSpecs may have
          MaxPublications   \* bound: publish calls in one run

Operations == {"fsync", "replace", "dir_fsync"}

ASSUME NameAssumption == dest \notin Writer
ASSUME BoundAssumption ==
  MaxPublications \in Nat /\ Faults \in [Writer -> SUBSET [Operations -> Nat]]

Name == {dest} \cup Writer
Publication == 0..MaxPublications
Torn == -1                  \* the content of a file that is empty or cut short
Absent == -1                \* the file behind a name that does not exist

VARIABLES
  entries,     \* the directory: per name, the file it names
  survivors,   \* the versions of the directory a power loss may leave
  cache, disk, \* per file, its content as read and as fsynced; a file is named after
               \* the publication that created it
  calls,       \* publish calls made
  pc,          \* per writer: "idle" or the operation it is about to do
  current,     \* per writer: its last publication
  publisher,   \* per writer: the _file_sync_spec and the two controllers it keeps
  outcome,     \* per writer: how its last call ended
  published,   \* history: publications in the order of their replace
  returned     \* history: publications whose call returned

storage == <<entries, survivors, cache, disk>>
history == <<published, returned>>
vars == <<storage, calls, pc, current, publisher, outcome, history>>

Directory == [Name -> Publication \cup {Absent}]
Publishers ==
  [file_sync_spec : [operation : {"fsync"}, occurrence : Nat],
   replace : Controllers({"replace"}), dir_fsync : Controllers({"dir_fsync"})]

StorageTypes ==
  /\ entries \in Directory /\ survivors \subseteq Directory
  /\ cache \in [Publication -> Publication \cup {Torn}]
  /\ disk \in [Publication -> Publication \cup {Torn}]
  /\ calls \in Publication

CallerTypes ==
  /\ pc \in [Writer -> {"idle", "write", "fsync", "replace", "dir_fsync"}]
  /\ current \in [Writer -> Publication]
  /\ outcome \in [Writer -> {"none", "returned", "write"} \cup Operations]
  /\ published \in Seq(Publication) /\ returned \subseteq Publication

TypeOK == StorageTypes /\ CallerTypes /\ publisher \in [Writer -> Publishers]

NewPublisher(faults) ==
  [file_sync_spec |-> FaultSpec("fsync", faults["fsync"]),
   replace |-> NewController(FaultSpec("replace", faults["replace"])),
   dir_fsync |-> NewController(FaultSpec("dir_fsync", faults["dir_fsync"]))]

\* The publishers that the callers may have made.
Made ==
  {[w \in Writer |-> NewPublisher(choice[w])] :
     choice \in {c \in [Writer -> UNION {Faults[w] : w \in Writer}] :
                   \A w \in Writer : c[w] \in Faults[w]}}

NothingStarted ==
  /\ entries = [n \in Name |-> IF n = dest THEN 0 ELSE Absent]
  /\ survivors = {entries}
  /\ cache = [f \in Publication |-> IF f = 0 THEN 0 ELSE Torn] /\ disk = cache
  /\ calls = 0
  /\ pc = [w \in Writer |-> "idle"] /\ current = [w \in Writer |-> 0]
  /\ outcome = [w \in Writer |-> "none"]
  /\ published = <<>> /\ returned = {}

Init == NothingStarted /\ publisher \in Made

----------------------------------------------------------------------------
(* One publish call of writer w.                                           *)

Directory_becomes(new) == entries' = new /\ survivors' = survivors \cup {new}

\* What a failed call left staged is taken for the payload.
Open_KeepsStaged(w) ==
  /\ pc[w] = "idle" /\ calls < MaxPublications
  /\ calls' = calls + 1
  /\ current' = [current EXCEPT ![w] = calls']
  /\ IF entries[w] = Absent
     THEN /\ Directory_becomes([entries EXCEPT ![w] = calls'])
          /\ pc' = [pc EXCEPT ![w] = "write"]
     ELSE /\ pc' = [pc EXCEPT ![w] = "fsync"]
          /\ UNCHANGED <<entries, survivors>>
  /\ outcome' = [outcome EXCEPT ![w] = "none"]
  /\ UNCHANGED <<cache, disk, publisher, history>>

\* open("wb") creates the staging file or truncates the one a failed call left.
Open(w) ==
  /\ pc[w] = "idle" /\ calls < MaxPublications
  /\ calls' = calls + 1
  /\ current' = [current EXCEPT ![w] = calls']
  /\ IF entries[w] = Absent
     THEN /\ Directory_becomes([entries EXCEPT ![w] = calls'])
          /\ UNCHANGED cache
     ELSE /\ cache' = [cache EXCEPT ![entries[w]] = Torn]
          /\ UNCHANGED <<entries, survivors>>
  /\ pc' = [pc EXCEPT ![w] = "write"]
  /\ outcome' = [outcome EXCEPT ![w] = "none"]
  /\ UNCHANGED <<disk, publisher, history>>

\* The payload reaches the file with the flush that FaultingFileSync.sync begins with.
Write(w) ==
  /\ pc[w] = "write"
  /\ cache' = [cache EXCEPT ![entries[w]] = current[w]]
  /\ pc' = [pc EXCEPT ![w] = "fsync"]
  /\ UNCHANGED <<entries, survivors, disk, calls, current, publisher, outcome, history>>

Raise(w) ==
  /\ pc' = [pc EXCEPT ![w] = "idle"]
  /\ outcome' = [outcome EXCEPT ![w] = pc[w]]

\* Every call builds a new FaultingFileSync, and with it a new controller.
FileSync_NoFsync(w) ==
  /\ pc[w] = "fsync"
  /\ IF Fires(NewController(publisher[w].file_sync_spec), "fsync")
     THEN Raise(w)
     ELSE pc' = [pc EXCEPT ![w] = "replace"] /\ UNCHANGED outcome
  /\ UNCHANGED <<storage, calls, current, publisher, history>>
FileSync(w) ==
  /\ pc[w] = "fsync"
  /\ IF Fires(NewController(publisher[w].file_sync_spec), "fsync")
     THEN Raise(w) /\ UNCHANGED disk
     ELSE /\ disk' = [disk EXCEPT ![entries[w]] = cache[entries[w]]]
          /\ pc' = [pc EXCEPT ![w] = "replace"] /\ UNCHANGED outcome
  /\ UNCHANGED <<entries, survivors, cache, calls, current, publisher, history>>

Advance(w, operation) ==
  publisher' = [publisher EXCEPT ![w][operation] = checkpoint(@, operation)]

Rename(w) ==
  /\ Directory_becomes([entries EXCEPT ![dest] = entries[w], ![w] = Absent])
  /\ published' = Append(published, current[w])

Replace_FaultAfterRename(w) ==
  /\ pc[w] = "replace"
  /\ Advance(w, "replace")
  /\ Rename(w)
  /\ IF Fires(publisher[w].replace, "replace")
     THEN Raise(w)
     ELSE pc' = [pc EXCEPT ![w] = "dir_fsync"] /\ UNCHANGED outcome
  /\ UNCHANGED <<cache, disk, calls, current, returned>>
Replace(w) ==
  /\ pc[w] = "replace"
  /\ Advance(w, "replace")
  /\ IF Fires(publisher[w].replace, "replace")
     THEN Raise(w) /\ UNCHANGED <<entries, survivors, published>>
     ELSE /\ Rename(w)
          /\ pc' = [pc EXCEPT ![w] = "dir_fsync"] /\ UNCHANGED outcome
  /\ UNCHANGED <<cache, disk, calls, current, returned>>

Return(w) ==
  /\ pc' = [pc EXCEPT ![w] = "idle"]
  /\ outcome' = [outcome EXCEPT ![w] = "returned"]
  /\ returned' = returned \cup {current[w]}

DirectorySync_OfTheFile(w) ==
  /\ pc[w] = "dir_fsync"
  /\ Advance(w, "dir_fsync")
  /\ IF Fires(publisher[w].dir_fsync, "dir_fsync")
     THEN Raise(w) /\ UNCHANGED <<disk, returned>>
     ELSE disk' = [disk EXCEPT ![entries[dest]] = cache[entries[dest]]] /\ Return(w)
  /\ UNCHANGED <<entries, survivors, cache, calls, current, published>>
DirectorySync(w) ==
  /\ pc[w] = "dir_fsync"
  /\ Advance(w, "dir_fsync")
  /\ IF Fires(publisher[w].dir_fsync, "dir_fsync")
     THEN Raise(w) /\ UNCHANGED <<survivors, returned>>
     ELSE survivors' = {entries} /\ Return(w)
  /\ UNCHANGED <<entries, cache, disk, calls, current, published>>

\* The operating system refuses the write, the fsync, the rename or the directory fsync.
StorageFails(w) ==
  /\ pc[w] # "idle"
  /\ Raise(w)
  /\ IF pc[w] \in {"replace", "dir_fsync"} THEN Advance(w, pc[w]) ELSE UNCHANGED publisher
  /\ UNCHANGED <<storage, calls, current, history>>

----------------------------------------------------------------------------
(* Crashes.                                                                *)

Restart(w, faults) ==
  /\ pc' = [pc EXCEPT ![w] = "idle"]
  /\ outcome' = [outcome EXCEPT ![w] = "none"]
  /\ publisher' = [publisher EXCEPT ![w] = NewPublisher(faults)]

\* The operating system keeps everything a killed writer did.
Kill(w) ==
  /\ pc[w] # "idle"
  /\ \E faults \in Faults[w] : Restart(w, faults)
  /\ UNCHANGED <<storage, calls, current, history>>

Unsynced == {f \in Publication : cache[f] # disk[f]}

PowerLoss ==
  /\ \E d \in survivors : entries' = d /\ survivors' = {d}
  /\ \E fate \in [Unsynced -> {"written", "synced", "torn"}] :
       cache' = [f \in Publication |->
                   IF f \notin Unsynced \/ fate[f] = "written" THEN cache[f]
                   ELSE IF fate[f] = "synced" THEN disk[f] ELSE Torn]
  /\ disk' = cache'
  /\ pc' = [w \in Writer |-> "idle"] /\ outcome' = [w \in Writer |-> "none"]
  /\ publisher' \in Made
  /\ UNCHANGED <<calls, current, history>>

----------------------------------------------------------------------------
Step(w) ==
  Open(w) \/ Write(w) \/ FileSync(w) \/ Replace(w) \/ DirectorySync(w) \/ StorageFails(w)

Next == PowerLoss \/ \E w \in Writer : Step(w) \/ Kill(w)

Spec == Init /\ [][Next]_vars

----------------------------------------------------------------------------
(* Properties.                                                             *)

\* At every moment, after a kill and after a power loss, the destination names a file
\* that holds one publication in full: publication is never seen torn or absent.
DestinationIsComplete ==
  entries[dest] # Absent /\ cache[entries[dest]] \in Publication

\* When publish returned, no later crash brings back an older publication: the one the
\* destination holds was replaced into it no earlier than the one that returned.
ReturnedIsDurable ==
  \A i \in DOMAIN published :
    published[i] \in returned =>
      \E j \in i..Len(published) : cache[entries[dest]] = published[j]

\* docs/durable-file-publisher.md: a failed file sync or replace publishes nothing and
\* keeps the staged payload; a failed directory sync leaves the publication visible.
Published == {published[i] : i \in DOMAIN published}
FailureIsTruthful ==
  \A w \in Writer :
    /\ outcome[w] \in {"fsync", "replace"} =>
         /\ current[w] \notin Published
         /\ entries[w] # Absent /\ cache[entries[w]] = current[w]
    /\ outcome[w] \in {"dir_fsync", "returned"} =>
         current[w] \in Published /\ entries[w] = Absent

\* Publication is one atomic, durable register, whatever fails or crashes between its
\* steps (durable_publish.py:41-46): a reader finds one publication until the rename of
\* another and none in between; a call has its effect once, before it ends, or never: not
\* when a later call opens what it left staged, not after its failure; a power loss takes
\* back only renames since the last call that returned, and they do not come back.
Register == INSTANCE PublishedFile WITH
  pending <- {current[w] : w \in {v \in Writer : pc[v] \in {"write", "fsync", "replace"}}},
  applied <- {current[w] : w \in {v \in Writer : pc[v] = "dir_fsync"}},
  shown <- cache[entries[dest]],
  fallback <- {cache[d[dest]] : d \in survivors}
PublicationIsAtomic == Register!Spec
=============================================================================
