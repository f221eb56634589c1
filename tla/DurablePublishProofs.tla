------------------------ MODULE DurablePublishProofs ------------------------
(***************************************************************************)
(* What DurablePublish promises, for any number of writers, publications   *)
(* and faults.                                                             *)
(***************************************************************************)
EXTENDS StorageTargets, TLAPS

LEMMA FaultTypes ==
  ASSUME NEW w \in Writer, NEW faults \in Faults[w]
  PROVE  NewPublisher(faults) \in Publishers
BY BoundAssumption DEF NewPublisher, Publishers, FaultSpec, NewController, Controllers, Operations

LEMMA CheckpointTypes ==
  ASSUME NEW S, NEW operation, NEW c \in Controllers(S)
  PROVE  checkpoint(c, operation) \in Controllers(S)
<1> DEFINE fires == Fires(c, operation)
<1>1. fires \in BOOLEAN
  BY DEF Fires, Matches
<1>2. c.matching_occurrences \in Nat /\ c.spec \in [operation : S, occurrence : Nat]
      /\ c.triggered \in BOOLEAN
  BY DEF Controllers
<1> HIDE DEF fires
<1>3. [spec |-> c.spec, matching_occurrences |-> c.matching_occurrences + 1,
       triggered |-> fires] \in Controllers(S)
  BY <1>1, <1>2 DEF Controllers
<1> QED BY <1>3 DEF checkpoint, fires

LEMMA AdvanceTypes ==
  ASSUME TypeOK, NEW w \in Writer, NEW operation \in {"replace", "dir_fsync"},
         Advance(w, operation)
  PROVE  publisher' \in [Writer -> Publishers]
<1> DEFINE p == publisher[w]
<1>1. p \in Publishers /\ publisher \in [Writer -> Publishers]
  BY DEF TypeOK
<1>2. checkpoint(p[operation], operation) \in Controllers({operation})
  <2>1. p.replace \in Controllers({"replace"}) /\ p.dir_fsync \in Controllers({"dir_fsync"})
    BY <1>1 DEF Publishers
  <2> QED BY <2>1, CheckpointTypes
<1>3. publisher' = [publisher EXCEPT
                      ![w] = [p EXCEPT ![operation] = checkpoint(p[operation], operation)]]
  BY DEF Advance
<1>4. [p EXCEPT ![operation] = checkpoint(p[operation], operation)] \in Publishers
  <2> DEFINE c == checkpoint(p[operation], operation)
  <2> HIDE DEF c
  <2>1. [p EXCEPT ![operation] = c] \in Publishers
    BY <1>1, <1>2 DEF Publishers, c
  <2> QED BY <2>1 DEF c
<1> QED BY <1>1, <1>3, <1>4

LEMMA MadeTypes == Made \subseteq [Writer -> Publishers]
BY FaultTypes DEF Made

----------------------------------------------------------------------------
(* Type correctness.                                                       *)

LEMMA TypesAtFirst ==
  ASSUME NothingStarted
  PROVE  StorageTypes /\ CallerTypes
<1>1. StorageTypes
  BY BoundAssumption DEF NothingStarted, StorageTypes, Directory, Publication
<1>2. CallerTypes
  BY BoundAssumption DEF NothingStarted, CallerTypes, Publication
<1> QED BY <1>1, <1>2

LEMMA TypeStep == TypeOK /\ [Next]_vars => TypeOK'
<1> USE BoundAssumption
<1>2. ASSUME TypeOK, NEW w \in Writer, Open(w) PROVE TypeOK'
  <2>1. calls' \in Publication
    BY <1>2 DEF Open, TypeOK, StorageTypes, Publication
  <2>2. StorageTypes'
    <3>1. CASE entries[w] = Absent
      <4>1. entries' \in Directory /\ survivors' = survivors \cup {entries'}
        BY <1>2, <2>1, <3>1 DEF Open, Directory_becomes, TypeOK, StorageTypes, Directory
      <4> QED BY <1>2, <2>1, <3>1, <4>1 DEF Open, TypeOK, StorageTypes
    <3>2. CASE entries[w] # Absent
      BY <1>2, <2>1, <3>2 DEF Open, TypeOK, StorageTypes
    <3> QED BY <3>1, <3>2
  <2>3. CallerTypes'
    BY <1>2, <2>1 DEF Open, TypeOK, CallerTypes, history
  <2> QED BY <1>2, <2>2, <2>3 DEF TypeOK, Open
<1>3. ASSUME TypeOK, NEW w \in Writer, Write(w) PROVE TypeOK'
  <2>1. StorageTypes'
    BY <1>3 DEF Write, TypeOK, StorageTypes, CallerTypes
  <2>2. CallerTypes'
    BY <1>3 DEF Write, TypeOK, CallerTypes, history
  <2> QED BY <1>3, <2>1, <2>2 DEF TypeOK, Write
<1>7. ASSUME TypeOK, NEW w \in Writer, FileSync(w) PROVE TypeOK'
  <2>1. disk' \in [Publication -> Publication \cup {Torn}]
    <3>1. CASE entries[w] \in Publication
      BY <1>7, <3>1 DEF FileSync, TypeOK, StorageTypes
    <3>2. CASE entries[w] \notin Publication
      BY <1>7, <3>2 DEF FileSync, TypeOK, StorageTypes
    <3> QED BY <3>1, <3>2
  <2>2. StorageTypes'
    BY <1>7, <2>1 DEF FileSync, TypeOK, StorageTypes
  <2>3. pc' \in [Writer -> {"idle", "write", "fsync", "replace", "dir_fsync"}]
        /\ outcome' \in [Writer -> {"none", "returned", "write"} \cup Operations]
    BY <1>7 DEF FileSync, Raise, TypeOK, CallerTypes, Operations
  <2>4. CallerTypes'
    BY <1>7, <2>3 DEF FileSync, TypeOK, CallerTypes, history
  <2> QED BY <1>7, <2>2, <2>4 DEF TypeOK, FileSync
<1>8. ASSUME TypeOK, NEW w \in Writer, Replace(w) PROVE TypeOK'
  <2>1. ASSUME Rename(w) PROVE /\ entries' \in Directory /\ survivors' \subseteq Directory
                               /\ published' \in Seq(Publication)
    <3>1. entries[w] \in Publication \cup {Absent}
      BY <1>8 DEF TypeOK, StorageTypes, Directory, Name
    <3>2. entries' \in Directory /\ survivors' = survivors \cup {entries'}
      BY <1>8, <2>1, <3>1 DEF Rename, Directory_becomes, TypeOK, StorageTypes, Directory
    <3> QED BY <1>8, <2>1, <3>2 DEF Rename, TypeOK, StorageTypes, CallerTypes
  <2>2. StorageTypes'
    BY <1>8, <2>1 DEF Replace, TypeOK, StorageTypes
  <2>3. pc' \in [Writer -> {"idle", "write", "fsync", "replace", "dir_fsync"}]
        /\ outcome' \in [Writer -> {"none", "returned", "write"} \cup Operations]
    BY <1>8 DEF Replace, Raise, TypeOK, CallerTypes, Operations
  <2>4. published' \in Seq(Publication)
    BY <1>8, <2>1 DEF Replace, TypeOK, CallerTypes
  <2>5. CallerTypes'
    BY <1>8, <2>3, <2>4 DEF Replace, TypeOK, CallerTypes
  <2> QED BY <1>8, <2>2, <2>5, AdvanceTypes DEF TypeOK, Replace
<1>9. ASSUME TypeOK, NEW w \in Writer, DirectorySync(w) PROVE TypeOK'
  <2>1. StorageTypes'
    BY <1>9 DEF DirectorySync, TypeOK, StorageTypes
  <2>2. CallerTypes'
    BY <1>9 DEF DirectorySync, Return, Raise, TypeOK, CallerTypes, Operations
  <2> QED BY <1>9, <2>1, <2>2, AdvanceTypes DEF TypeOK, DirectorySync
<1>10. ASSUME TypeOK, NEW w \in Writer, StorageFails(w) PROVE TypeOK'
  <2>1. StorageTypes'
    BY <1>10 DEF StorageFails, TypeOK, StorageTypes, storage
  <2>2. CallerTypes'
    BY <1>10 DEF StorageFails, Raise, TypeOK, CallerTypes, Operations, history
  <2>3. publisher' \in [Writer -> Publishers]
    BY <1>10, AdvanceTypes DEF StorageFails, TypeOK
  <2> QED BY <2>1, <2>2, <2>3 DEF TypeOK
<1>4. ASSUME TypeOK, NEW w \in Writer, Kill(w) PROVE TypeOK'
  <2>1. StorageTypes'
    BY <1>4 DEF Kill, TypeOK, StorageTypes, storage
  <2>2. CallerTypes'
    BY <1>4 DEF Kill, Restart, TypeOK, CallerTypes, history
  <2>3. publisher' \in [Writer -> Publishers]
    BY <1>4, FaultTypes DEF Kill, Restart, TypeOK
  <2> QED BY <2>1, <2>2, <2>3 DEF TypeOK
<1>5. ASSUME TypeOK, PowerLoss PROVE TypeOK'
  <2>1. StorageTypes'
    BY <1>5 DEF PowerLoss, TypeOK, StorageTypes
  <2>2. CallerTypes'
    BY <1>5 DEF PowerLoss, TypeOK, CallerTypes, history
  <2>3. publisher' \in [Writer -> Publishers]
    BY <1>5, MadeTypes DEF PowerLoss
  <2> QED BY <2>1, <2>2, <2>3 DEF TypeOK
<1>6. ASSUME TypeOK, UNCHANGED vars PROVE TypeOK'
  BY <1>6 DEF vars, storage, history, TypeOK, StorageTypes, CallerTypes
<1> QED BY <1>2, <1>3, <1>4, <1>5, <1>6, <1>7, <1>8, <1>9, <1>10 DEF Next, Step

THEOREM TypeCorrect == Spec => []TypeOK
<1>1. Init => TypeOK
  BY TypesAtFirst, MadeTypes DEF Init, TypeOK
<1> QED BY <1>1, TypeStep, PTL DEF Spec

----------------------------------------------------------------------------
(* The storage invariant.  In each version of the directory the names name *)
(* files of their own, and the destination one that is whole and on disk;  *)
(* no staging file is the destination of any version that may come back.   *)

Separate(d) ==
  \A w \in Writer : d[w] # Absent =>
    d[w] # d[dest] /\ \A v \in Writer \ {w} : d[w] # d[v]

Whole(d) ==
  d[dest] \in Publication /\ cache[d[dest]] = disk[d[dest]] /\ cache[d[dest]] \in Publication

Survivable ==
  /\ entries \in survivors
  /\ \A d \in survivors :
       /\ Separate(d) /\ Whole(d)
       /\ \A w \in Writer : entries[w] # Absent => entries[w] # d[dest]
       /\ \A n \in Name : d[n] <= calls

Staged ==
  \A w \in Writer :
    /\ pc[w] \in {"write", "fsync", "replace"} => entries[w] # Absent
    /\ pc[w] \in {"fsync", "replace"} => cache[entries[w]] = current[w]
    /\ pc[w] = "replace" => disk[entries[w]] = current[w]

StorageInv == Survivable /\ Staged

USE NameAssumption, BoundAssumption

LEMMA StorageOpen ==
  ASSUME TypeOK, StorageInv, NEW w \in Writer, Open(w)
  PROVE  StorageInv'
<1> USE DEF TypeOK, StorageTypes, CallerTypes
<1>1. calls' \in Publication /\ calls' = calls + 1
  BY DEF Open, Publication
<1>2. CASE entries[w] = Absent
  <2>1. /\ entries' = [entries EXCEPT ![w] = calls'] /\ survivors' = survivors \cup {entries'}
        /\ cache' = cache /\ disk' = disk
    BY <1>2 DEF Open, Directory_becomes
  <2>2. entries' \in Directory
    BY <1>1, <2>1 DEF Directory
  <2>3. \A n \in Name : entries'[n] = IF n = w THEN calls' ELSE entries[n]
    BY <2>1 DEF Directory
  <2>4. \A d \in survivors : \A n \in Name : d[n] # calls' /\ d[n] <= calls'
    <3> SUFFICES ASSUME NEW d \in survivors, NEW n \in Name PROVE d[n] # calls' /\ d[n] <= calls'
        OBVIOUS
    <3>1. d[n] \in Publication \cup {Absent} /\ d[n] <= calls
      BY DEF StorageInv, Survivable, Directory
    <3> QED BY <3>1, <1>1 DEF Publication, Absent
  <2>5. calls' # Absent /\ calls' <= calls'
    BY <1>1 DEF Absent, Publication
  <2>6. Survivable'
    <3>1. entries'[dest] = entries[dest] /\ \A v \in Writer : v # w => entries'[v] = entries[v]
      BY <2>3 DEF Name
    <3>2. /\ entries \in survivors /\ Separate(entries)
          /\ \A v \in Writer : entries[v] # calls' /\ entries[dest] # calls'
      BY <2>4 DEF StorageInv, Survivable, Name
    <3>3. Separate(entries')
      BY <2>3, <3>1, <3>2 DEF Separate, Name
    <3>4. \A d \in survivors' : Whole(d)'
      <4>1. PICK e : e = entries'
        OBVIOUS
      <4>2. Whole(e)'
        BY <2>1, <3>1, <3>2, <4>1 DEF StorageInv, Survivable, Whole
      <4>3. \A d \in survivors : Whole(d)'
        BY <2>1 DEF StorageInv, Survivable, Whole
      <4> QED BY <2>1, <4>1, <4>2, <4>3
    <3>5. \A d \in survivors' : Separate(d)
      BY <2>1, <3>3 DEF StorageInv, Survivable
    <3>6. \A d \in survivors', v \in Writer : entries'[v] # Absent => entries'[v] # d[dest]
      <4>1. \A v \in Writer : entries'[v] # Absent => entries'[v] # entries'[dest]
        BY <3>3 DEF Separate
      <4>2. \A d \in survivors, v \in Writer : entries'[v] # Absent => entries'[v] # d[dest]
        BY <2>3, <2>4, <3>1 DEF StorageInv, Survivable, Name
      <4> QED BY <2>1, <4>1, <4>2
    <3>7. \A d \in survivors', n \in Name : d[n] <= calls'
      BY <2>1, <2>3, <2>4, <2>5, <3>2
    <3> QED BY <2>1, <3>4, <3>5, <3>6, <3>7 DEF Survivable, Separate
  <2>7. \A v \in Writer : v # w => entries'[v] = entries[v] /\ pc'[v] = pc[v]
                                    /\ current'[v] = current[v]
    BY <2>3 DEF Open, Name
  <2>8. Staged'
    BY <2>1, <2>3, <2>5, <2>7 DEF StorageInv, Staged, Open, Name
  <2> QED BY <2>6, <2>8 DEF StorageInv
<1>3. CASE entries[w] # Absent
  <2>1. /\ entries' = entries /\ survivors' = survivors /\ disk' = disk
        /\ cache' = [cache EXCEPT ![entries[w]] = Torn]
    BY <1>3 DEF Open
  <2>2. \A f \in Publication : f # entries[w] => cache'[f] = cache[f]
    BY <2>1
  <2>3. \A d \in survivors : Whole(d)'
    BY <1>3, <2>1, <2>2 DEF StorageInv, Survivable, Whole
  <2>4. \A d \in survivors, n \in Name : d[n] <= calls'
    <3> SUFFICES ASSUME NEW d \in survivors, NEW n \in Name PROVE d[n] <= calls'
        OBVIOUS
    <3>1. d[n] \in Publication \cup {Absent} /\ d[n] <= calls
      BY DEF StorageInv, Survivable, Directory
    <3> QED BY <3>1, <1>1 DEF Publication, Absent
  <2>5. Survivable'
    BY <2>1, <2>3, <2>4 DEF StorageInv, Survivable, Separate
  <2>6. \A v \in Writer : entries[v] \in Publication \cup {Absent}
    BY DEF Directory, Name
  <2>7. \A v \in Writer : v # w /\ entries[v] # Absent => cache'[entries[v]] = cache[entries[v]]
    BY <1>3, <2>2, <2>6 DEF StorageInv, Survivable, Separate
  <2>8. Staged'
    BY <1>3, <2>1, <2>7 DEF StorageInv, Staged, Open
  <2> QED BY <2>5, <2>8 DEF StorageInv
<1> QED BY <1>2, <1>3

LEMMA StorageWrite ==
  ASSUME TypeOK, StorageInv, NEW w \in Writer, Write(w) \/ FileSync(w)
  PROVE  StorageInv'
<1> USE DEF TypeOK, StorageTypes, CallerTypes
<1>1. /\ entries' = entries /\ survivors' = survivors /\ calls' = calls
      /\ current' = current /\ entries[w] # Absent
  BY DEF Write, FileSync, StorageInv, Staged
<1>2. \A v \in Writer : entries[v] \in Publication \cup {Absent}
  BY DEF Directory, Name
<1>3. \A f \in Publication : f # entries[w] => cache'[f] = cache[f] /\ disk'[f] = disk[f]
  BY <1>1, <1>2 DEF Write, FileSync
<1>4. \A d \in survivors : Whole(d)'
  BY <1>1, <1>3 DEF StorageInv, Survivable, Whole
<1>5. Survivable'
  BY <1>1, <1>4 DEF StorageInv, Survivable, Separate
<1>6. \A v \in Writer : v # w /\ entries[v] # Absent =>
        cache'[entries[v]] = cache[entries[v]] /\ disk'[entries[v]] = disk[entries[v]]
  BY <1>1, <1>2, <1>3 DEF StorageInv, Survivable, Separate
<1>7. \A v \in Writer : v # w => pc'[v] = pc[v]
  BY DEF Write, FileSync, Raise
<1>8. entries[w] \in Publication
  BY <1>1, <1>2
<1>9. /\ pc'[w] \in {"fsync", "replace"} => cache'[entries[w]] = current[w]
      /\ pc'[w] = "replace" => disk'[entries[w]] = current[w]
  <2>1. CASE Write(w)
    BY <1>8, <2>1 DEF Write
  <2>2. CASE FileSync(w)
    BY <1>8, <2>2 DEF FileSync, Raise, StorageInv, Staged
  <2> QED BY <2>1, <2>2
<1>10. Staged'
  BY <1>1, <1>6, <1>7, <1>9 DEF StorageInv, Staged
<1> QED BY <1>5, <1>10 DEF StorageInv

LEMMA StorageReplace ==
  ASSUME TypeOK, StorageInv, NEW w \in Writer, Replace(w), Rename(w)
  PROVE  StorageInv'
<1> USE DEF TypeOK, StorageTypes, CallerTypes
<1>1. /\ entries' = [entries EXCEPT ![dest] = entries[w], ![w] = Absent]
      /\ survivors' = survivors \cup {entries'}
      /\ cache' = cache /\ disk' = disk /\ calls' = calls /\ current' = current
  BY DEF Rename, Directory_becomes, Replace
<1>2. /\ entries'[dest] = entries[w] /\ entries'[w] = Absent
      /\ \A v \in Writer : v # w => entries'[v] = entries[v]
  BY <1>1 DEF Directory, Name
<1>3. /\ entries[w] \in Publication
      /\ cache[entries[w]] = current[w] /\ disk[entries[w]] = current[w]
      /\ current[w] \in Publication
  BY DEF Replace, StorageInv, Staged, Directory, Name
<1>4. entries \in survivors /\ Separate(entries)
  BY DEF StorageInv, Survivable
<1>5. Separate(entries')
  <2>1. \A v \in Writer : v # w /\ entries[v] # Absent => entries[v] # entries[w]
    BY <1>4 DEF Separate
  <2> QED BY <1>2, <1>4, <2>1 DEF Separate
<1>6. \A d \in survivors' : Separate(d) /\ Whole(d)'
  <2>1. PICK e : e = entries'
    OBVIOUS
  <2>2. Whole(e)'
    BY <1>1, <1>2, <1>3, <2>1 DEF Whole
  <2>3. \A d \in survivors : Separate(d) /\ Whole(d)'
    BY <1>1 DEF StorageInv, Survivable, Whole
  <2> QED BY <1>1, <1>5, <2>1, <2>2, <2>3
<1>7. \A d \in survivors', v \in Writer : entries'[v] # Absent => entries'[v] # d[dest]
  <2>1. \A v \in Writer : entries'[v] # Absent => entries'[v] # entries'[dest]
    BY <1>5 DEF Separate
  <2>2. \A d \in survivors, v \in Writer : entries'[v] # Absent => entries'[v] # d[dest]
    BY <1>2 DEF StorageInv, Survivable
  <2> QED BY <1>1, <2>1, <2>2
<1>8. \A d \in survivors', n \in Name : d[n] <= calls'
  <2>1. \A n \in Name : entries'[n] <= calls
    <3>1. \A n \in Name : entries[n] <= calls
      BY DEF StorageInv, Survivable
    <3>2. w \in Name /\ calls \in Nat
      BY DEF Name, Publication
    <3>3. Absent <= calls
      BY <3>2 DEF Absent
    <3> QED BY <1>2, <3>1, <3>2, <3>3 DEF Name
  <2> QED BY <1>1, <2>1 DEF StorageInv, Survivable
<1>9. Survivable'
  BY <1>1, <1>6, <1>7, <1>8 DEF Survivable, Separate
<1>10. Staged'
  <2>1. pc'[w] \in {"idle", "dir_fsync"} /\ \A v \in Writer : v # w => pc'[v] = pc[v]
    BY DEF Replace, Raise
  <2>2. SUFFICES ASSUME NEW v \in Writer, v # w
        PROVE  /\ pc[v] \in {"write", "fsync", "replace"} => entries'[v] # Absent
               /\ pc[v] \in {"fsync", "replace"} => cache[entries'[v]] = current[v]
               /\ pc[v] = "replace" => disk[entries'[v]] = current[v]
    BY <1>1, <2>1 DEF Staged
  <2> QED BY <1>2, <2>2 DEF StorageInv, Staged
<1> QED BY <1>9, <1>10 DEF StorageInv

\* A call that ends without a rename, a kill: the storage stays, no staging file is needed.
LEMMA StorageUntouched ==
  ASSUME TypeOK, StorageInv, UNCHANGED <<entries, cache, disk, calls, current>>,
         survivors' \in {survivors, {entries}},
         \A w \in Writer : pc'[w] \in {pc[w], "idle"}
  PROVE  StorageInv'
<1>1. Survivable'
  BY DEF StorageInv, Survivable, Separate, Whole
<1>2. Staged'
  BY DEF StorageInv, Staged
<1> QED BY <1>1, <1>2 DEF StorageInv

LEMMA StoragePowerLoss ==
  ASSUME TypeOK, StorageInv, PowerLoss
  PROVE  StorageInv'
<1> USE DEF TypeOK, StorageTypes, CallerTypes
<1>1. PICK d \in survivors : entries' = d /\ survivors' = {d}
  BY DEF PowerLoss
<1>2. calls' = calls /\ disk' = cache' /\ \A w \in Writer : pc'[w] = "idle"
  BY DEF PowerLoss
<1>3. \A f \in Publication : cache[f] = disk[f] => cache'[f] = cache[f]
  BY DEF PowerLoss, Unsynced
<1>4. Separate(d) /\ Whole(d)' /\ \A n \in Name : d[n] <= calls
  BY <1>2, <1>3 DEF StorageInv, Survivable, Whole
<1>5. Survivable'
  BY <1>1, <1>2, <1>4 DEF Survivable, Separate
<1>6. Staged'
  BY <1>2 DEF Staged
<1> QED BY <1>5, <1>6 DEF StorageInv

LEMMA StorageAtFirst == NothingStarted => StorageInv
BY DEF NothingStarted, StorageInv, Survivable, Separate, Whole, Staged, Name, Absent, Publication

LEMMA StorageStep == TypeOK /\ StorageInv /\ [Next]_vars => StorageInv'
<1>2. ASSUME TypeOK, StorageInv, NEW w \in Writer, Replace(w) PROVE StorageInv'
  <2>1. CASE Rename(w)
    BY <1>2, <2>1, StorageReplace
  <2>2. CASE ~Rename(w)
    BY <1>2, <2>2, StorageUntouched DEF Replace, Raise, TypeOK, CallerTypes
  <2> QED BY <2>1, <2>2
<1>3. ASSUME TypeOK, StorageInv, NEW w \in Writer, DirectorySync(w) \/ StorageFails(w) \/ Kill(w)
      PROVE  StorageInv'
  BY <1>3, StorageUntouched DEF DirectorySync, StorageFails, Kill, Restart, Return, Raise, TypeOK,
     CallerTypes, storage
<1>4. ASSUME TypeOK, StorageInv, UNCHANGED vars PROVE StorageInv'
  BY <1>4, StorageUntouched DEF vars, storage
<1> QED BY <1>2, <1>3, <1>4, StorageOpen, StorageWrite, StoragePowerLoss DEF Next, Step

LEMMA StorageInvariance == Spec => []StorageInv
<1>1. Init => StorageInv
  BY StorageAtFirst DEF Init
<1> QED BY <1>1, StorageStep, TypeCorrect, PTL DEF Spec

LEMMA CompleteByStorage == TypeOK /\ StorageInv => DestinationIsComplete
BY DEF StorageInv, Survivable, Whole, DestinationIsComplete, Publication, Absent

\* Whatever fails or crashes, the destination is one publication, whole.
THEOREM DestinationsAreComplete == Spec => []DestinationIsComplete
BY CompleteByStorage, TypeCorrect, StorageInvariance, PTL

----------------------------------------------------------------------------
(* Which publications reached the destination.                             *)

LedgerOf(w) ==
  /\ current[w] <= calls
  /\ pc[w] # "idle" => current[w] > 0 /\ outcome[w] = "none"
  /\ current[w] > 0 => \A v \in Writer \ {w} : current[w] # current[v]
  /\ pc[w] \in {"write", "fsync", "replace"} => current[w] \notin Published
  /\ pc[w] = "dir_fsync" => current[w] \in Published /\ entries[w] = Absent
  /\ outcome[w] \in {"fsync", "replace"} =>
       /\ current[w] \notin Published /\ current[w] > 0
       /\ entries[w] # Absent /\ cache[entries[w]] = current[w]
  /\ outcome[w] \in {"dir_fsync", "returned"} =>
       current[w] \in Published /\ entries[w] = Absent

LedgerGlobal ==
  /\ \A i \in DOMAIN published : published[i] \in 1..calls
  /\ returned \subseteq Published

Ledger == LedgerGlobal /\ \A w \in Writer : LedgerOf(w)

LEMMA PublishedGrows ==
  ASSUME TypeOK, NEW w \in Writer, published' = Append(published, current[w])
  PROVE  /\ Published' = Published \cup {current[w]}
         /\ DOMAIN published' = 1..Len(published) + 1 /\ Len(published') = Len(published) + 1
         /\ \A i \in DOMAIN published : published'[i] = published[i]
         /\ published'[Len(published) + 1] = current[w]
         /\ DOMAIN published = 1..Len(published) /\ Len(published) \in Nat
<1>1. published \in Seq(Publication) /\ current[w] \in Publication
  BY DEF TypeOK, CallerTypes
<1>2. /\ DOMAIN published' = 1..Len(published) + 1 /\ Len(published') = Len(published) + 1
      /\ \A i \in DOMAIN published : published'[i] = published[i]
      /\ published'[Len(published) + 1] = current[w]
      /\ DOMAIN published = 1..Len(published) /\ Len(published) \in Nat
  BY <1>1
<1>3. DOMAIN published' = DOMAIN published \cup {Len(published) + 1}
  BY <1>2
<1> QED BY <1>2, <1>3 DEF Published

\* What the other writers staged is theirs alone.
LEMMA OthersStaging ==
  ASSUME TypeOK, StorageInv, NEW w \in Writer, Step(w)
  PROVE  \A v \in Writer \ {w} :
           /\ pc'[v] = pc[v] /\ current'[v] = current[v] /\ outcome'[v] = outcome[v]
           /\ entries'[v] = entries[v]
           /\ entries[v] # Absent => cache'[entries[v]] = cache[entries[v]]
<1> USE DEF TypeOK, StorageTypes, CallerTypes
<1> SUFFICES ASSUME NEW v \in Writer, v # w
    PROVE  /\ pc'[v] = pc[v] /\ current'[v] = current[v] /\ outcome'[v] = outcome[v]
           /\ entries'[v] = entries[v]
           /\ entries[v] # Absent => cache'[entries[v]] = cache[entries[v]]
    OBVIOUS
<1>1. pc'[v] = pc[v] /\ current'[v] = current[v] /\ outcome'[v] = outcome[v]
  BY DEF Step, Open, Write, FileSync, Replace, DirectorySync, StorageFails, Raise, Return
<1>2. v # dest /\ v \in Name
  BY DEF Name
<1>3. entries'[v] = entries[v]
  BY <1>2 DEF Step, Open, Write, FileSync, Replace, Rename, DirectorySync, StorageFails,
              Directory_becomes, Directory, storage
<1>4. ASSUME entries[v] # Absent PROVE cache'[entries[v]] = cache[entries[v]]
  <2>1. entries[v] # entries[w] /\ entries[v] \in Publication
    BY <1>2, <1>4 DEF StorageInv, Survivable, Separate, Directory
  <2> QED BY <2>1 DEF Step, Open, Write, FileSync, Replace, DirectorySync, StorageFails, storage
<1> QED BY <1>1, <1>3, <1>4

LEMMA LedgerOfOthers ==
  ASSUME TypeOK, StorageInv, Ledger, NEW w \in Writer, Step(w), calls <= calls', calls' \in Nat,
         current'[w] = current[w] \/ current'[w] > calls,
         Published \subseteq Published', Published' \subseteq Published \cup {current[w]},
         current[w] \in Published' => current[w] \in Published \/ current[w] > 0
  PROVE  \A v \in Writer \ {w} : LedgerOf(v)'
<1> SUFFICES ASSUME NEW v \in Writer, v # w PROVE LedgerOf(v)'
    OBVIOUS
<1>1. /\ pc'[v] = pc[v] /\ current'[v] = current[v] /\ outcome'[v] = outcome[v]
      /\ entries'[v] = entries[v]
      /\ entries[v] # Absent => cache'[entries[v]] = cache[entries[v]]
  BY OthersStaging
<1>2. LedgerOf(v) /\ LedgerOf(w)
  BY DEF Ledger
<1>3. current[v] \in Nat /\ current[w] \in Nat /\ calls \in Nat
  BY DEF TypeOK, StorageTypes, CallerTypes, Publication
<1>4. current[v] <= calls'
  BY <1>2, <1>3 DEF LedgerOf
<1>5. current[v] > 0 => \A u \in Writer \ {v} : current[v] # current'[u]
  <2> SUFFICES ASSUME current[v] > 0, NEW u \in Writer, u # v PROVE current[v] # current'[u]
      OBVIOUS
  <2>1. CASE u = w
    BY <1>2, <1>3, <2>1 DEF LedgerOf
  <2>2. CASE u # w
    BY <1>2, <2>2, OthersStaging DEF LedgerOf
  <2> QED BY <2>1, <2>2
<1>6. current[v] > 0 /\ current[v] \notin Published => current[v] \notin Published'
  BY <1>2 DEF LedgerOf
<1> HIDE DEF Published
<1>7. pc[v] \in {"write", "fsync", "replace"} => current[v] \notin Published'
  BY <1>2, <1>6 DEF LedgerOf
<1>8. outcome[v] \in {"fsync", "replace"} => current[v] \notin Published'
  BY <1>2, <1>6 DEF LedgerOf
<1> QED BY <1>1, <1>2, <1>4, <1>5, <1>7, <1>8 DEF LedgerOf

LEMMA LedgerStep ==
  ASSUME TypeOK, StorageInv, Ledger, NEW w \in Writer, Step(w)
  PROVE  Ledger'
<1>1. /\ LedgerOf(w) /\ LedgerGlobal /\ calls \in Nat /\ current[w] \in Nat
      /\ pc \in [Writer -> {"idle", "write", "fsync", "replace", "dir_fsync"}]
      /\ current \in [Writer -> Publication]
      /\ outcome \in [Writer -> {"none", "returned", "write"} \cup Operations]
      /\ \A v \in Writer : current[v] \in Nat /\ current[v] <= calls
  BY DEF Ledger, LedgerOf, TypeOK, StorageTypes, CallerTypes, Publication
<1>2. \A v \in Writer \ {w} : current'[v] = current[v]
  BY OthersStaging
<1>3. CASE Open(w)
  <2>1. published' = published /\ returned' = returned /\ calls' = calls + 1
    BY <1>3 DEF Open, history
  <2>2. current'[w] = calls' /\ pc'[w] = "write" /\ outcome'[w] = "none"
    BY <1>1, <1>3 DEF Open
  <2>3. Published' = Published /\ LedgerGlobal' /\ calls' \notin Published
    BY <1>1, <2>1 DEF LedgerGlobal, Published
  <2>4. LedgerOf(w)'
    BY <1>1, <1>2, <2>1, <2>2, <2>3 DEF LedgerOf
  <2>5. calls <= calls' /\ calls' \in Nat /\ current'[w] > calls
    BY <1>1, <2>1, <2>2
  <2> QED BY <2>3, <2>4, <2>5, LedgerOfOthers DEF Ledger
<1>4. CASE Write(w) \/ FileSync(w) \/ StorageFails(w) \/ DirectorySync(w)
  <2>1. /\ published' = published /\ calls' = calls
        /\ current' = current /\ entries' = entries
    BY <1>4 DEF Write, FileSync, StorageFails, DirectorySync, history, storage
  <2>2. Published' = Published
    BY <2>1 DEF Published
  <2>3. CASE Write(w)
    <3>1. pc[w] = "write" /\ pc'[w] = "fsync" /\ outcome' = outcome /\ returned' = returned
      BY <1>1, <2>3 DEF Write, history
    <3> QED BY <1>1, <2>1, <2>2, <3>1, LedgerOfOthers DEF Ledger, LedgerOf, LedgerGlobal
  <2>4. CASE FileSync(w)
    <3>1. \/ pc'[w] = "replace" /\ outcome'[w] = outcome[w]
          \/ pc'[w] = "idle" /\ outcome'[w] = "fsync"
      BY <1>1, <2>4 DEF FileSync, Raise
    <3>2. pc[w] = "fsync" /\ cache' = cache /\ returned' = returned
      BY <2>4 DEF FileSync, history
    <3>3. LedgerOf(w)'
      BY <1>1, <2>1, <2>2, <3>1, <3>2 DEF LedgerOf, StorageInv, Staged
    <3> QED BY <1>1, <2>1, <2>2, <3>2, <3>3, LedgerOfOthers DEF Ledger, LedgerGlobal
  <2>5. CASE StorageFails(w)
    <3>1. /\ pc[w] # "idle" /\ pc'[w] = "idle" /\ outcome'[w] = pc[w] /\ cache' = cache
          /\ returned' = returned
      BY <1>1, <2>5 DEF StorageFails, Raise, storage, history
    <3>2. LedgerOf(w)'
      BY <1>1, <2>1, <2>2, <3>1 DEF LedgerOf, StorageInv, Staged
    <3> QED BY <1>1, <2>1, <2>2, <3>1, <3>2, LedgerOfOthers DEF Ledger, LedgerGlobal
  <2>6. CASE DirectorySync(w)
    <3>1. /\ pc[w] = "dir_fsync" /\ pc'[w] = "idle"
          /\ outcome'[w] \in {"dir_fsync", "returned"}
          /\ returned' \subseteq returned \cup {current[w]}
      BY <1>1, <2>6 DEF DirectorySync, Raise, Return
    <3>2. LedgerOf(w)'
      BY <1>1, <2>1, <2>2, <3>1 DEF LedgerOf
    <3>3. LedgerGlobal'
      BY <1>1, <2>1, <2>2, <3>1 DEF LedgerOf, LedgerGlobal
    <3> QED BY <1>1, <2>1, <2>2, <3>2, <3>3, LedgerOfOthers DEF Ledger
  <2> QED BY <1>4, <2>3, <2>4, <2>5, <2>6
<1>5. CASE Replace(w)
  <2>1. calls' = calls /\ current' = current /\ returned' = returned /\ cache' = cache
        /\ pc[w] = "replace"
    BY <1>5 DEF Replace
  <2>2. CASE Fires(publisher[w].replace, "replace")
    <3>1. /\ entries' = entries /\ published' = published
          /\ pc'[w] = "idle" /\ outcome'[w] = "replace"
      BY <1>1, <1>5, <2>2, <2>1 DEF Replace, Raise
    <3>2. Published' = Published
      BY <3>1 DEF Published
    <3>3. LedgerOf(w)'
      BY <1>1, <2>1, <3>1, <3>2 DEF LedgerOf, StorageInv, Staged
    <3> QED BY <1>1, <2>1, <3>1, <3>2, <3>3, LedgerOfOthers DEF Ledger, LedgerGlobal
  <2>3. CASE ~Fires(publisher[w].replace, "replace")
    <3>1. Rename(w) /\ pc'[w] = "dir_fsync" /\ outcome'[w] = outcome[w]
      BY <1>1, <1>5, <2>3 DEF Replace
    <3>2. Published' = Published \cup {current[w]} /\ current[w] \in 1..calls
      BY <1>1, <2>1, <3>1, PublishedGrows DEF Rename, LedgerOf
    <3>3. LedgerGlobal'
      <4>1. \A x \in Published : x \in 1..calls
        BY <1>1 DEF LedgerGlobal, Published
      <4>2. \A i \in DOMAIN published' : published'[i] \in Published'
        BY DEF Published
      <4> QED BY <1>1, <2>1, <3>2, <4>1, <4>2 DEF LedgerGlobal
    <3>4. entries'[w] = Absent
      BY <3>1 DEF Rename, Directory_becomes, Directory, Name, TypeOK, StorageTypes
    <3>5. LedgerOf(w)'
      BY <1>1, <2>1, <3>1, <3>2, <3>4 DEF LedgerOf
    <3> QED BY <1>1, <2>1, <3>2, <3>3, <3>5, LedgerOfOthers DEF Ledger
  <2> QED BY <2>2, <2>3
<1> QED BY <1>3, <1>4, <1>5 DEF Step

LEMMA LedgerAtFirst == NothingStarted => Ledger
BY DEF NothingStarted, Ledger, LedgerOf, LedgerGlobal, Published, Publication

LEMMA LedgerKept == TypeOK /\ StorageInv /\ Ledger /\ [Next]_vars => Ledger'
<1>2. ASSUME TypeOK, Ledger, PowerLoss \/ \E w \in Writer : Kill(w) PROVE Ledger'
  <2>1. published' = published /\ returned' = returned /\ calls' = calls /\ current' = current
    BY <1>2 DEF PowerLoss, Kill, history
  <2>2. Published' = Published /\ LedgerGlobal'
    BY <1>2, <2>1 DEF Ledger, LedgerGlobal, Published
  <2>3. CASE PowerLoss
    <3>1. \A v \in Writer : pc'[v] = "idle" /\ outcome'[v] = "none"
      BY <2>3 DEF PowerLoss
    <3> QED BY <1>2, <2>1, <2>2, <3>1 DEF Ledger, LedgerOf
  <2>4. ASSUME NEW w \in Writer, Kill(w) PROVE Ledger'
    <3>1. /\ entries' = entries /\ cache' = cache
          /\ pc'[w] = "idle" /\ outcome'[w] = "none"
          /\ \A v \in Writer \ {w} : pc'[v] = pc[v] /\ outcome'[v] = outcome[v]
      BY <1>2, <2>4 DEF Kill, Restart, storage, TypeOK, CallerTypes
    <3>2. \A v \in Writer : LedgerOf(v)
      BY <1>2 DEF Ledger
    <3>3. LedgerOf(w)'
      BY <2>1, <2>2, <3>1, <3>2 DEF LedgerOf
    <3>4. \A v \in Writer \ {w} : LedgerOf(v)'
      BY <2>1, <2>2, <3>1, <3>2 DEF LedgerOf
    <3> QED BY <2>2, <3>3, <3>4 DEF Ledger
  <2> QED BY <1>2, <2>3, <2>4
<1>3. ASSUME Ledger, UNCHANGED vars PROVE Ledger'
  BY <1>3 DEF vars, storage, history, Ledger, LedgerOf, LedgerGlobal, Published
<1> QED BY <1>2, <1>3, LedgerStep DEF Next

LEMMA LedgerInvariance == Spec => []Ledger
<1>1. Init => Ledger
  BY LedgerAtFirst DEF Init
<1> QED BY <1>1, LedgerKept, TypeCorrect, StorageInvariance, PTL DEF Spec

LEMMA TruthfulByLedger == Ledger => FailureIsTruthful
BY DEF Ledger, LedgerOf, FailureIsTruthful

\* A failed call says truly whether its payload was published.
THEOREM FailuresAreTruthful == Spec => []FailureIsTruthful
BY TruthfulByLedger, LedgerInvariance, PTL

----------------------------------------------------------------------------
(* A returned publication is not lost.  No version of the directory that   *)
(* may come back is older than a publication that returned; the directory  *)
(* fsync of a writer finds the destination at its publication or a later   *)
(* one.                                                                    *)

NotOlder(d, i) == \E j \in i..Len(published) : cache[d[dest]] = published[j]

Durable ==
  /\ \A d \in survivors, i \in DOMAIN published : published[i] \in returned => NotOlder(d, i)
  /\ \A w \in Writer, i \in DOMAIN published :
       pc[w] = "dir_fsync" /\ published[i] = current[w] => NotOlder(entries, i)

\* Steps that rename nothing and leave alone what the surviving destinations hold.
LEMMA DurableUntouched ==
  ASSUME TypeOK, StorageInv, Durable, published' = published, returned' = returned,
         \A d \in survivors : cache'[d[dest]] = cache[d[dest]],
         \A d \in survivors' : \E e \in survivors : d[dest] = e[dest],
         \A w \in Writer : pc'[w] = "dir_fsync" =>
           pc[w] = "dir_fsync" /\ current'[w] = current[w] /\ entries'[dest] = entries[dest]
  PROVE  Durable'
<1>1. \A d \in survivors', i \in DOMAIN published : published[i] \in returned => NotOlder(d, i)'
  <2> SUFFICES ASSUME NEW d \in survivors', NEW i \in DOMAIN published, published[i] \in returned
               PROVE  NotOlder(d, i)'
      OBVIOUS
  <2>1. PICK e \in survivors : d[dest] = e[dest]
    OBVIOUS
  <2> QED BY <2>1 DEF Durable, NotOlder
<1>2. \A w \in Writer, i \in DOMAIN published :
        pc'[w] = "dir_fsync" /\ published[i] = current'[w] => NotOlder(entries, i)'
  BY DEF Durable, NotOlder, StorageInv, Survivable
<1> QED BY <1>1, <1>2 DEF Durable

LEMMA DurableReplace ==
  ASSUME TypeOK, StorageInv, Ledger, Durable, NEW w \in Writer, Replace(w), Rename(w)
  PROVE  Durable'
<1>1. /\ pc[w] = "replace" /\ cache' = cache /\ returned' = returned /\ current' = current
      /\ survivors' = survivors \cup {entries'}
      /\ published' = Append(published, current[w])
  BY DEF Replace, Rename, Directory_becomes
<1>2. cache[entries'[dest]] = current[w]
  BY <1>1 DEF StorageInv, Staged, Rename, Directory_becomes, TypeOK, StorageTypes, Directory,
     Name
<1>3. current[w] \notin returned
  BY <1>1 DEF Ledger, LedgerOf, LedgerGlobal
<1>4. /\ DOMAIN published' = 1..Len(published) + 1 /\ Len(published') = Len(published) + 1
      /\ \A i \in DOMAIN published : published'[i] = published[i]
      /\ published'[Len(published) + 1] = current[w]
      /\ DOMAIN published = 1..Len(published) /\ Len(published) \in Nat
  BY <1>1, PublishedGrows
<1>5. \A i \in DOMAIN published' : NotOlder(entries, i)'
  BY <1>1, <1>2, <1>4 DEF NotOlder
<1>6. ASSUME NEW d \in survivors', NEW i \in DOMAIN published', published'[i] \in returned
      PROVE  NotOlder(d, i)'
  <2>1. CASE d = entries'
    BY <1>5, <2>1 DEF NotOlder
  <2>2. CASE d \in survivors
    <3>1. i \in DOMAIN published /\ published[i] \in returned
      BY <1>3, <1>4, <1>6
    <3>2. PICK j \in i..Len(published) : cache[d[dest]] = published[j]
      BY <2>2, <3>1 DEF Durable, NotOlder
    <3>3. i \in Nat /\ j \in Nat /\ j \in DOMAIN published
      BY <1>4, <3>1
    <3>4. published'[j] = published[j] /\ j \in i..Len(published')
      BY <1>4, <3>3
    <3> QED BY <1>1, <3>2, <3>4 DEF NotOlder
  <2> QED BY <1>1, <2>1, <2>2
<1> QED BY <1>1, <1>5, <1>6 DEF Durable

LEMMA DurableSync ==
  ASSUME TypeOK, StorageInv, Ledger, Durable, NEW w \in Writer, DirectorySync(w)
  PROVE  Durable'
<1>1. CASE Fires(publisher[w].dir_fsync, "dir_fsync")
  <2>1. /\ UNCHANGED <<entries, survivors, cache, published, returned, current>>
        /\ \A v \in Writer : pc'[v] = "dir_fsync" => pc[v] = "dir_fsync"
    BY <1>1 DEF DirectorySync, Raise, TypeOK, CallerTypes
  <2> QED BY <2>1, DurableUntouched
<1>2. CASE ~Fires(publisher[w].dir_fsync, "dir_fsync")
  <2>1. /\ UNCHANGED <<entries, cache, published, current>>
        /\ survivors' = {entries} /\ returned' = returned \cup {current[w]}
        /\ pc[w] = "dir_fsync"
        /\ \A v \in Writer : pc'[v] = "dir_fsync" => pc[v] = "dir_fsync"
    BY <1>2 DEF DirectorySync, Return, TypeOK, CallerTypes
  <2>2. \A i \in DOMAIN published : published[i] \in returned' => NotOlder(entries, i)
    BY <2>1 DEF Durable, StorageInv, Survivable
  <2> QED BY <2>1, <2>2 DEF Durable, NotOlder
<1> QED BY <1>1, <1>2

LEMMA DurableStep ==
  ASSUME TypeOK, StorageInv, Ledger, Durable, NEW w \in Writer, Step(w)
  PROVE  Durable'
<1> USE DEF TypeOK, StorageTypes, CallerTypes
<1>1. entries[w] \in Publication \cup {Absent} /\ w # dest
  BY DEF Directory, Name
<1>2. \A d \in survivors : d[dest] \in Publication /\ (entries[w] # Absent => entries[w] # d[dest])
  BY DEF StorageInv, Survivable, Whole
<1>3. CASE Open(w)
  <2>1. UNCHANGED history /\ pc'[w] = "write"
        /\ \A v \in Writer \ {w} : pc'[v] = pc[v] /\ current'[v] = current[v]
    BY <1>3 DEF Open
  <2>2. entries'[dest] = entries[dest] /\ survivors' \subseteq survivors \cup {entries'}
    BY <1>1, <1>3 DEF Open, Directory_becomes, Directory, Name
  <2>3. \A d \in survivors : cache'[d[dest]] = cache[d[dest]]
    BY <1>2, <1>3 DEF Open
  <2> QED BY <2>1, <2>2, <2>3, DurableUntouched DEF history, StorageInv, Survivable
<1>4. CASE Write(w) \/ FileSync(w) \/ StorageFails(w)
  <2>1. UNCHANGED <<history, entries, survivors, current>>
        /\ \A v \in Writer : pc'[v] = "dir_fsync" => pc[v] = "dir_fsync"
    BY <1>4 DEF Write, FileSync, StorageFails, Raise, storage
  <2>2. \A d \in survivors : cache'[d[dest]] = cache[d[dest]]
    <3>1. CASE Write(w)
      BY <1>2, <3>1 DEF Write, StorageInv, Staged
    <3>2. CASE FileSync(w) \/ StorageFails(w)
      BY <3>2 DEF FileSync, StorageFails, storage
    <3> QED BY <1>4, <3>1, <3>2
  <2> QED BY <2>1, <2>2, DurableUntouched DEF history
<1>5. CASE Replace(w)
  <2>1. CASE Rename(w)
    BY <1>5, <2>1, DurableReplace
  <2>2. CASE ~Rename(w)
    <3>1. UNCHANGED <<entries, survivors, cache, published, returned, current>>
          /\ \A v \in Writer : pc'[v] = "dir_fsync" => pc[v] = "dir_fsync"
      BY <1>5, <2>2 DEF Replace, Raise
    <3> QED BY <3>1, DurableUntouched
  <2> QED BY <2>1, <2>2
<1>6. CASE DirectorySync(w)
  BY <1>6, DurableSync
<1> QED BY <1>3, <1>4, <1>5, <1>6 DEF Step

LEMMA DurableAtFirst == NothingStarted => Durable
BY DEF NothingStarted, Durable

LEMMA DurableKept == TypeOK /\ StorageInv /\ Ledger /\ Durable /\ [Next]_vars => Durable'
<1>2. ASSUME TypeOK, StorageInv, Durable, PowerLoss PROVE Durable'
  <2>1. UNCHANGED history /\ \A v \in Writer : pc'[v] = "idle"
    BY <1>2 DEF PowerLoss
  <2>2. \A d \in survivors : cache'[d[dest]] = cache[d[dest]]
    BY <1>2 DEF PowerLoss, Unsynced, StorageInv, Survivable, Whole
  <2>3. \A d \in survivors' : d \in survivors
    BY <1>2 DEF PowerLoss
  <2> QED BY <1>2, <2>1, <2>2, <2>3, DurableUntouched DEF history
<1>3. ASSUME TypeOK, StorageInv, Durable, NEW w \in Writer, Kill(w) PROVE Durable'
  <2>1. UNCHANGED <<entries, survivors, cache, published, returned, current>>
        /\ \A v \in Writer : pc'[v] = "dir_fsync" => pc[v] = "dir_fsync"
    BY <1>3 DEF Kill, Restart, storage, history, TypeOK, CallerTypes
  <2> QED BY <1>3, <2>1, DurableUntouched
<1>4. ASSUME TypeOK, StorageInv, Durable, UNCHANGED vars PROVE Durable'
  BY <1>4, DurableUntouched DEF vars, storage, history
<1> QED BY <1>2, <1>3, <1>4, DurableStep DEF Next

LEMMA DurableByVersions == StorageInv /\ Durable => ReturnedIsDurable
BY DEF Durable, NotOlder, StorageInv, Survivable, ReturnedIsDurable

\* A publication that returned is never lost to an older one, whatever crashes.
THEOREM ReturnedAreDurable == Spec => []ReturnedIsDurable
<1>1. Init => Durable
  BY DurableAtFirst DEF Init
<1> QED BY <1>1, DurableByVersions, DurableKept, TypeCorrect, StorageInvariance, LedgerInvariance,
          PTL DEF Spec
----------------------------------------------------------------------------
(* The same under the storage workers.  Their calls are calls of publish;  *)
(* what they add is the removal of a staging file when a call is over.     *)

Exits == {"starting", "running", "reported", "target_error", "protocol_error", "unsupported"}

ScriptTypes ==
  /\ script \in {"none"} \cup DOMAIN Scripts
  /\ failure \in {"none", "EIO", "other"} /\ exit \in {"none"} \cup Exits
  /\ (script = "none") = (exit = "none")
  /\ exit \in {"starting", "running"} => at \in 1..Len(Scripts[script])
  /\ exit = "starting" => at = 1 /\ calls = 0 /\ failure = "none"
  /\ exit = "reported" => at = Len(Scripts[script]) + 1

LEMMA TheScripts ==
  /\ DOMAIN Scripts = {"durable_publish", "file_sync", "atomic_replace"}
  /\ Len(Scripts["durable_publish"]) = 3 /\ Len(Scripts["file_sync"]) = 3
  /\ Len(Scripts["atomic_replace"]) = 4
  /\ \A s \in DOMAIN Scripts : Len(Scripts[s]) \in 1..4 /\ DOMAIN Scripts[s] = 1..Len(Scripts[s])
  /\ "none" \notin DOMAIN Scripts
BY DEF Scripts, durable_publish_crash, file_sync_crash, atomic_replace_crash

LEMMA FirstCall == \A s \in DOMAIN Scripts : 1 \in 1..Len(Scripts[s])
<1> SUFFICES ASSUME NEW s \in DOMAIN Scripts PROVE 1 \in 1..Len(Scripts[s])
    OBVIOUS
<1>1. Len(Scripts[s]) \in {3, 4}
  BY TheScripts
<1> DEFINE length == Len(Scripts[s])
<1>2. length \in {3, 4}
  BY <1>1
<1> HIDE DEF length
<1>3. 1 \in 1..length
  BY <1>2
<1> QED BY <1>3 DEF length

\* The faults of a call are one operation's or none's.
LEMMA TheFaults ==
  ASSUME NEW s \in DOMAIN Scripts, NEW k \in 1..Len(Scripts[s])
  PROVE  \/ Scripts[s][k].faults = NoFaults
         \/ \E op \in Operations : Scripts[s][k].faults = FaultAt(op)
BY TheScripts DEF Scripts, durable_publish_crash, file_sync_crash, atomic_replace_crash, Call,
   Operations

LEMMA PublisherTypes ==
  ASSUME NEW s \in DOMAIN Scripts, NEW k \in 1..Len(Scripts[s])
  PROVE  NewPublisher(Scripts[s][k].faults) \in Publishers
<1> DEFINE f == Scripts[s][k].faults
<1>1. f \in [Operations -> Nat]
  <2>1. NoFaults \in [Operations -> Nat] /\ \A op \in Operations : FaultAt(op) \in [Operations -> Nat]
    BY DEF NoFaults, FaultAt
  <2> QED BY <2>1, TheFaults
<1> HIDE DEF f
<1>2. NewPublisher(f) \in Publishers
  BY <1>1 DEF NewPublisher, Publishers, FaultSpec, NewController, Controllers, Operations
<1> QED BY <1>2 DEF f

\* The end of the call of w.
Collects(w) ==
  /\ \/ UNCHANGED <<entries, survivors>>
     \/ Directory_becomes([entries EXCEPT ![w] = Absent])
  /\ \E p \in Publishers : publisher' = [publisher EXCEPT ![w] = p]
  /\ pc' = [pc EXCEPT ![w] = "idle"] /\ outcome' = [outcome EXCEPT ![w] = "none"]
  /\ UNCHANGED <<cache, disk, calls, current, history>>

LEMMA TheWriter ==
  ASSUME ScriptTypes, exit \in {"starting", "running"}
  PROVE  /\ script \in DOMAIN Scripts /\ at \in 1..Len(Scripts[script])
         /\ at \in 1..4 /\ writer \in Writer /\ writer = Staging[at]
<1>1. script \in DOMAIN Scripts /\ at \in 1..Len(Scripts[script])
  BY TheScripts DEF ScriptTypes, Exits
<1>2. Len(Scripts[script]) \in 1..4
  BY <1>1, TheScripts
<1> DEFINE length == Len(Scripts[script])
<1>3. at \in 1..length /\ length \in 1..4
  BY <1>1, <1>2
<1> HIDE DEF length
<1>4. at \in 1..4
  BY <1>3
<1> QED BY <1>1, <1>4, TargetAssumption DEF writer

LEMMA TargetSteps ==
  ASSUME ScriptTypes, [TargetNext]_<<vars, target>>
  PROVE  [Next]_vars \/ \E w \in Writer : Collects(w)
<1>1. CASE Concurrently
  BY <1>1, TargetAssumption DEF Concurrently, Next
<1>2. CASE Launch \/ Raises \/ UNCHANGED <<vars, target>>
  BY <1>2 DEF Launch, Raises
<1>3. CASE Advances
  BY <1>3, TheWriter DEF Advances, Next, Step
<1>4. CASE CallFails
  BY <1>4, TheWriter DEF CallFails, Next, Step
<1>5. CASE CallEnds
  <2>1. Collects(writer)
    BY <1>5, TheWriter, PublisherTypes DEF CallEnds, Collects, Restart, Now
  <2> QED BY <1>5, <2>1, TheWriter DEF CallEnds
<1> QED BY <1>1, <1>2, <1>3, <1>4, <1>5 DEF TargetNext

LEMMA CollectingKeeps ==
  ASSUME TypeOK, StorageInv, Ledger, Durable, NEW w \in Writer, Collects(w)
  PROVE  TypeOK' /\ StorageInv' /\ Ledger' /\ Durable'
<1>1. /\ entries' \in Directory /\ survivors' \subseteq survivors \cup {entries'}
      /\ survivors \subseteq survivors' /\ entries' \in survivors'
      /\ entries'[dest] = entries[dest] /\ entries'[w] \in {entries[w], Absent}
      /\ \A v \in Writer \ {w} : entries'[v] = entries[v]
  <2>1. entries \in Directory /\ w # dest /\ entries \in survivors
    BY DEF TypeOK, StorageTypes, StorageInv, Survivable
  <2>2. CASE UNCHANGED <<entries, survivors>>
    BY <2>1, <2>2
  <2>3. CASE Directory_becomes([entries EXCEPT ![w] = Absent])
    BY <2>1, <2>3 DEF Directory_becomes, Directory, Name
  <2> QED BY <2>2, <2>3 DEF Collects
<1>2. UNCHANGED <<cache, disk, calls, current, published, returned>>
  BY DEF Collects, history
<1>3. /\ pc' \in [Writer -> {"idle", "write", "fsync", "replace", "dir_fsync"}]
      /\ outcome' \in [Writer -> {"none", "returned", "write"} \cup Operations]
      /\ pc'[w] = "idle" /\ outcome'[w] = "none"
      /\ \A v \in Writer \ {w} : pc'[v] = pc[v] /\ outcome'[v] = outcome[v]
  BY DEF Collects, TypeOK, CallerTypes
<1>4. TypeOK'
  <2>1. publisher' \in [Writer -> Publishers]
    BY DEF Collects, TypeOK
  <2> QED BY <1>1, <1>2, <1>3, <2>1 DEF TypeOK, StorageTypes, CallerTypes
<1>5. StorageInv'
  <2>1. Separate(entries')
    BY <1>1 DEF StorageInv, Survivable, Separate
  <2>2. \A n \in Name : entries'[n] <= calls
    <3>1. \A n \in Name : entries[n] <= calls
      BY DEF StorageInv, Survivable
    <3>2. Absent <= calls
      BY BoundAssumption DEF Absent, TypeOK, StorageTypes, Publication
    <3> QED BY <1>1, <3>1, <3>2 DEF Name
  <2>3. \A d \in survivors' : Separate(d) /\ \A n \in Name : d[n] <= calls
    BY <1>1, <2>1, <2>2 DEF StorageInv, Survivable
  <2>4. \A d \in survivors' : d[dest] \in {e[dest] : e \in survivors}
    BY <1>1 DEF StorageInv, Survivable
  <2>5. \A d \in survivors' : Whole(d)'
    BY <1>2, <2>4 DEF StorageInv, Survivable, Whole
  <2>6. \A d \in survivors', v \in Writer : entries'[v] # Absent => entries'[v] # d[dest]
    BY <1>1, <2>4 DEF StorageInv, Survivable
  <2>7. Survivable'
    BY <1>1, <1>2, <2>3, <2>5, <2>6 DEF Survivable, Separate
  <2>8. Staged'
    BY <1>1, <1>2, <1>3 DEF StorageInv, Staged
  <2> QED BY <2>7, <2>8 DEF StorageInv
<1>6. Ledger'
  <2>1. Published' = Published /\ LedgerGlobal'
    BY <1>2 DEF Ledger, LedgerGlobal, Published
  <2>2. \A v \in Writer : LedgerOf(v)
    BY DEF Ledger
  <2>3. LedgerOf(w)'
    BY <1>2, <1>3, <2>1, <2>2 DEF LedgerOf
  <2>4. \A v \in Writer \ {w} : LedgerOf(v)'
    BY <1>1, <1>2, <1>3, <2>1, <2>2 DEF LedgerOf
  <2> QED BY <2>1, <2>3, <2>4 DEF Ledger
<1>7. Durable'
  <2>1. \A d \in survivors' : \E e \in survivors : d[dest] = e[dest]
    BY <1>1 DEF StorageInv, Survivable
  <2> QED BY <1>1, <1>2, <1>3, <2>1, DurableUntouched
<1> QED BY <1>4, <1>5, <1>6, <1>7

PublishInv == TypeOK /\ StorageInv /\ Ledger /\ Durable /\ ScriptTypes

LEMMA TargetsAtFirst == TargetInit => PublishInv
<1> SUFFICES ASSUME TargetInit PROVE PublishInv
    OBVIOUS
<1>1. NothingStarted
  BY DEF TargetInit, Init
<1>2. publisher \in [Writer -> Publishers]
  <2>1. CASE script = "none"
    BY <2>1, MadeTypes DEF TargetInit, Init
  <2>2. CASE script \in DOMAIN Scripts
    <3>1. NewPublisher(NoFaults) \in Publishers
      BY DEF NoFaults, NewPublisher, Publishers, FaultSpec, NewController, Controllers, Operations
    <3>2. ASSUME NEW w \in Writer, \E k \in DOMAIN Scripts[script] : Staging[k] = w
          PROVE  (CHOOSE k \in 1..4 : Staging[k] = w) \in 1..Len(Scripts[script])
      BY <2>2, <3>2, TheScripts, TargetAssumption
    <3> DEFINE Of(w) == NewPublisher(IF \E k \in DOMAIN Scripts[script] : Staging[k] = w
                                     THEN Scripts[script][CHOOSE k \in 1..4 : Staging[k] = w].faults
                                     ELSE NoFaults)
    <3>3. ASSUME NEW w \in Writer PROVE Of(w) \in Publishers
      <4> DEFINE k == CHOOSE k \in 1..4 : Staging[k] = w
      <4>1. CASE \E j \in DOMAIN Scripts[script] : Staging[j] = w
        <5>1. k \in 1..Len(Scripts[script])
          BY <3>2, <4>1
        <5> HIDE DEF k
        <5>2. NewPublisher(Scripts[script][k].faults) \in Publishers
          BY <2>2, <5>1, PublisherTypes
        <5> QED BY <4>1, <5>2 DEF k
      <4> QED BY <3>1, <4>1
    <3>4. publisher = [w \in Writer |-> Of(w)]
      BY <2>2, TheScripts DEF TargetInit
    <3> HIDE DEF Of
    <3> QED BY <3>3, <3>4
  <2> QED BY <2>1, <2>2 DEF TargetInit
<1>3. ScriptTypes
  <2>1. script \in {"none"} \cup DOMAIN Scripts /\ at = 1 /\ failure = "none" /\ calls = 0
        /\ exit = IF script = "none" THEN "none" ELSE "starting"
    BY <1>1 DEF TargetInit, NothingStarted
  <2>2. script \in DOMAIN Scripts => 1 \in 1..Len(Scripts[script])
    BY FirstCall
  <2> QED BY <2>1, <2>2 DEF ScriptTypes, Exits
<1> QED BY <1>1, <1>2, <1>3, TypesAtFirst, StorageAtFirst, LedgerAtFirst, DurableAtFirst
    DEF PublishInv, TypeOK

LEMMA ScriptTypesKept == ScriptTypes /\ [TargetNext]_<<vars, target>> => ScriptTypes'
<1> SUFFICES ASSUME ScriptTypes, [TargetNext]_<<vars, target>> PROVE ScriptTypes'
    OBVIOUS
<1>1. CASE Concurrently
  BY <1>1, TheScripts DEF Concurrently, ScriptTypes, target, Exits
<1>2. CASE Launch
  BY <1>2, TheScripts DEF Launch, ScriptTypes, Exits, vars
<1>3. CASE Advances
  BY <1>3 DEF Advances, ScriptTypes, target, Exits
<1>4. CASE CallFails
  BY <1>4 DEF CallFails, ScriptTypes, Exits
<1>5. CASE CallEnds
  <2>1. script' = script /\ failure' = failure /\ at' = at + 1 /\ exit = "running"
        /\ exit' = IF at = Len(Scripts[script]) THEN "reported" ELSE "running"
    BY <1>5 DEF CallEnds
  <2>2. script \in DOMAIN Scripts /\ at \in 1..Len(Scripts[script])
        /\ Len(Scripts[script]) \in 1..4
    BY <2>1, TheWriter, TheScripts
  <2> QED BY <2>1, <2>2 DEF ScriptTypes, Exits
<1>6. CASE Raises \/ UNCHANGED <<vars, target>>
  BY <1>6 DEF Raises, ScriptTypes, target, vars, Exits
<1> QED BY <1>1, <1>2, <1>3, <1>4, <1>5, <1>6 DEF TargetNext

LEMMA PublishInvariance == TargetSpec => []PublishInv
<1>1. PublishInv /\ [TargetNext]_<<vars, target>> => PublishInv'
  <2> SUFFICES ASSUME PublishInv, [TargetNext]_<<vars, target>> PROVE PublishInv'
      OBVIOUS
  <2>1. CASE [Next]_vars
    BY <2>1, TypeStep, StorageStep, LedgerKept, DurableKept, ScriptTypesKept DEF PublishInv
  <2>2. CASE \E w \in Writer : Collects(w)
    BY <2>2, CollectingKeeps, ScriptTypesKept DEF PublishInv
  <2> QED BY <2>1, <2>2, TargetSteps DEF PublishInv
<1> QED BY <1>1, TargetsAtFirst, PTL DEF TargetSpec

----------------------------------------------------------------------------
(* Publication as one register.  What a writer's step does to the calls    *)
(* under way concerns its own call alone, since no two writers have the    *)
(* same; and what the destination shows, now or after a power loss, stays  *)
(* but for a rename and a directory fsync.                                 *)

Pending == {current[w] : w \in {v \in Writer : pc[v] \in {"write", "fsync", "replace"}}}
Applied == {current[w] : w \in {v \in Writer : pc[v] = "dir_fsync"}}
Shown == cache[entries[dest]]
Fallback == {cache[d[dest]] : d \in survivors}
View == <<calls, Pending, Applied, Shown, Fallback, returned>>

PendingBut(w) ==
  {current[v] : v \in {u \in Writer \ {w} : pc[u] \in {"write", "fsync", "replace"}}}
AppliedBut(w) == {current[v] : v \in {u \in Writer \ {w} : pc[u] = "dir_fsync"}}

LEMMA CallsUnderWay ==
  ASSUME Ledger, NEW w \in Writer,
         \A v \in Writer \ {w} : pc'[v] = pc[v] /\ current'[v] = current[v]
  PROVE  /\ pc[w] \in {"write", "fsync", "replace"} =>
              Pending = PendingBut(w) \cup {current[w]} /\ Applied = AppliedBut(w)
         /\ pc[w] = "dir_fsync" =>
              Pending = PendingBut(w) /\ Applied = AppliedBut(w) \cup {current[w]}
         /\ pc[w] = "idle" => Pending = PendingBut(w) /\ Applied = AppliedBut(w)
         /\ pc'[w] \in {"write", "fsync", "replace"} =>
              Pending' = PendingBut(w) \cup {current'[w]} /\ Applied' = AppliedBut(w)
         /\ pc'[w] = "dir_fsync" =>
              Pending' = PendingBut(w) /\ Applied' = AppliedBut(w) \cup {current'[w]}
         /\ pc'[w] = "idle" => Pending' = PendingBut(w) /\ Applied' = AppliedBut(w)
         /\ pc[w] # "idle" => current[w] \notin PendingBut(w) \cup AppliedBut(w)
<1>1. /\ pc[w] \in {"write", "fsync", "replace"} =>
           Pending = PendingBut(w) \cup {current[w]} /\ Applied = AppliedBut(w)
      /\ pc[w] = "dir_fsync" =>
           Pending = PendingBut(w) /\ Applied = AppliedBut(w) \cup {current[w]}
      /\ pc[w] = "idle" => Pending = PendingBut(w) /\ Applied = AppliedBut(w)
  BY DEF Pending, PendingBut, Applied, AppliedBut
<1>2. /\ pc'[w] \in {"write", "fsync", "replace"} =>
           Pending' = PendingBut(w) \cup {current'[w]} /\ Applied' = AppliedBut(w)
      /\ pc'[w] = "dir_fsync" =>
           Pending' = PendingBut(w) /\ Applied' = AppliedBut(w) \cup {current'[w]}
      /\ pc'[w] = "idle" => Pending' = PendingBut(w) /\ Applied' = AppliedBut(w)
  BY DEF Pending, PendingBut, Applied, AppliedBut
<1>3. pc[w] # "idle" => current[w] \notin PendingBut(w) \cup AppliedBut(w)
  BY DEF PendingBut, AppliedBut, Ledger, LedgerOf
<1> QED BY <1>1, <1>2, <1>3

\* No version of the directory shows anything else at the destination.
LEMMA ShownStays ==
  ASSUME StorageInv, entries'[dest] = entries[dest],
         survivors \subseteq survivors', survivors' \subseteq survivors \cup {entries'},
         \A d \in survivors : cache'[d[dest]] = cache[d[dest]]
  PROVE  Shown' = Shown /\ Fallback' = Fallback
<1>1. entries \in survivors
  BY DEF StorageInv, Survivable
<1>2. \A d \in survivors' : \E e \in survivors : d[dest] = e[dest]
  BY <1>1
<1>3. Fallback' = {cache'[d[dest]] : d \in survivors'}
  BY DEF Fallback
<1> QED BY <1>1, <1>2, <1>3 DEF Shown, Fallback

LEMMA StepsOfACall ==
  ASSUME NEW p \in Pending \cup Applied,
         Register!TakeEffect(p) \/ Register!Return(p) \/ Register!GiveUp(p)
  PROVE  Register!Next
BY Zenon DEF Register!Next, Pending, Applied

\* A call ends without effect on what is shown.
LEMMA CallGivenUp ==
  ASSUME Ledger, NEW w \in Writer, pc'[w] = "idle", calls' = calls, returned' = returned,
         current' = current, \A v \in Writer \ {w} : pc'[v] = pc[v],
         Shown' = Shown, Fallback' = Fallback,
         pc[w] \in {"idle", "write", "fsync", "replace", "dir_fsync"}
  PROVE  [Register!Next]_View
<1>1. /\ pc[w] \in {"write", "fsync", "replace"} =>
           Pending = PendingBut(w) \cup {current[w]} /\ Applied = AppliedBut(w)
      /\ pc[w] = "dir_fsync" =>
           Pending = PendingBut(w) /\ Applied = AppliedBut(w) \cup {current[w]}
      /\ pc[w] = "idle" => Pending = PendingBut(w) /\ Applied = AppliedBut(w)
      /\ Pending' = PendingBut(w) /\ Applied' = AppliedBut(w)
      /\ pc[w] # "idle" => current[w] \notin PendingBut(w) \cup AppliedBut(w)
  BY CallsUnderWay
<1>2. CASE pc[w] = "idle"
  BY <1>1, <1>2 DEF View
<1>3. CASE pc[w] # "idle"
  <2>1. PICK p : p = current[w]
    OBVIOUS
  <2>2. p \in Pending \cup Applied /\ Pending' = Pending \ {p} /\ Applied' = Applied \ {p}
    BY <1>1, <1>3, <2>1
  <2>3. Register!GiveUp(p)
    BY <2>2 DEF Register!GiveUp, Pending, Applied, Shown, Fallback
  <2> QED BY <2>2, <2>3, StepsOfACall
<1> QED BY <1>2, <1>3

LEMMA BeginsByOpen ==
  ASSUME TypeOK, StorageInv, Ledger, NEW w \in Writer, Open(w)
  PROVE  Register!Begin
<1> USE DEF TypeOK, StorageTypes, CallerTypes
<1>1. /\ calls' = calls + 1 /\ current'[w] = calls' /\ pc[w] = "idle" /\ pc'[w] = "write"
      /\ returned' = returned
      /\ \A v \in Writer \ {w} : pc'[v] = pc[v] /\ current'[v] = current[v]
  BY DEF Open, history
<1>2. Pending' = Pending \cup {calls'} /\ Applied' = Applied
  BY <1>1, CallsUnderWay
<1>3. w # dest /\ entries[w] \in Publication \cup {Absent}
  BY DEF Directory, Name
<1>4. /\ entries'[dest] = entries[dest]
      /\ survivors \subseteq survivors' /\ survivors' \subseteq survivors \cup {entries'}
  BY <1>3 DEF Open, Directory_becomes, Directory, Name
<1>5. \A d \in survivors : cache'[d[dest]] = cache[d[dest]]
  BY <1>3 DEF Open, StorageInv, Survivable, Whole
<1>6. Shown' = Shown /\ Fallback' = Fallback
  BY <1>4, <1>5, ShownStays
<1> QED BY <1>1, <1>2, <1>6 DEF Register!Begin, Pending, Applied, Shown, Fallback

\* What is written and synced under the staging name is part of a call under way.
LEMMA StagingIsUnseen ==
  ASSUME TypeOK, StorageInv, Ledger, NEW w \in Writer, Write(w) \/ FileSync(w)
  PROVE  [Register!Next]_View
<1> USE DEF TypeOK, StorageTypes, CallerTypes
<1>1. /\ UNCHANGED <<entries, survivors, calls, current, returned>>
      /\ pc[w] \in {"write", "fsync"} /\ pc'[w] \in {"fsync", "replace", "idle"}
      /\ \A v \in Writer \ {w} : pc'[v] = pc[v]
  BY DEF Write, FileSync, Raise, history
<1>2. \A d \in survivors : cache'[d[dest]] = cache[d[dest]]
  BY DEF Write, FileSync, StorageInv, Survivable, Staged, Whole
<1>3. Shown' = Shown /\ Fallback' = Fallback
  BY <1>1, <1>2, ShownStays
<1>4. CASE pc'[w] = "idle"
  BY <1>1, <1>3, <1>4, CallGivenUp
<1>5. CASE pc'[w] # "idle"
  <2>1. Pending' = Pending /\ Applied' = Applied
    BY <1>1, <1>5, CallsUnderWay
  <2> QED BY <1>1, <1>3, <2>1 DEF View
<1> QED BY <1>4, <1>5

LEMMA TakesEffectByRename ==
  ASSUME TypeOK, StorageInv, Ledger, NEW w \in Writer, Replace(w)
  PROVE  [Register!Next]_View
<1> USE DEF TypeOK, StorageTypes, CallerTypes
<1>1. /\ UNCHANGED <<cache, calls, current, returned>> /\ pc[w] = "replace"
      /\ \A v \in Writer \ {w} : pc'[v] = pc[v]
  BY DEF Replace, Raise
<1>2. CASE Fires(publisher[w].replace, "replace")
  <2>1. UNCHANGED <<entries, survivors>> /\ pc'[w] = "idle"
    BY <1>2 DEF Replace, Raise
  <2>2. Shown' = Shown /\ Fallback' = Fallback
    BY <1>1, <2>1 DEF Shown, Fallback
  <2> QED BY <1>1, <2>1, <2>2, CallGivenUp
<1>3. CASE ~Fires(publisher[w].replace, "replace")
  <2>1. Rename(w) /\ pc'[w] = "dir_fsync"
    BY <1>3 DEF Replace
  <2>2. cache[entries[w]] = current[w] /\ w # dest
    BY <1>1 DEF StorageInv, Staged, Name
  <2>3. entries'[dest] = entries[w] /\ survivors' = survivors \cup {entries'}
    BY <2>1, <2>2 DEF Rename, Directory_becomes, Directory, Name
  <2>4. Shown' = current[w] /\ Fallback' = Fallback \cup {current[w]}
    <3>1. PICK e : e = entries'
      OBVIOUS
    <3>2. cache[e[dest]] = current[w] /\ survivors' = survivors \cup {e}
      BY <2>2, <2>3, <3>1
    <3>3. Fallback' = {cache[d[dest]] : d \in survivors'}
      BY <1>1 DEF Fallback
    <3>4. Shown' = cache[e[dest]]
      BY <1>1, <3>1 DEF Shown
    <3>5. {cache[d[dest]] : d \in survivors \cup {e}} = Fallback \cup {cache[e[dest]]}
      BY DEF Fallback
    <3> QED BY <3>2, <3>3, <3>4, <3>5
  <2>5. PICK p : p = current[w]
    OBVIOUS
  <2>6. p \in Pending /\ Pending' = Pending \ {p} /\ Applied' = Applied \cup {p}
    <3>1. /\ Pending = PendingBut(w) \cup {p} /\ Applied = AppliedBut(w)
          /\ Pending' = PendingBut(w) /\ Applied' = AppliedBut(w) \cup {p}
          /\ p \notin PendingBut(w)
      BY <1>1, <2>1, <2>5, CallsUnderWay
    <3> QED BY <3>1
  <2>7. Register!TakeEffect(p)
    BY <1>1, <2>4, <2>5, <2>6 DEF Register!TakeEffect, Pending, Applied, Shown, Fallback
  <2> QED BY <2>6, <2>7, StepsOfACall
<1> QED BY <1>2, <1>3

LEMMA ReturnsByDirectorySync ==
  ASSUME TypeOK, StorageInv, Ledger, NEW w \in Writer, DirectorySync(w)
  PROVE  [Register!Next]_View
<1> USE DEF TypeOK, StorageTypes, CallerTypes
<1>1. /\ UNCHANGED <<entries, cache, calls, current>> /\ pc[w] = "dir_fsync" /\ pc'[w] = "idle"
      /\ \A v \in Writer \ {w} : pc'[v] = pc[v]
  BY DEF DirectorySync, Raise, Return
<1>2. CASE Fires(publisher[w].dir_fsync, "dir_fsync")
  <2>1. UNCHANGED <<survivors, returned>>
    BY <1>2 DEF DirectorySync
  <2>2. Shown' = Shown /\ Fallback' = Fallback
    BY <1>1, <2>1 DEF Shown, Fallback
  <2> QED BY <1>1, <2>1, <2>2, CallGivenUp
<1>3. CASE ~Fires(publisher[w].dir_fsync, "dir_fsync")
  <2>1. survivors' = {entries} /\ returned' = returned \cup {current[w]}
    BY <1>3 DEF DirectorySync, Return
  <2>2. Shown' = Shown /\ Fallback' = {Shown}
    BY <1>1, <2>1 DEF Shown, Fallback
  <2>3. PICK p : p = current[w]
    OBVIOUS
  <2>4. p \in Applied /\ Pending' = Pending /\ Applied' = Applied \ {p}
    <3>1. /\ Pending = PendingBut(w) /\ Applied = AppliedBut(w) \cup {p}
          /\ Pending' = PendingBut(w) /\ Applied' = AppliedBut(w)
          /\ p \notin AppliedBut(w)
      BY <1>1, <2>3, CallsUnderWay
    <3> QED BY <3>1
  <2>5. Register!Return(p)
    BY <1>1, <2>1, <2>2, <2>3, <2>4 DEF Register!Return, Pending, Applied, Shown, Fallback
  <2> QED BY <2>4, <2>5, StepsOfACall
<1> QED BY <1>2, <1>3

LEMMA TakesBackByPowerLoss ==
  ASSUME TypeOK, StorageInv, PowerLoss
  PROVE  Register!PowerLoss
<1>1. PICK d \in survivors : entries' = d /\ survivors' = {d}
  BY DEF PowerLoss
<1>2. cache'[d[dest]] = cache[d[dest]]
  BY DEF PowerLoss, Unsynced, StorageInv, Survivable, Whole
<1>3. Shown' = cache[d[dest]] /\ Fallback' = {Shown'}
  BY <1>1, <1>2 DEF Shown, Fallback
<1>4. Shown' \in Fallback
  BY <1>3 DEF Fallback
<1>5. Pending' = {} /\ Applied' = {} /\ UNCHANGED <<calls, returned>>
  BY DEF PowerLoss, Pending, Applied, history
<1> QED BY <1>3, <1>4, <1>5 DEF Register!PowerLoss, Pending, Applied, Shown, Fallback

LEMMA RegisterStep ==
  ASSUME TypeOK, StorageInv, Ledger, [Next]_vars \/ \E w \in Writer : Collects(w)
  PROVE  [Register!Next]_View
<1>1. ASSUME NEW w \in Writer, StorageFails(w) \/ Kill(w) PROVE [Register!Next]_View
  <2>1. /\ UNCHANGED <<entries, survivors, cache, calls, current, returned>> /\ pc'[w] = "idle"
        /\ \A v \in Writer \ {w} : pc'[v] = pc[v]
        /\ pc[w] \in {"idle", "write", "fsync", "replace", "dir_fsync"}
    BY <1>1 DEF StorageFails, Kill, Raise, Restart, storage, history, TypeOK, CallerTypes
  <2>2. Shown' = Shown /\ Fallback' = Fallback
    BY <2>1 DEF Shown, Fallback
  <2> QED BY <2>1, <2>2, CallGivenUp
<1>2. ASSUME NEW w \in Writer, Collects(w) PROVE [Register!Next]_View
  <2>1. /\ UNCHANGED <<cache, calls, current, returned>> /\ pc'[w] = "idle"
        /\ \A v \in Writer \ {w} : pc'[v] = pc[v]
        /\ pc[w] \in {"idle", "write", "fsync", "replace", "dir_fsync"}
    BY <1>2 DEF Collects, history, TypeOK, CallerTypes
  <2>2. Shown' = Shown /\ Fallback' = Fallback
    <3>1. w # dest /\ entries \in Directory
      BY DEF Name, TypeOK, StorageTypes
    <3>2. /\ entries'[dest] = entries[dest]
          /\ survivors \subseteq survivors' /\ survivors' \subseteq survivors \cup {entries'}
      BY <1>2, <3>1 DEF Collects, Directory_becomes, Directory, Name
    <3> QED BY <2>1, <3>2, ShownStays
  <2> QED BY <2>1, <2>2, CallGivenUp
<1>3. ASSUME UNCHANGED vars PROVE [Register!Next]_View
  BY <1>3 DEF vars, storage, history, View, Pending, Applied, Shown, Fallback
<1>4. Register!Begin \/ Register!PowerLoss => Register!Next
  BY DEF Register!Next
<1> QED BY <1>1, <1>2, <1>3, <1>4, BeginsByOpen, StagingIsUnseen, TakesEffectByRename,
           ReturnsByDirectorySync, TakesBackByPowerLoss DEF Next, Step

LEMMA RegisterAtFirst == NothingStarted => Register!Init
<1> SUFFICES ASSUME NothingStarted PROVE Register!Init
    OBVIOUS
<1>1. Shown = 0 /\ Fallback = {0}
  BY DEF NothingStarted, Shown, Fallback, Name, Publication
<1>2. Pending = {} /\ Applied = {}
  BY DEF NothingStarted, Pending, Applied
<1> QED BY <1>1, <1>2 DEF NothingStarted, Register!Init, Shown, Fallback, Pending, Applied

\* Writers that fail, are killed and lose power at any point, and whatever a storage worker
\* does with its calls: to readers and callers the file is one register, that a call of
\* publish changes atomically and at most once, and that only unreturned changes leave.
THEOREM PublishingIsAtomic == TargetSpec => PublicationIsAtomic
<1>1. TargetInit => Register!Init
  BY RegisterAtFirst DEF TargetInit, Init
<1>2. PublishInv /\ [TargetNext]_<<vars, target>> => [Register!Next]_(Register!vars)
  <2>1. PublishInv /\ [TargetNext]_<<vars, target>> => [Register!Next]_View
    BY TargetSteps, RegisterStep DEF PublishInv
  <2>2. View = Register!vars /\ View' = Register!vars'
    BY DEF View, Register!vars, Pending, Applied, Shown, Fallback
  <2> QED BY <2>1, <2>2
<1> QED BY <1>1, <1>2, PublishInvariance, PTL DEF TargetSpec, PublicationIsAtomic, Register!Spec

\* The same for writers that only publish, as DurablePublish has them.
THEOREM WritersShareARegister == Spec => PublicationIsAtomic
<1>1. Init => Register!Init
  BY RegisterAtFirst DEF Init
<1>2. TypeOK /\ StorageInv /\ Ledger /\ [Next]_vars => [Register!Next]_(Register!vars)
  <2>1. TypeOK /\ StorageInv /\ Ledger /\ [Next]_vars => [Register!Next]_View
    BY RegisterStep
  <2>2. View = Register!vars /\ View' = Register!vars'
    BY DEF View, Register!vars, Pending, Applied, Shown, Fallback
  <2> QED BY <2>1, <2>2
<1> QED BY <1>1, <1>2, TypeCorrect, StorageInvariance, LedgerInvariance, PTL
    DEF Spec, PublicationIsAtomic, Register!Spec

\* What the run asks of publication holds as well while the workers remove staging files
\* and start one child after the other.
THEOREM WorkersPublishSoundly ==
  TargetSpec => [](DestinationIsComplete /\ FailureIsTruthful /\ ReturnedIsDurable)
<1>1. PublishInv => DestinationIsComplete /\ FailureIsTruthful /\ ReturnedIsDurable
  BY CompleteByStorage, TruthfulByLedger, DurableByVersions DEF PublishInv
<1> QED BY <1>1, PublishInvariance, PTL

----------------------------------------------------------------------------
(* The storage workers.  Where the current call of a script stands is      *)
(* known from how far it came; every call before it left what the script   *)
(* says, because CallEnds looks.                                           *)

\* What is visible, and whose publish returned, when the first k - 1 calls are over.
VisibleBefore ==
  [durable_publish |-> <<<<>>, <<1>>, <<1, 2>>, <<1, 2, 3>>>>,
   file_sync |-> <<<<>>, <<>>, <<>>, <<3>>>>,
   atomic_replace |-> <<<<>>, <<>>, <<2>>, <<2>>, <<2, 4>>>>]
ShownBefore ==
  [durable_publish |-> <<0, 1, 2, 3>>, file_sync |-> <<0, 0, 0, 3>>,
   atomic_replace |-> <<0, 0, 2, 2, 4>>]
ReturnedBefore ==
  [durable_publish |-> <<{}, {}, {}, {3}>>, file_sync |-> <<{}, {}, {}, {3}>>,
   atomic_replace |-> <<{}, {}, {}, {}, {}>>]

Place ==
  [write |-> 1, fsync |-> 2, replace |-> 3, dir_fsync |-> 4, returned |-> 5, idle |-> 6]

\* How far the call of w came: the operation it is at, or failed at, or that it returned.
Reached(w) == IF pc[w] = "idle" THEN outcome[w] ELSE pc[w]

\* The k-th call, c, whose worker found `shown', `before' and `kept'.
Files(k, w, shown, before, kept) ==
  /\ current[w] = k
  /\ IF Reached(w) \in {"dir_fsync", "returned"}
     THEN entries[dest] = k /\ entries[w] = Absent /\ cache[k] = k /\ published = Append(before, k)
     ELSE /\ entries[dest] = shown /\ cache[shown] = shown /\ entries[w] = k /\ published = before
          /\ cache[k] = IF Reached(w) = "write" THEN Torn ELSE k
  /\ returned = IF Reached(w) = "returned" THEN kept \cup {k} ELSE kept

\* No fault was passed, and nothing was done after the marker.
Course(c, w) ==
  /\ Reached(w) # "none"
  /\ \A op \in Operations : Place[op] < Place[Reached(w)] => c.faults[op] # 0
  /\ Place[Reached(w)] <= Place[c.until]
  /\ pc[w] = "idle" => Place[Reached(w)] < Place[c.until]

\* The controllers that are still to be asked, and the one that atomic_replace asks.
Controls(c, w) ==
  /\ publisher[w].file_sync_spec = FaultSpec("fsync", c.faults["fsync"])
  /\ \A op \in {"replace", "dir_fsync"} :
       Place[Reached(w)] < Place[op] \/ pc[w] = op =>
         publisher[w][op] = NewController(FaultSpec(op, c.faults[op]))
  /\ publisher[w].replace.triggered <=>
       pc[w] = "idle" /\ Reached(w) = "replace" /\ c.faults["replace"] = 0

\* The error that was taken for the fault of the file_sync worker.
Mistaken == script = "file_sync" /\ at > 2 /\ failure = "EIO" /\ cache[2] = Torn

\* A call that ended short either met its fault or was failed by the operating system.
Causes(c, w) ==
  IF failure = "none" \/ Mistaken
  THEN pc[w] = "idle" /\ Reached(w) # "returned" =>
         Reached(w) \in Operations /\ c.faults[Reached(w)] = 0
  ELSE /\ pc[w] = "idle" /\ Reached(w) # "returned"
       /\ Reached(w) \in Operations => c.faults[Reached(w)] # 0

CallStands(c, k, w, shown, before, kept) ==
  Files(k, w, shown, before, kept) /\ Course(c, w) /\ Controls(c, w) /\ Causes(c, w)

\* Nothing of the call has been done.
NotCalled(shown, before, kept) ==
  /\ entries[dest] = shown /\ cache[shown] = shown /\ published = before /\ returned = kept
  /\ failure = "none" \/ Mistaken

\* What the calls before left, and what the calls to come find.
Rest(s, k) ==
  /\ \A j \in 1..4 : j < k => entries[Staging[j]] =
       IF s = "file_sync" /\ j < 3 THEN j ELSE Absent
  /\ \A j \in 1..4 : j > k \/ (j = k /\ calls < k) => entries[Staging[j]] = Absent
  /\ \A j \in DOMAIN Scripts[s] : j > k \/ (j = k /\ calls < k) =>
       publisher[Staging[j]] = NewPublisher(Scripts[s][j].faults)
  /\ \A f \in Publication : f > calls => cache[f] = Torn
  /\ s = "file_sync" /\ k > 2 /\ cache[2] = Torn => failure = "EIO"

Standing(s, k) ==
  /\ Rest(s, k)
  /\ \/ /\ calls = k - 1
        /\ NotCalled(ShownBefore[s][k], VisibleBefore[s][k], ReturnedBefore[s][k])
     \/ /\ calls = k /\ exit = "running"
        /\ CallStands(Scripts[s][k], k, Staging[k], ShownBefore[s][k], VisibleBefore[s][k],
                      ReturnedBefore[s][k])

ScriptInv ==
  /\ exit \in {"starting", "running", "reported"} => Standing(script, at)
  /\ exit = "target_error" => failure # "none"
LEMMA Places ==
  /\ Place["write"] = 1 /\ Place["fsync"] = 2 /\ Place["replace"] = 3 /\ Place["dir_fsync"] = 4
  /\ Place["returned"] = 5 /\ Place["idle"] = 6
BY DEF Place

LEMMA FirstAsked ==
  ASSUME NEW operation, NEW n
  PROVE  /\ Fires(NewController(FaultSpec(operation, n)), operation) <=> n = 0
         /\ checkpoint(NewController(FaultSpec(operation, n)), operation).triggered <=> n = 0
         /\ ~NewController(FaultSpec(operation, n)).triggered
BY DEF NewController, FaultSpec, Fires, Matches, checkpoint

\* The first step of a call, from where the call before it left the files.
LEMMA CallOpens ==
  ASSUME PublishInv, NEW w \in Writer, NEW k \in 1..4, NEW c, NEW shown \in Publication, shown # k,
         NEW before, NEW kept, NotCalled(shown, before, kept), calls = k - 1,
         entries[w] = Absent, cache[k] = Torn, publisher[w] = NewPublisher(c.faults),
         c.until \in {"idle", "replace", "dir_fsync"}, Open(w), UNCHANGED target
  PROVE  CallStands(c, k, w, shown, before, kept)'
<1> USE DEF PublishInv, TypeOK, StorageTypes, CallerTypes
<1>1. /\ entries' = [entries EXCEPT ![w] = k] /\ cache' = cache /\ calls' = k
      /\ pc'[w] = "write" /\ outcome'[w] = "none" /\ current'[w] = k
      /\ UNCHANGED <<publisher, published, returned, failure, script, at>>
  BY DEF Open, Directory_becomes, history, target
<1>2. entries'[w] = k /\ entries'[dest] = entries[dest]
  BY <1>1 DEF Directory, Name
<1>3. Reached(w)' = "write"
  BY <1>1 DEF Reached
<1>4. Files(k, w, shown, before, kept)'
  BY <1>1, <1>2, <1>3 DEF Files, NotCalled
<1>5. Course(c, w)'
  BY <1>1, <1>3, Places DEF Course, Operations
<1>6. Controls(c, w)'
  <2>1. /\ publisher[w].file_sync_spec = FaultSpec("fsync", c.faults["fsync"])
        /\ publisher[w]["replace"] = NewController(FaultSpec("replace", c.faults["replace"]))
        /\ publisher[w]["dir_fsync"] = NewController(FaultSpec("dir_fsync", c.faults["dir_fsync"]))
    BY DEF NewPublisher
  <2>2. ~publisher[w].replace.triggered
    BY <2>1, FirstAsked
  <2> QED BY <1>1, <1>3, <2>1, <2>2 DEF Controls
<1>7. Causes(c, w)'
  BY <1>1 DEF Causes, NotCalled, Mistaken
<1> QED BY <1>4, <1>5, <1>6, <1>7 DEF CallStands

LEMMA CallWrites ==
  ASSUME PublishInv, NEW w \in Writer, NEW k \in 1..4, k = at, NEW c, NEW shown \in Publication,
         shown # k, NEW before, NEW kept, CallStands(c, k, w, shown, before, kept), pc[w] # c.until,
         c.until \in {"idle", "replace", "dir_fsync"}, Write(w), UNCHANGED target
  PROVE  CallStands(c, k, w, shown, before, kept)'
<1> USE DEF PublishInv, TypeOK, StorageTypes, CallerTypes
<1>1. pc[w] = "write" /\ Reached(w) = "write" /\ entries[w] = k /\ current[w] = k
  BY DEF Write, Reached, CallStands, Files
<1>2. /\ cache' = [cache EXCEPT ![k] = k] /\ pc'[w] = "fsync"
      /\ UNCHANGED <<entries, calls, current, outcome, publisher, published, returned>>
      /\ UNCHANGED <<failure, script, at>>
  BY <1>1 DEF Write, history, target
<1>3. Reached(w)' = "fsync"
  BY <1>2 DEF Reached
<1>4. cache'[k] = k /\ cache'[shown] = cache[shown] /\ Mistaken' = Mistaken
  <2>1. k \in Publication
    BY <1>1
  <2> QED BY <1>2, <2>1 DEF Mistaken
<1>5. Files(k, w, shown, before, kept)'
  BY <1>1, <1>2, <1>3, <1>4 DEF CallStands, Files
<1>6. Course(c, w)'
  BY <1>2, <1>3, Places DEF Course, Operations
<1>7. Controls(c, w)'
  BY <1>1, <1>2, <1>3, Places DEF CallStands, Controls
<1>8. Causes(c, w)'
  BY <1>1, <1>2, <1>4 DEF CallStands, Causes
<1> QED BY <1>5, <1>6, <1>7, <1>8 DEF CallStands
LEMMA CallSyncs ==
  ASSUME PublishInv, NEW w \in Writer, NEW k \in 1..4, k = at, NEW c, NEW shown \in Publication,
         shown # k, NEW before, NEW kept, CallStands(c, k, w, shown, before, kept), pc[w] # c.until,
         c.until \in {"idle", "replace", "dir_fsync"}, FileSync(w), UNCHANGED target
  PROVE  CallStands(c, k, w, shown, before, kept)'
<1> USE DEF PublishInv, TypeOK, StorageTypes, CallerTypes
<1> DEFINE fires == c.faults["fsync"] = 0
<1>1. pc[w] = "fsync" /\ Reached(w) = "fsync" /\ entries[w] = k /\ current[w] = k
  BY DEF FileSync, Reached, CallStands, Files
<1>2. Fires(NewController(publisher[w].file_sync_spec), "fsync") <=> fires
  BY FirstAsked DEF CallStands, Controls
<1>3. /\ UNCHANGED <<entries, cache, calls, current, publisher, published, returned>>
      /\ UNCHANGED <<failure, script, at>>
  BY DEF FileSync, history, target
<1>4. Mistaken' = Mistaken
  BY <1>3 DEF Mistaken
<1>5. CASE fires
  <2>1. pc'[w] = "idle" /\ outcome'[w] = "fsync" /\ Reached(w)' = "fsync"
    BY <1>1, <1>2, <1>5 DEF FileSync, Raise, Reached
  <2>2. Files(k, w, shown, before, kept)'
    BY <1>1, <1>3, <2>1 DEF CallStands, Files
  <2>3. Course(c, w)'
    BY <1>1, <2>1, Places DEF CallStands, Course, Operations
  <2>4. Controls(c, w)'
    BY <1>1, <1>3, <2>1 DEF CallStands, Controls
  <2>5. Causes(c, w)'
    BY <1>1, <1>3, <1>4, <1>5, <2>1 DEF CallStands, Causes, Operations
  <2> QED BY <2>2, <2>3, <2>4, <2>5 DEF CallStands
<1>6. CASE ~fires
  <2>1. pc'[w] = "replace" /\ Reached(w)' = "replace"
    BY <1>1, <1>2, <1>6 DEF FileSync, Reached
  <2>2. Files(k, w, shown, before, kept)'
    BY <1>1, <1>3, <2>1 DEF CallStands, Files
  <2>3. Course(c, w)'
    BY <1>1, <1>6, <2>1, Places DEF CallStands, Course, Operations
  <2>4. Controls(c, w)'
    BY <1>1, <1>3, <2>1, Places DEF CallStands, Controls
  <2>5. Causes(c, w)'
    BY <1>1, <1>3, <1>4, <2>1 DEF CallStands, Causes
  <2> QED BY <2>2, <2>3, <2>4, <2>5 DEF CallStands
<1> QED BY <1>5, <1>6

\* What a controller that is asked for the first time becomes, and the one beside it.
LEMMA Asking ==
  ASSUME TypeOK, NEW w \in Writer, NEW op \in {"replace", "dir_fsync"}, Advance(w, op)
  PROVE  /\ publisher'[w][op] = checkpoint(publisher[w][op], op)
         /\ publisher'[w].file_sync_spec = publisher[w].file_sync_spec
         /\ \A other \in {"replace", "dir_fsync"} : other # op => publisher'[w][other] = publisher[w][other]
<1> DEFINE p == publisher[w]
<1>1. p \in Publishers /\ publisher \in [Writer -> Publishers]
  BY DEF TypeOK
<1> DEFINE q == checkpoint(p[op], op)
<1>2. publisher'[w] = [p EXCEPT ![op] = q]
  BY <1>1 DEF Advance
<1> HIDE DEF p, q
<1>3. DOMAIN p = {"file_sync_spec", "replace", "dir_fsync"}
  BY <1>1 DEF Publishers
<1>4. /\ [p EXCEPT ![op] = q][op] = q
      /\ [p EXCEPT ![op] = q].file_sync_spec = p.file_sync_spec
      /\ \A other \in {"replace", "dir_fsync"} : other # op => [p EXCEPT ![op] = q][other] = p[other]
  BY <1>3
<1> QED BY <1>2, <1>4 DEF p, q

LEMMA CallReplaces ==
  ASSUME PublishInv, NEW w \in Writer, NEW k \in 1..4, k = at, NEW c, NEW shown \in Publication,
         shown # k, NEW before, NEW kept, CallStands(c, k, w, shown, before, kept), pc[w] # c.until,
         c.until \in {"idle", "replace", "dir_fsync"}, Replace(w), UNCHANGED target
  PROVE  CallStands(c, k, w, shown, before, kept)'
<1> USE DEF PublishInv, TypeOK, StorageTypes, CallerTypes
<1> DEFINE fires == c.faults["replace"] = 0
<1>1. pc[w] = "replace" /\ Reached(w) = "replace" /\ entries[w] = k /\ current[w] = k
      /\ cache[k] = k /\ published = before
  BY DEF Replace, Reached, CallStands, Files
<1>2. /\ publisher[w].replace = NewController(FaultSpec("replace", c.faults["replace"]))
      /\ publisher[w]["dir_fsync"] = NewController(FaultSpec("dir_fsync", c.faults["dir_fsync"]))
      /\ publisher[w].file_sync_spec = FaultSpec("fsync", c.faults["fsync"])
  BY <1>1, Places DEF CallStands, Controls
<1>3. Fires(publisher[w].replace, "replace") <=> fires
  BY <1>2, FirstAsked
<1>4. /\ (publisher'[w].replace.triggered <=> fires)
      /\ publisher'[w]["dir_fsync"] = publisher[w]["dir_fsync"]
      /\ publisher'[w].file_sync_spec = publisher[w].file_sync_spec
  BY <1>2, FirstAsked, Asking DEF Replace
<1>5. /\ UNCHANGED <<cache, calls, current, returned>>
      /\ UNCHANGED <<failure, script, at>>
  BY DEF Replace, target
<1>6. Mistaken' = Mistaken
  BY <1>5 DEF Mistaken
<1>7. CASE fires
  <2>1. pc'[w] = "idle" /\ outcome'[w] = "replace" /\ Reached(w)' = "replace"
        /\ UNCHANGED <<entries, published>>
    BY <1>1, <1>3, <1>7 DEF Replace, Raise, Reached
  <2>2. Files(k, w, shown, before, kept)'
    BY <1>1, <1>5, <2>1 DEF CallStands, Files
  <2>3. Course(c, w)'
    BY <1>1, <2>1, Places DEF CallStands, Course, Operations
  <2>4. Controls(c, w)'
    BY <1>2, <1>4, <1>7, <2>1, Places DEF Controls
  <2>5. Causes(c, w)'
    BY <1>1, <1>5, <1>6, <1>7, <2>1 DEF CallStands, Causes, Operations
  <2> QED BY <2>2, <2>3, <2>4, <2>5 DEF CallStands
<1>8. CASE ~fires
  <2>1. pc'[w] = "dir_fsync" /\ Reached(w)' = "dir_fsync"
        /\ entries'[dest] = k /\ entries'[w] = Absent /\ published' = Append(before, k)
    BY <1>1, <1>3, <1>8 DEF Replace, Rename, Directory_becomes, Reached, Directory, Name
  <2>2. Files(k, w, shown, before, kept)'
    BY <1>1, <1>5, <2>1 DEF CallStands, Files
  <2>3. Course(c, w)'
    BY <1>1, <1>8, <2>1, Places DEF CallStands, Course, Operations
  <2>4. Controls(c, w)'
    BY <1>2, <1>4, <1>8, <2>1, Places DEF Controls
  <2>5. Causes(c, w)'
    BY <1>1, <1>5, <1>6, <2>1 DEF CallStands, Causes
  <2> QED BY <2>2, <2>3, <2>4, <2>5 DEF CallStands
<1> QED BY <1>7, <1>8

LEMMA CallSyncsDirectory ==
  ASSUME PublishInv, NEW w \in Writer, NEW k \in 1..4, k = at, NEW c, NEW shown \in Publication,
         shown # k, NEW before, NEW kept, CallStands(c, k, w, shown, before, kept), pc[w] # c.until,
         c.until \in {"idle", "replace", "dir_fsync"}, DirectorySync(w), UNCHANGED target
  PROVE  CallStands(c, k, w, shown, before, kept)'
<1> USE DEF PublishInv, TypeOK, StorageTypes, CallerTypes
<1> DEFINE fires == c.faults["dir_fsync"] = 0
<1>1. pc[w] = "dir_fsync" /\ Reached(w) = "dir_fsync" /\ current[w] = k /\ c.until = "idle"
      /\ entries[dest] = k /\ entries[w] = Absent /\ cache[k] = k /\ published = Append(before, k)
      /\ returned = kept
  BY Places DEF DirectorySync, Reached, CallStands, Files, Course
<1>2. /\ publisher[w].dir_fsync = NewController(FaultSpec("dir_fsync", c.faults["dir_fsync"]))
      /\ publisher[w].file_sync_spec = FaultSpec("fsync", c.faults["fsync"])
      /\ ~publisher[w].replace.triggered
  BY <1>1, Places DEF CallStands, Controls
<1>3. Fires(publisher[w].dir_fsync, "dir_fsync") <=> fires
  BY <1>2, FirstAsked
<1>4. /\ ~publisher'[w].replace.triggered
      /\ publisher'[w].file_sync_spec = publisher[w].file_sync_spec
  BY <1>2, Asking DEF DirectorySync
<1>5. /\ UNCHANGED <<entries, cache, calls, current, published>>
      /\ UNCHANGED <<failure, script, at>>
  BY DEF DirectorySync, target
<1>6. Mistaken' = Mistaken
  BY <1>5 DEF Mistaken
<1>7. CASE fires
  <2>1. pc'[w] = "idle" /\ outcome'[w] = "dir_fsync" /\ Reached(w)' = "dir_fsync"
        /\ UNCHANGED returned
    BY <1>1, <1>3, <1>7 DEF DirectorySync, Raise, Reached
  <2>2. Files(k, w, shown, before, kept)'
    BY <1>1, <1>5, <2>1 DEF CallStands, Files
  <2>3. Course(c, w)'
    BY <1>1, <2>1, Places DEF CallStands, Course, Operations
  <2>4. Controls(c, w)'
    BY <1>2, <1>4, <2>1, Places DEF Controls
  <2>5. Causes(c, w)'
    BY <1>1, <1>5, <1>6, <1>7, <2>1 DEF CallStands, Causes, Operations
  <2> QED BY <2>2, <2>3, <2>4, <2>5 DEF CallStands
<1>8. CASE ~fires
  <2>1. pc'[w] = "idle" /\ outcome'[w] = "returned" /\ Reached(w)' = "returned"
        /\ returned' = kept \cup {k}
    BY <1>1, <1>3, <1>8 DEF DirectorySync, Return, Reached
  <2>2. Files(k, w, shown, before, kept)'
    BY <1>1, <1>5, <2>1 DEF Files
  <2>3. Course(c, w)'
    BY <1>1, <1>8, <2>1, Places DEF CallStands, Course, Operations
  <2>4. Controls(c, w)'
    BY <1>2, <1>4, <2>1, Places DEF Controls
  <2>5. Causes(c, w)'
    BY <1>1, <1>5, <1>6, <2>1 DEF CallStands, Causes
  <2> QED BY <2>2, <2>3, <2>4, <2>5 DEF CallStands
<1> QED BY <1>7, <1>8

\* The operating system fails the call, where no fault would have fired.
LEMMA CallIsFailed ==
  ASSUME PublishInv, NEW w \in Writer, NEW k \in 1..4, k = at, NEW c, NEW shown \in Publication,
         shown # k, NEW before, NEW kept, CallStands(c, k, w, shown, before, kept),
         pc[w] \notin {"idle", c.until}, c.until \in {"idle", "replace", "dir_fsync"},
         failure = "none", failure' # "none", ~Mistaken', UNCHANGED <<script, at>>,
         pc[w] \in Operations => c.faults[pc[w]] # 0, StorageFails(w)
  PROVE  CallStands(c, k, w, shown, before, kept)'
<1> USE DEF PublishInv, TypeOK, StorageTypes, CallerTypes
<1>1. /\ Reached(w) = pc[w] /\ Reached(w)' = pc[w] /\ pc'[w] = "idle"
      /\ UNCHANGED <<entries, cache, calls, current, published, returned>>
      /\ pc[w] \in {"write", "fsync", "replace", "dir_fsync"}
  BY DEF StorageFails, Raise, Reached, storage, history
<1>2. Files(k, w, shown, before, kept)'
  BY <1>1 DEF CallStands, Files
<1>3. Course(c, w)'
  BY <1>1, Places DEF CallStands, Course, Operations
<1>4. Controls(c, w)'
  <2>1. CASE pc[w] \in {"write", "fsync"}
    <3>1. publisher' = publisher
      BY <2>1 DEF StorageFails
    <3> QED BY <1>1, <2>1, <3>1 DEF CallStands, Controls
  <2>2. CASE pc[w] = "replace"
    <3>1. /\ publisher[w].replace = NewController(FaultSpec("replace", c.faults["replace"]))
          /\ publisher[w]["dir_fsync"] = NewController(FaultSpec("dir_fsync", c.faults["dir_fsync"]))
          /\ publisher[w].file_sync_spec = FaultSpec("fsync", c.faults["fsync"])
          /\ c.faults["replace"] # 0
      BY <1>1, <2>2, Places DEF CallStands, Controls, Operations
    <3>2. /\ ~publisher'[w].replace.triggered
          /\ publisher'[w]["dir_fsync"] = publisher[w]["dir_fsync"]
          /\ publisher'[w].file_sync_spec = publisher[w].file_sync_spec
      BY <2>2, <3>1, FirstAsked, Asking DEF StorageFails
    <3> QED BY <1>1, <2>2, <3>1, <3>2, Places DEF Controls
  <2>3. CASE pc[w] = "dir_fsync"
    <3>1. publisher[w].file_sync_spec = FaultSpec("fsync", c.faults["fsync"])
          /\ ~publisher[w].replace.triggered
      BY <1>1, <2>3 DEF CallStands, Controls
    <3>2. ~publisher'[w].replace.triggered
          /\ publisher'[w].file_sync_spec = publisher[w].file_sync_spec
      BY <2>3, <3>1, Asking DEF StorageFails
    <3> QED BY <1>1, <2>3, <3>1, <3>2, Places DEF Controls
  <2> QED BY <1>1, <2>1, <2>2, <2>3
<1>5. Causes(c, w)'
  BY <1>1 DEF Causes, Operations
<1> QED BY <1>2, <1>3, <1>4, <1>5 DEF CallStands
\* Where each call is over when the operating system does not fail it.
Stops ==
  [durable_publish |-> <<"dir_fsync", "dir_fsync", "returned">>,
   file_sync |-> <<"replace", "fsync", "returned">>,
   atomic_replace |-> <<"replace", "dir_fsync", "replace", "dir_fsync">>]

Seen == {"dir_fsync", "returned"}

\* A call is over at its marker, at the operation whose fault fires, or when it returned.
StopsAt(c, stop) ==
  /\ c.until \in {"idle", "replace", "dir_fsync"}
  /\ stop \in Operations \cup {"returned"} /\ Place[stop] <= Place[c.until]
  /\ \A op \in Operations : Place[op] < Place[stop] => c.faults[op] # 0
  /\ IF c.faults = NoFaults
     THEN stop = IF c.until = "idle" THEN "returned" ELSE c.until
     ELSE stop \in Operations /\ c.faults[stop] = 0 /\ stop # c.until
  /\ c.faults = NoFaults => \A op \in Operations : c.faults[op] # 0

\* What the worker then expects to read, and leaves.
Expects(c, s, k, stop) ==
  /\ c.shows = IF stop \in Seen THEN k ELSE ShownBefore[s][k]
  /\ c.staging = "absent" <=> stop \in Seen
  /\ c.staging \in {"whole", "exists"} <=> s = "file_sync" /\ k < 3
  /\ c.staging \in {"absent", "whole", "exists", "removed"}
  /\ s = "durable_publish" /\ c.faults # NoFaults => stop = "dir_fsync"
  /\ s = "atomic_replace" /\ c.faults # NoFaults => stop = "replace"
  /\ s = "file_sync" /\ c.faults # NoFaults => stop = "fsync" /\ k = 2
  /\ s = "file_sync" /\ k = 2 => c.faults # NoFaults

\* What the next call finds.
Leads(s, k, stop) ==
  /\ VisibleBefore[s][k + 1] =
       IF stop \in Seen THEN Append(VisibleBefore[s][k], k) ELSE VisibleBefore[s][k]
  /\ ShownBefore[s][k + 1] = IF stop \in Seen THEN k ELSE ShownBefore[s][k]
  /\ ReturnedBefore[s][k + 1] =
       IF stop = "returned" THEN ReturnedBefore[s][k] \cup {k} ELSE ReturnedBefore[s][k]
  /\ ShownBefore[s][k] \in 0..k - 1

LEMMA FaultValues ==
  /\ \A op \in Operations : NoFaults[op] = 99
  /\ \A op, other \in Operations : FaultAt(other)[op] = IF op = other THEN 0 ELSE 99
  /\ \A op \in Operations : FaultAt(op) # NoFaults
<1>1. \A op \in Operations : NoFaults[op] = 99
  BY DEF NoFaults
<1>2. \A op, other \in Operations : FaultAt(other)[op] = IF op = other THEN 0 ELSE 99
  BY DEF NoFaults, FaultAt
<1> QED BY <1>1, <1>2

LEMMA TheStops ==
  ASSUME NEW s \in DOMAIN Scripts, NEW k \in 1..Len(Scripts[s])
  PROVE  StopsAt(Scripts[s][k], Stops[s][k])
<1> USE Places, FaultValues DEF StopsAt, Stops, Call, Operations
<1>1. CASE s = "durable_publish"
  <2>1. k \in 1..3 /\ Scripts[s] = durable_publish_crash
    BY <1>1, TheScripts DEF Scripts
  <2> QED BY <1>1, <2>1 DEF durable_publish_crash
<1>2. CASE s = "file_sync"
  <2>1. k \in 1..3 /\ Scripts[s] = file_sync_crash
    BY <1>2, TheScripts DEF Scripts
  <2> QED BY <1>2, <2>1 DEF file_sync_crash
<1>3. CASE s = "atomic_replace"
  <2>1. k \in 1..4 /\ Scripts[s] = atomic_replace_crash
    BY <1>3, TheScripts DEF Scripts
  <2> QED BY <1>3, <2>1 DEF atomic_replace_crash
<1> QED BY <1>1, <1>2, <1>3, TheScripts

LEMMA TheExpectations ==
  ASSUME NEW s \in DOMAIN Scripts, NEW k \in 1..Len(Scripts[s])
  PROVE  Expects(Scripts[s][k], s, k, Stops[s][k])
<1> USE FaultValues DEF Expects, Stops, Call, Operations, Seen, ShownBefore
<1>1. CASE s = "durable_publish"
  <2>1. k \in 1..3 /\ Scripts[s] = durable_publish_crash
    BY <1>1, TheScripts DEF Scripts
  <2> QED BY <1>1, <2>1 DEF durable_publish_crash
<1>2. CASE s = "file_sync"
  <2>1. k \in 1..3 /\ Scripts[s] = file_sync_crash
    BY <1>2, TheScripts DEF Scripts
  <2> QED BY <1>2, <2>1 DEF file_sync_crash
<1>3. CASE s = "atomic_replace"
  <2>1. k \in 1..4 /\ Scripts[s] = atomic_replace_crash
    BY <1>3, TheScripts DEF Scripts
  <2> QED BY <1>3, <2>1 DEF atomic_replace_crash
<1> QED BY <1>1, <1>2, <1>3, TheScripts

LEMMA Appending ==
  /\ Append(<<>>, 1) = <<1>> /\ Append(<<>>, 3) = <<3>> /\ Append(<<>>, 2) = <<2>>
  /\ Append(<<1>>, 2) = <<1, 2>> /\ Append(<<2>>, 4) = <<2, 4>>
  /\ Append(<<1, 2>>, 3) = <<1, 2, 3>>
<1>1. Append(<<>>, 1) = <<1>> /\ Append(<<>>, 3) = <<3>> /\ Append(<<>>, 2) = <<2>>
  OBVIOUS
<1>2. Append(<<1>>, 2) = <<1, 2>>
  <2>1. Append(<<1>>, 2) = [i \in 1..2 |-> IF i = 1 THEN 1 ELSE 2]
    OBVIOUS
  <2>2. <<1, 2>> = [i \in 1..2 |-> IF i = 1 THEN 1 ELSE 2]
    OBVIOUS
  <2> QED BY <2>1, <2>2
<1>3. Append(<<2>>, 4) = <<2, 4>>
  <2>1. Append(<<2>>, 4) = [i \in 1..2 |-> IF i = 1 THEN 2 ELSE 4]
    OBVIOUS
  <2>2. <<2, 4>> = [i \in 1..2 |-> IF i = 1 THEN 2 ELSE 4]
    OBVIOUS
  <2> QED BY <2>1, <2>2
<1>4. Append(<<1, 2>>, 3) = <<1, 2, 3>>
  <2>1. Append(<<1, 2>>, 3) = [i \in 1..3 |-> i]
    OBVIOUS
  <2>2. <<1, 2, 3>> = [i \in 1..3 |-> i]
    OBVIOUS
  <2> QED BY <2>1, <2>2
<1> QED BY <1>1, <1>2, <1>3, <1>4

LEMMA TheLeads ==
  ASSUME NEW s \in DOMAIN Scripts, NEW k \in 1..Len(Scripts[s])
  PROVE  Leads(s, k, Stops[s][k])
<1> USE Appending DEF Leads, Stops, Seen
<1>1. CASE s = "durable_publish"
  <2>1. k \in {1, 2, 3}
    BY <1>1, TheScripts
  <2>2. VisibleBefore[s] = <<<<>>, <<1>>, <<1, 2>>, <<1, 2, 3>>>>
    BY <1>1 DEF VisibleBefore
  <2>3. ShownBefore[s] = <<0, 1, 2, 3>> /\ ReturnedBefore[s] = <<{}, {}, {}, {3}>>
    BY <1>1 DEF ShownBefore, ReturnedBefore
  <2>4. CASE k = 1
    BY <1>1, <2>2, <2>3, <2>4
  <2>5. CASE k = 2
    BY <1>1, <2>2, <2>3, <2>5
  <2>6. CASE k = 3
    BY <1>1, <2>2, <2>3, <2>6
  <2> QED BY <2>1, <2>4, <2>5, <2>6
<1>2. CASE s = "file_sync"
  <2>1. k \in {1, 2, 3}
    BY <1>2, TheScripts
  <2>2. VisibleBefore[s] = <<<<>>, <<>>, <<>>, <<3>>>>
    BY <1>2 DEF VisibleBefore
  <2>3. ShownBefore[s] = <<0, 0, 0, 3>> /\ ReturnedBefore[s] = <<{}, {}, {}, {3}>>
    BY <1>2 DEF ShownBefore, ReturnedBefore
  <2>4. CASE k = 1
    BY <1>2, <2>2, <2>3, <2>4
  <2>5. CASE k = 2
    BY <1>2, <2>2, <2>3, <2>5
  <2>6. CASE k = 3
    BY <1>2, <2>2, <2>3, <2>6
  <2> QED BY <2>1, <2>4, <2>5, <2>6
<1>3. CASE s = "atomic_replace"
  <2>1. k \in {1, 2, 3, 4}
    BY <1>3, TheScripts
  <2>2. VisibleBefore[s] = <<<<>>, <<>>, <<2>>, <<2>>, <<2, 4>>>>
    BY <1>3 DEF VisibleBefore
  <2>3. ShownBefore[s] = <<0, 0, 2, 2, 4>> /\ ReturnedBefore[s] = <<{}, {}, {}, {}, {}>>
    BY <1>3 DEF ShownBefore, ReturnedBefore
  <2>4. CASE k = 1
    BY <1>3, <2>2, <2>3, <2>4
  <2>5. CASE k = 2
    BY <1>3, <2>2, <2>3, <2>5
  <2>6. CASE k = 3
    BY <1>3, <2>2, <2>3, <2>6
  <2>7. CASE k = 4
    BY <1>3, <2>2, <2>3, <2>7
  <2> QED BY <2>1, <2>4, <2>5, <2>6, <2>7
<1> QED BY <1>1, <1>2, <1>3, TheScripts
\* A call that the operating system did not fail is over where the script says.
LEMMA WhereItStops ==
  ASSUME PublishInv, NEW w \in Writer, NEW c, NEW stop, StopsAt(c, stop), Course(c, w),
         Causes(c, w), pc[w] \in {"idle", c.until}, failure = "none" \/ Mistaken
  PROVE  /\ Reached(w) = stop
         /\ c.faults = NoFaults => outcome[w] \in {"none", "returned"}
         /\ c.faults # NoFaults => pc[w] = "idle" /\ outcome[w] = stop
<1>1. /\ pc[w] # "idle" => outcome[w] = "none"
      /\ pc[w] \in {"idle", "write", "fsync", "replace", "dir_fsync"}
      /\ outcome[w] \in {"none", "returned", "write"} \cup Operations
  BY DEF PublishInv, Ledger, LedgerOf, TypeOK, CallerTypes
<1>2. CASE pc[w] # "idle"
  <2>1. Reached(w) = c.until /\ c.until \in {"replace", "dir_fsync"}
    BY <1>1, <1>2 DEF Reached, StopsAt
  <2>2. CASE c.faults = NoFaults
    BY <1>1, <1>2, <2>1, <2>2 DEF StopsAt
  <2>3. CASE c.faults # NoFaults
    <3>1. stop \in Operations /\ c.faults[stop] = 0 /\ stop # c.until
          /\ Place[stop] <= Place[c.until]
      BY <2>3 DEF StopsAt
    <3>2. Place[stop] < Place[Reached(w)]
      BY <2>1, <3>1, Places DEF Operations
    <3> QED BY <3>1, <3>2 DEF Course
  <2> QED BY <2>2, <2>3
<1>3. CASE pc[w] = "idle"
  <2>1. Reached(w) = outcome[w] /\ Place[Reached(w)] < Place[c.until]
    BY <1>3 DEF Reached, Course
  <2>2. CASE Reached(w) = "returned"
    <3>1. \A op \in Operations : c.faults[op] # 0
      BY <2>2, Places DEF Course, Operations
    <3>2. c.until = "idle"
      BY <2>1, <2>2, Places DEF StopsAt
    <3> QED BY <1>3, <2>1, <2>2, <3>1, <3>2 DEF StopsAt
  <2>3. CASE Reached(w) # "returned"
    <3>1. Reached(w) \in Operations /\ c.faults[Reached(w)] = 0
      BY <1>3, <2>3 DEF Causes
    <3>2. c.faults # NoFaults
      BY <3>1 DEF StopsAt
    <3>3. stop \in Operations /\ c.faults[stop] = 0
      BY <3>2 DEF StopsAt
    <3>4. ~(Place[stop] < Place[Reached(w)]) /\ ~(Place[Reached(w)] < Place[stop])
      BY <3>1, <3>3 DEF Course, StopsAt
    <3>5. stop = Reached(w)
      BY <3>1, <3>3, <3>4, Places DEF Operations
    <3> QED BY <1>3, <2>1, <3>2, <3>5
  <2> QED BY <2>2, <2>3
<1> QED BY <1>2, <1>3

\* A call that the operating system failed is noticed, but for one.
LEMMA WhatIsMistaken ==
  ASSUME PublishInv, NEW s \in DOMAIN Scripts, NEW k \in 1..Len(Scripts[s]), s = script, k = at,
         NEW w \in Writer, w = writer, NEW c, c = Scripts[s][k],
         CallStands(c, k, w, ShownBefore[s][k], VisibleBefore[s][k], ReturnedBefore[s][k]),
         ~(failure = "none" \/ Mistaken), AsScripted, Observed
  PROVE  s = "file_sync" /\ k = 2 /\ Reached(w) = "write" /\ failure = "EIO"
<1> DEFINE stop == Stops[s][k]
<1>1. StopsAt(c, stop) /\ Expects(c, s, k, stop) /\ Leads(s, k, stop)
  BY TheStops, TheExpectations, TheLeads
<1> HIDE DEF stop
<1>2. /\ pc[w] = "idle" /\ Reached(w) # "returned" /\ Reached(w) = outcome[w]
      /\ Reached(w) \in Operations => c.faults[Reached(w)] # 0
      /\ Reached(w) # "none" /\ outcome[w] \in {"none", "returned", "write"} \cup Operations
  BY DEF CallStands, Causes, Course, Reached, PublishInv, TypeOK, CallerTypes
<1>3. c.faults # NoFaults /\ failure = "EIO"
  BY <1>2 DEF AsScripted, Now, PublishInv, ScriptTypes
<1>4. stop \in Operations /\ c.faults[stop] = 0
  BY <1>1, <1>3 DEF StopsAt
<1>5. ~(Place[stop] < Place[Reached(w)]) /\ Reached(w) # stop
  BY <1>2, <1>4 DEF CallStands, Course
<1>6. Place[Reached(w)] < Place[stop]
  BY <1>2, <1>4, <1>5, Places DEF Operations
<1>7. CASE s = "atomic_replace"
  <2>1. publisher[w].replace.triggered
    BY <1>3, <1>7 DEF AsScripted, Now
  <2> QED BY <1>1, <1>3, <1>5, <1>7, <2>1 DEF CallStands, Controls, Expects
<1>8. CASE s = "file_sync"
  <2>1. stop = "fsync" /\ k = 2
    BY <1>1, <1>3, <1>8 DEF Expects
  <2> QED BY <1>2, <1>3, <1>6, <1>8, <2>1, Places DEF Operations
<1>9. CASE s = "durable_publish"
  <2>1. Reached(w) \in {"write", "fsync", "replace"}
    BY <1>2, <1>4, <1>6, Places DEF Operations
  <2>2. entries[w] # Absent
    BY <2>1 DEF CallStands, Files, Absent
  <2>3. c.staging = "absent"
    BY <1>1, <1>3, <1>9 DEF Expects, Seen
  <2> QED BY <2>2, <2>3 DEF Observed, Now
<1> QED BY <1>7, <1>8, <1>9, TheScripts

\* What is read after a call that was not failed is what the script expects.
LEMMA NothingElseRaises ==
  ASSUME PublishInv, NEW s \in DOMAIN Scripts, NEW k \in 1..Len(Scripts[s]), s = script, k = at,
         NEW w \in Writer, w = writer, NEW c, c = Scripts[s][k],
         CallStands(c, k, w, ShownBefore[s][k], VisibleBefore[s][k], ReturnedBefore[s][k]),
         pc[w] \in {"idle", c.until}, failure = "none"
  PROVE  AsScripted /\ Observed
<1> DEFINE stop == Stops[s][k]
<1>1. StopsAt(c, stop) /\ Expects(c, s, k, stop) /\ Leads(s, k, stop)
  BY TheStops, TheExpectations, TheLeads
<1> HIDE DEF stop
<1>2. /\ Reached(w) = stop
      /\ c.faults = NoFaults => outcome[w] \in {"none", "returned"}
      /\ c.faults # NoFaults => pc[w] = "idle" /\ outcome[w] = stop
  BY <1>1, WhereItStops DEF CallStands
<1>3. AsScripted
  <2>1. CASE c.faults = NoFaults
    BY <1>2, <2>1 DEF AsScripted, Now
  <2>2. CASE c.faults # NoFaults
    <3>1. stop \in Operations /\ c.faults[stop] = 0 /\ outcome[w] = stop /\ pc[w] = "idle"
      BY <1>1, <1>2, <2>2 DEF StopsAt
    <3>2. s = "atomic_replace" => publisher[w].replace.triggered
      BY <1>1, <1>2, <2>2, <3>1 DEF CallStands, Controls, Expects
    <3> QED BY <2>2, <3>1, <3>2 DEF AsScripted, Now, Operations
  <2> QED BY <2>1, <2>2
<1>4. Observed
  <2>1. k # Absent /\ stop # "write"
    BY <1>1 DEF Absent, StopsAt, Operations
  <2>2. CASE stop \in Seen
    <3>1. entries[dest] = k /\ cache[k] = k /\ entries[w] = Absent
      BY <1>2, <2>2 DEF CallStands, Files, Seen
    <3>2. c.shows = k /\ c.staging = "absent"
      BY <1>1, <2>2 DEF Expects
    <3> QED BY <3>1, <3>2 DEF Observed, Now
  <2>3. CASE stop \notin Seen
    <3>1. entries[dest] = ShownBefore[s][k] /\ cache[ShownBefore[s][k]] = ShownBefore[s][k]
          /\ entries[w] = k /\ cache[k] = k /\ current[w] = k
      BY <1>2, <2>1, <2>3 DEF CallStands, Files, Seen
    <3>2. c.shows = ShownBefore[s][k] /\ c.staging # "absent"
      BY <1>1, <2>3 DEF Expects
    <3> QED BY <2>1, <3>1, <3>2 DEF Observed, Now
  <2> QED BY <2>2, <2>3
<1> QED BY <1>3, <1>4
\* The files that the calls before left stay, and so does what waits for the calls to come.
LEMMA RestStays ==
  ASSUME NEW s \in DOMAIN Scripts, NEW k \in 1..Len(Scripts[s]), Rest(s, k), calls' = k,
         calls \in {k - 1, k}, NEW w, w = Staging[k], k \in 1..4,
         \A v \in Writer \ {w} : entries'[v] = entries[v] /\ publisher'[v] = publisher[v],
         \A f \in Publication : f # k => cache'[f] = cache[f],
         failure' = failure \/ failure = "none"
  PROVE  Rest(s, k)'
<1>1. \A j \in 1..4 : j # k => Staging[j] \in Writer \ {w}
  BY TargetAssumption
<1>2. \A j \in DOMAIN Scripts[s] : j \in 1..4
  BY TheScripts
<1>3. \A j \in 1..4 : j < k => entries'[Staging[j]] =
        IF s = "file_sync" /\ j < 3 THEN j ELSE Absent
  BY <1>1 DEF Rest
<1>4. \A j \in 1..4 : j > k => entries'[Staging[j]] = Absent
  BY <1>1 DEF Rest
<1>5. \A j \in DOMAIN Scripts[s] : j > k =>
        publisher'[Staging[j]] = NewPublisher(Scripts[s][j].faults)
  BY <1>1, <1>2 DEF Rest
<1>6. \A f \in Publication : f > k => cache'[f] = Torn
  BY DEF Rest, Publication
<1>7. s = "file_sync" /\ k > 2 /\ cache'[2] = Torn => failure' = "EIO"
  BY TargetAssumption, BoundAssumption DEF Rest, Publication
<1> QED BY <1>3, <1>4, <1>5, <1>6, <1>7 DEF Rest
LEMMA CallIsOver ==
  ASSUME PublishInv, NEW s \in DOMAIN Scripts, NEW k \in 1..Len(Scripts[s]), s = script, k = at,
         k \in 1..4, Standing(s, k), CallEnds
  PROVE  Standing(s, k + 1)'
<1> DEFINE w == Staging[k]  c == Scripts[s][k]  stop == Stops[s][k]
           shown == ShownBefore[s][k]  before == VisibleBefore[s][k]  kept == ReturnedBefore[s][k]
<1>1. StopsAt(c, stop) /\ Expects(c, s, k, stop) /\ Leads(s, k, stop)
  BY TheStops, TheExpectations, TheLeads
<1>2. w = writer /\ w \in Writer /\ c = Now /\ w # dest
  BY TargetAssumption DEF writer, Now
<1>3. calls = k /\ calls # k - 1 /\ pc[w] \in {"idle", c.until}
  BY <1>2 DEF CallEnds, Underway
<1>4. CallStands(c, k, w, shown, before, kept) /\ Rest(s, k)
  BY <1>3 DEF Standing
<1>5. /\ UNCHANGED <<cache, calls, published, returned, script, failure>>
      /\ at' = k + 1
      /\ publisher' = [publisher EXCEPT ![w] = NewPublisher(c.faults)]
      /\ entries' = IF c.staging = "removed" THEN [entries EXCEPT ![w] = Absent] ELSE entries
      /\ AsScripted /\ Observed
  BY <1>2 DEF CallEnds, Restart, Directory_becomes, history
<1>6. /\ entries'[dest] = entries[dest]
      /\ entries'[w] = IF c.staging = "removed" THEN Absent ELSE entries[w]
      /\ \A v \in Writer \ {w} : entries'[v] = entries[v] /\ publisher'[v] = publisher[v]
  BY <1>2, <1>5 DEF PublishInv, TypeOK, StorageTypes, Directory, Name
<1>7. \/ Reached(w) = stop /\ (failure = "none" \/ Mistaken)
      \/ /\ s = "file_sync" /\ k = 2 /\ Reached(w) = "write" /\ failure = "EIO" /\ stop = "fsync"
  <2>1. CASE failure = "none" \/ Mistaken
    <3> HIDE DEF w, c, stop
    <3> QED BY <1>1, <1>2, <1>3, <1>4, <2>1, WhereItStops DEF CallStands
  <2>2. CASE ~(failure = "none" \/ Mistaken)
    <3>1. s = "file_sync" /\ k = 2 /\ Reached(w) = "write" /\ failure = "EIO"
      BY <1>2, <1>4, <1>5, <2>2, WhatIsMistaken
    <3> QED BY <3>1 DEF Stops
  <2> QED BY <2>1, <2>2
<1> HIDE DEF w, c, stop, shown, before, kept
<1>8. \/ /\ stop \in Seen /\ entries[dest] = k /\ entries[w] = Absent /\ cache[k] = k
         /\ published = Append(before, k)
      \/ /\ stop \notin Seen /\ entries[dest] = shown /\ cache[shown] = shown /\ entries[w] = k
         /\ published = before
  BY <1>4, <1>7 DEF CallStands, Files, Seen
<1>9. returned = IF stop = "returned" THEN kept \cup {k} ELSE kept
  BY <1>4, <1>7 DEF CallStands, Files
<1>10. cache[2] = Torn /\ k = 2 /\ s = "file_sync" => failure = "EIO"
  <2>1. CASE Reached(w) = stop
    <3>1. k = 2 /\ s = "file_sync" => Reached(w) = "fsync"
      BY <2>1 DEF stop, Stops
    <3> QED BY <1>4, <3>1 DEF CallStands, Files, Torn
  <2> QED BY <1>7, <2>1
<1>11. failure = "none" \/ Mistaken'
  <2>1. CASE failure = "none" \/ Mistaken
    BY <1>5, <2>1 DEF Mistaken
  <2>2. CASE ~(failure = "none" \/ Mistaken)
    <3>1. s = "file_sync" /\ k = 2 /\ Reached(w) = "write" /\ failure = "EIO"
      BY <1>7, <2>2
    <3>2. cache[2] = Torn
      BY <1>4, <3>1 DEF CallStands, Files
    <3> QED BY <1>5, <3>1, <3>2 DEF Mistaken
  <2> QED BY <2>1, <2>2
<1>12. NotCalled(ShownBefore[s][k + 1], VisibleBefore[s][k + 1], ReturnedBefore[s][k + 1])'
  <2>1. entries'[dest] = ShownBefore[s][k + 1] /\ cache[entries'[dest]] = ShownBefore[s][k + 1]
    BY <1>1, <1>6, <1>8 DEF Leads, shown
  <2>2. published = VisibleBefore[s][k + 1]
    BY <1>1, <1>8 DEF Leads, before
  <2>3. returned = ReturnedBefore[s][k + 1]
    BY <1>1, <1>9 DEF Leads, kept
  <2> QED BY <1>5, <1>11, <2>1, <2>2, <2>3 DEF NotCalled
<1>13. entries'[w] = IF s = "file_sync" /\ k < 3 THEN k ELSE Absent
  BY <1>1, <1>6, <1>8 DEF Expects
<1>14. Rest(s, k + 1)'
  <2>1. \A j \in 1..4 : j # k => Staging[j] \in Writer \ {w}
    BY TargetAssumption DEF w
  <2>2. \A j \in DOMAIN Scripts[s] : j \in 1..4
    BY TheScripts
  <2>3. \A j \in 1..4 : j < k + 1 => entries'[Staging[j]] =
          IF s = "file_sync" /\ j < 3 THEN j ELSE Absent
    <3> SUFFICES ASSUME NEW j \in 1..4, j < k + 1
        PROVE  entries'[Staging[j]] = IF s = "file_sync" /\ j < 3 THEN j ELSE Absent
        OBVIOUS
    <3>1. CASE j = k
      BY <1>13, <3>1 DEF w
    <3>2. CASE j # k
      BY <1>4, <1>6, <2>1, <3>2 DEF Rest
    <3> QED BY <3>1, <3>2
  <2>4. \A j \in 1..4 : j > k => entries'[Staging[j]] = Absent
    BY <1>4, <1>6, <2>1 DEF Rest
  <2>5. \A j \in DOMAIN Scripts[s] : j > k =>
          publisher'[Staging[j]] = NewPublisher(Scripts[s][j].faults)
    BY <1>4, <1>6, <2>1, <2>2 DEF Rest
  <2>6. s = "file_sync" /\ k + 1 > 2 /\ cache[2] = Torn => failure = "EIO"
    BY <1>4, <1>10 DEF Rest
  <2>7. \A f \in Publication : f > calls => cache[f] = Torn
    BY <1>4 DEF Rest
  <2>8. \A j \in 1..4 : j > k + 1 \/ (j = k + 1 /\ calls < k + 1) => j > k
    OBVIOUS
  <2>9. \A j \in DOMAIN Scripts[s] : j > k + 1 \/ (j = k + 1 /\ calls < k + 1) => j > k
    BY <2>2
  <2> QED BY <1>5, <2>3, <2>4, <2>5, <2>6, <2>7, <2>8, <2>9 DEF Rest
<1>15. calls' = (k + 1) - 1
  BY <1>3, <1>5
<1> QED BY <1>12, <1>14, <1>15 DEF Standing
LEMMA ScriptsAtFirst == TargetInit => ScriptInv
<1> SUFFICES ASSUME TargetInit PROVE ScriptInv
    OBVIOUS
<1>1. CASE script = "none"
  BY <1>1 DEF TargetInit, ScriptInv
<1>2. CASE script \in DOMAIN Scripts
  <2>1. script # "none" /\ NothingStarted /\ at = 1 /\ exit = "starting" /\ failure = "none"
    BY <1>2, TheScripts DEF TargetInit
  <2> DEFINE Of(w) == CHOOSE k \in 1..4 : Staging[k] = w
  <2>2. \A j \in 1..4 : Of(Staging[j]) = j /\ Staging[j] \in Writer
    BY TargetAssumption
  <2>3. \A j \in DOMAIN Scripts[script] : j \in 1..4
    BY <1>2, TheScripts
  <2>4. publisher = [w \in Writer |->
          NewPublisher(IF \E k \in DOMAIN Scripts[script] : Staging[k] = w
                       THEN Scripts[script][Of(w)].faults ELSE NoFaults)]
    BY <2>1 DEF TargetInit
  <2> HIDE DEF Of
  <2>5. \A j \in DOMAIN Scripts[script] :
          publisher[Staging[j]] = NewPublisher(Scripts[script][j].faults)
    BY <2>2, <2>3, <2>4
  <2>6. /\ entries[dest] = 0 /\ cache[0] = 0 /\ calls = 0 /\ published = <<>> /\ returned = {}
        /\ \A f \in Publication : f > calls => cache[f] = Torn
        /\ cache[2] = Torn => 0 = 0
    BY <2>1 DEF NothingStarted, Name, Publication
  <2>7. \A j \in 1..4 : entries[Staging[j]] = Absent
    BY <2>1, <2>2 DEF NothingStarted, Name
  <2>8. Rest(script, 1)
    BY <2>5, <2>6, <2>7 DEF Rest
  <2>9. NotCalled(ShownBefore[script][1], VisibleBefore[script][1], ReturnedBefore[script][1])
    <3>1. ShownBefore[script][1] = 0 /\ VisibleBefore[script][1] = <<>>
          /\ ReturnedBefore[script][1] = {}
      BY <1>2, TheScripts DEF ShownBefore, VisibleBefore, ReturnedBefore
    <3> QED BY <2>1, <2>6, <3>1 DEF NotCalled
  <2>10. Standing(script, at)
    BY <2>1, <2>6, <2>8, <2>9 DEF Standing
  <2> QED BY <2>1, <2>10 DEF ScriptInv
<1> QED BY <1>1, <1>2 DEF TargetInit

LEMMA OthersControls ==
  ASSUME TypeOK, NEW w \in Writer, Step(w)
  PROVE  \A v \in Writer \ {w} : publisher'[v] = publisher[v]
BY DEF TypeOK, Step, Open, Write, FileSync, Replace, DirectorySync, StorageFails, Advance

LEMMA CallGoesOn ==
  ASSUME PublishInv, NEW s \in DOMAIN Scripts, NEW k \in 1..Len(Scripts[s]), s = script, k = at,
         k \in 1..4, Standing(s, k), exit = "running", Advances
  PROVE  Standing(s, k)'
<1> DEFINE w == Staging[k]  c == Scripts[s][k]
           shown == ShownBefore[s][k]  before == VisibleBefore[s][k]  kept == ReturnedBefore[s][k]
<1>1. w = writer /\ w \in Writer /\ c = Now /\ Rest(s, k) /\ UNCHANGED target /\ exit' = "running"
  BY TargetAssumption DEF writer, Now, Standing, Advances, target
<1>2. shown \in 0..k - 1 /\ c.until \in {"idle", "replace", "dir_fsync"}
  BY TheLeads, TheStops DEF Leads, StopsAt
<1>3. shown \in Publication /\ k \in Publication /\ shown # k
  BY <1>2, TargetAssumption, BoundAssumption DEF Publication
<1> HIDE DEF w, c, shown, before, kept
<1>4. CASE calls < at /\ Open(writer)
  <2>1. calls = k - 1 /\ NotCalled(shown, before, kept)
    BY <1>4 DEF Standing, shown, before, kept
  <2>2. entries[w] = Absent /\ cache[k] = Torn /\ publisher[w] = NewPublisher(c.faults)
    BY <1>1, <1>3, <1>4, TheScripts DEF Rest, w, c
  <2>3. CallStands(c, k, w, shown, before, kept)'
    BY <1>1, <1>2, <1>3, <1>4, <2>1, <2>2, CallOpens
  <2>4. calls' = k /\ cache' = cache
    BY <1>1, <1>4, <2>1, <2>2 DEF Open
  <2>5. Step(w)
    BY <1>1, <1>4 DEF Step
  <2>6. Rest(s, k)'
    BY <1>1, <2>1, <2>4, <2>5, OthersStaging, OthersControls, RestStays DEF w, PublishInv, target
  <2> QED BY <1>1, <2>3, <2>4, <2>6 DEF Standing, w, c, shown, before, kept
<1>5. CASE Underway /\ (Write(writer) \/ FileSync(writer) \/ Replace(writer) \/ DirectorySync(writer))
  <2>1. calls = k /\ pc[w] \notin {"idle", c.until}
    BY <1>1, <1>5 DEF Underway
  <2>2. CallStands(c, k, w, shown, before, kept)
    BY <2>1 DEF Standing, w, c, shown, before, kept
  <2>3. CallStands(c, k, w, shown, before, kept)'
    BY <1>1, <1>2, <1>3, <1>5, <2>1, <2>2, CallWrites, CallSyncs, CallReplaces, CallSyncsDirectory
  <2>4. Step(w)
    BY <1>1, <1>5 DEF Step
  <2>5. calls' = k /\ \A f \in Publication : f # k => cache'[f] = cache[f]
    <3>1. CASE Write(w)
      <4>1. entries[w] = k
        BY <2>2, <3>1 DEF CallStands, Files, Write, Reached
      <4> QED BY <2>1, <3>1, <4>1 DEF Write, PublishInv, TypeOK, StorageTypes
    <3>2. CASE FileSync(w) \/ Replace(w) \/ DirectorySync(w)
      BY <2>1, <3>2 DEF FileSync, Replace, DirectorySync
    <3> QED BY <1>1, <1>5, <3>1, <3>2
  <2>6. Rest(s, k)'
    BY <1>1, <2>1, <2>4, <2>5, OthersStaging, OthersControls, RestStays DEF w, PublishInv, target
  <2> QED BY <1>1, <2>3, <2>5, <2>6 DEF Standing, w, c, shown, before, kept
<1> QED BY <1>4, <1>5 DEF Advances

LEMMA CallFailing ==
  ASSUME PublishInv, NEW s \in DOMAIN Scripts, NEW k \in 1..Len(Scripts[s]), s = script, k = at,
         k \in 1..4, Standing(s, k), exit' = "running", CallFails
  PROVE  Standing(s, k)'
<1> DEFINE w == Staging[k]  c == Scripts[s][k]
           shown == ShownBefore[s][k]  before == VisibleBefore[s][k]  kept == ReturnedBefore[s][k]
<1>1. w = writer /\ w \in Writer /\ c = Now /\ Rest(s, k)
  BY TargetAssumption DEF writer, Now, Standing
<1>2. /\ Underway /\ StorageFails(w) /\ failure = "none" /\ failure' # "none"
      /\ UNCHANGED <<script, at>>
      /\ pc[w] \in Operations => c.faults[pc[w]] # 0
  BY <1>1 DEF CallFails
<1>3. shown \in 0..k - 1 /\ c.until \in {"idle", "replace", "dir_fsync"}
  BY TheLeads, TheStops DEF Leads, StopsAt
<1>4. shown \in Publication /\ shown # k
  BY <1>3, TargetAssumption, BoundAssumption DEF Publication
<1> HIDE DEF w, c, shown, before, kept
<1>5. calls = k /\ pc[w] \notin {"idle", c.until}
  BY <1>1, <1>2 DEF Underway
<1>6. CallStands(c, k, w, shown, before, kept)
  BY <1>5 DEF Standing, w, c, shown, before, kept
<1>7. UNCHANGED <<calls, cache>> /\ Step(w)
  BY <1>2 DEF StorageFails, storage, Step
<1>8. ~Mistaken'
  BY <1>1, <1>2, <1>7 DEF Mistaken, Rest
<1>9. CallStands(c, k, w, shown, before, kept)'
  BY <1>1, <1>2, <1>3, <1>4, <1>5, <1>6, <1>8, CallIsFailed
<1>10. Rest(s, k)'
  BY <1>1, <1>2, <1>5, <1>7, OthersStaging, OthersControls, RestStays DEF w, PublishInv
<1> QED BY <1>5, <1>7, <1>9, <1>10 DEF Standing, w, c, shown, before, kept

LEMMA ScriptStep == PublishInv /\ ScriptInv /\ [TargetNext]_<<vars, target>> => ScriptInv'
<1> SUFFICES ASSUME PublishInv, ScriptInv, [TargetNext]_<<vars, target>> PROVE ScriptInv'
    OBVIOUS
<1>1. CASE Concurrently
  BY <1>1 DEF Concurrently, PublishInv, ScriptTypes, ScriptInv, target
<1>2. CASE UNCHANGED <<vars, target>> \/ Raises \/ Launch
  <2>1. UNCHANGED vars /\ UNCHANGED <<script, at>>
    BY <1>2 DEF target, Raises, Launch
  <2>2. CASE exit' = "target_error"
    <3>1. CASE Launch \/ UNCHANGED <<vars, target>>
      BY <2>2, <3>1 DEF Launch, target, ScriptInv
    <3>2. CASE Raises
      <4>1. failure' = failure /\ exit = "running" /\ calls = at /\ ~Underway
            /\ ~(AsScripted /\ Observed)
        BY <3>2 DEF Raises
      <4>2. PICK s, k : s = script /\ k = at
        OBVIOUS
      <4>3. s \in DOMAIN Scripts /\ k \in 1..Len(Scripts[s]) /\ k \in 1..4 /\ writer \in Writer
            /\ writer = Staging[k]
        BY <4>1, <4>2, TheWriter DEF PublishInv
      <4>4. pc[writer] \in {"idle", Scripts[s][k].until}
        BY <4>1, <4>2 DEF Underway, Now
      <4>5. CallStands(Scripts[s][k], k, Staging[k], ShownBefore[s][k], VisibleBefore[s][k],
                       ReturnedBefore[s][k])
        BY <4>1, <4>2, <4>3 DEF ScriptInv, Standing
      <4>6. failure # "none"
        BY <4>1, <4>2, <4>3, <4>4, <4>5, NothingElseRaises
      <4> QED BY <2>2, <4>1, <4>6 DEF ScriptInv
    <3> QED BY <1>2, <3>1, <3>2
  <2>3. CASE exit' # "target_error"
    <3>1. CASE exit' \notin {"starting", "running", "reported"}
      BY <2>3, <3>1 DEF ScriptInv
    <3>2. CASE exit' \in {"starting", "running", "reported"}
      <4>1. UNCHANGED failure /\ exit \in {"starting", "running", "reported"}
            /\ (exit = "running" => exit' = "running")
        BY <1>2, <2>3, <3>2 DEF target, Raises, Launch
      <4>2. PICK s, k : s = script /\ k = at
        OBVIOUS
      <4>3. Standing(s, k)
        BY <4>1, <4>2 DEF ScriptInv
      <4>4. Standing(s, k)'
        BY <2>1, <4>1, <4>3 DEF Standing, Rest, NotCalled, CallStands, Files, Course, Controls,
           Causes, Mistaken, Reached, vars, storage, history
      <4> QED BY <2>1, <2>3, <4>2, <4>4 DEF ScriptInv
    <3> QED BY <3>1, <3>2
  <2> QED BY <2>2, <2>3
<1>3. CASE Advances \/ CallFails \/ CallEnds
  <2>1. exit = "running"
    BY <1>3 DEF Advances, CallFails, CallEnds
  <2>2. PICK s, k : s = script /\ k = at
    OBVIOUS
  <2>3. s \in DOMAIN Scripts /\ k \in 1..Len(Scripts[s]) /\ k \in 1..4 /\ Standing(s, k)
    BY <2>1, <2>2, TheWriter DEF PublishInv, ScriptInv
  <2>4. CASE Advances
    <3>1. Standing(s, k)' /\ exit' = "running" /\ UNCHANGED <<script, at>>
      BY <2>1, <2>2, <2>3, <2>4, CallGoesOn DEF Advances, target
    <3> QED BY <2>2, <3>1 DEF ScriptInv
  <2>5. CASE CallFails
    <3>1. failure' # "none" /\ UNCHANGED <<script, at>> /\ exit' \in {"running", "target_error"}
      BY <2>1, <2>5 DEF CallFails
    <3>2. CASE exit' = "running"
      BY <2>2, <2>3, <2>5, <3>1, <3>2, CallFailing DEF ScriptInv
    <3> QED BY <3>1, <3>2 DEF ScriptInv
  <2>6. CASE CallEnds
    <3>1. exit' \in {"running", "reported"} /\ script' = s /\ at' = k + 1
      BY <2>1, <2>2, <2>6 DEF CallEnds
    <3>2. Standing(s, k + 1)'
      BY <2>2, <2>3, <2>6, CallIsOver
    <3> QED BY <3>1, <3>2 DEF ScriptInv
  <2> QED BY <1>3, <2>4, <2>5, <2>6
<1> QED BY <1>1, <1>2, <1>3 DEF TargetNext

\* A storage worker's report is true, and a target error means that a storage call failed.
THEOREM ReportsAreTrue == TargetSpec => []ReportIsTrue
<1>1. PublishInv /\ ScriptInv => ReportIsTrue
  <2> SUFFICES ASSUME PublishInv, ScriptInv, exit = "reported"
      PROVE  /\ published = Claimed[script].visible /\ returned = Claimed[script].returned
             /\ \A k \in 1..4 : (entries[Staging[k]] # Absent) = (k \in Claimed[script].left)
             /\ failure = "none" \/ TakenForTheFault
      BY DEF ReportIsTrue, ScriptInv
  <2>1. PICK s, k : s = script /\ k = at
    OBVIOUS
  <2>2. s \in DOMAIN Scripts /\ k = Len(Scripts[s]) + 1 /\ Standing(s, k)
    BY <2>1, TheScripts DEF PublishInv, ScriptTypes, ScriptInv
  <2>3. Rest(s, k) /\ calls = k - 1
        /\ NotCalled(ShownBefore[s][k], VisibleBefore[s][k], ReturnedBefore[s][k])
    BY <2>2 DEF Standing
  <2>4. \/ s \in {"durable_publish", "file_sync"} /\ k = 4
        \/ s = "atomic_replace" /\ k = 5
    <3>1. s \in {"durable_publish", "file_sync", "atomic_replace"}
      BY <2>2, TheScripts
    <3>2. s \in {"durable_publish", "file_sync"} => Len(Scripts[s]) = 3
      BY TheScripts
    <3>3. s = "atomic_replace" => Len(Scripts[s]) = 4
      BY TheScripts
    <3> DEFINE length == Len(Scripts[s])
    <3>4. k = length + 1 /\ length \in {3, 4}
      BY <2>2, <3>1, <3>2, <3>3
    <3> HIDE DEF length
    <3>5. length = 3 => k = 4
      BY <3>4
    <3>6. length = 4 => k = 5
      BY <3>4
    <3> QED BY <3>1, <3>2, <3>3, <3>5, <3>6 DEF length
  <2>5. VisibleBefore[s][k] = Claimed[s].visible /\ ReturnedBefore[s][k] = Claimed[s].returned
    <3>1. CASE s = "durable_publish" /\ k = 4
      BY <3>1 DEF VisibleBefore, ReturnedBefore, Claimed
    <3>2. CASE s = "file_sync" /\ k = 4
      BY <3>2 DEF VisibleBefore, ReturnedBefore, Claimed
    <3>3. CASE s = "atomic_replace" /\ k = 5
      BY <3>3 DEF VisibleBefore, ReturnedBefore, Claimed
    <3> QED BY <2>4, <3>1, <3>2, <3>3
  <2>6. ASSUME NEW j \in 1..4
        PROVE  entries[Staging[j]] = IF s = "file_sync" /\ j < 3 THEN j ELSE Absent
    <3>1. k \in {4, 5}
      BY <2>4
    <3>2. j < k \/ (j = k /\ calls < k)
      BY <2>3, <3>1
    <3>3. CASE j < k
      BY <2>3, <3>3 DEF Rest
    <3>4. CASE j = k /\ calls < k
      BY <2>3, <3>1, <3>4 DEF Rest
    <3> QED BY <3>2, <3>3, <3>4
  <2>7. \A j \in 1..4 : (entries[Staging[j]] # Absent) = (j \in Claimed[s].left)
    <3> SUFFICES ASSUME NEW j \in 1..4 PROVE entries[Staging[j]] # Absent <=> j \in Claimed[s].left
        OBVIOUS
    <3>1. j \in Claimed[s].left <=> s = "file_sync" /\ j < 3
      BY <2>2, TheScripts DEF Claimed
    <3> QED BY <2>6, <3>1 DEF Absent
  <2>8. Mistaken => TakenForTheFault
    <3>1. s = "file_sync" => entries[Staging[2]] = 2
      BY <2>6
    <3> QED BY <2>1, <3>1 DEF Mistaken, TakenForTheFault
  <2> QED BY <2>1, <2>3, <2>5, <2>7, <2>8 DEF NotCalled
<1>2. TargetSpec => []ScriptInv
  BY ScriptsAtFirst, ScriptStep, PublishInvariance, PTL DEF TargetSpec
<1> QED BY <1>1, <1>2, PublishInvariance, PTL
=============================================================================
