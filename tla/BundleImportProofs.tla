------------------------- MODULE BundleImportProofs -------------------------
(***************************************************************************)
(* What the two imports promise, for any number of importers and any       *)
(* injected faults, whatever rivals, kills and a power loss do.            *)
(***************************************************************************)
EXTENDS BundleImport, TLAPS

(***************************************************************************)
(* The inductive invariant.  A call first has nothing staged, then fills   *)
(* its directory, then seals it: what it seals is validated and is not     *)
(* written any more.                                                       *)
(***************************************************************************)
Empty == {"check", "read", "stage"}
Filling == {"write", "validate"}
Sealing == {"publish", "sync_input", "sync_manifest", "sync_bundle", "identify", "compare",
            "rename"}
Over == {"clean up", "returned", "raised", "killed"}

Own(i) == {Validated(i), Substitute(i)}

\* Where its directory is: below its staging name until it is published, and never both.
Placed(i) ==
  /\ staged[i] \in Own(i) \cup {Nothing}
  /\ pc[i] \in Empty => staged[i] = Nothing
  /\ pc[i] \in Filling \cup Sealing => staged[i] # Nothing
  /\ pc[i] \in Empty \cup Filling \cup Sealing => destination \notin Own(i)
  /\ pc[i] = "sync_parent" => destination \in Own(i)

\* What a call has synced when it gets to a position.
SyncedBy(label) ==
  CASE label = "sync_manifest" -> {"input.bin"}
    [] label = "sync_bundle" -> {"input.bin", "manifest.json"}
    [] label \in {"identify", "compare", "rename"} -> Parts
    [] OTHER -> {}

Sealed(i) ==
  /\ pc[i] \in Sealing /\ staged[i] = Validated(i) =>
       archive[i] = "valid" /\ bundle[i] = "whole" /\ SyncedBy(pc[i]) \subseteq synced[i]
  /\ destination = Validated(i) =>
       /\ archive[i] = "valid"
       /\ durable[i] => bundle[i] = "whole" /\ Parts \subseteq synced[i]
       /\ ~power_lost => bundle[i] = "whole"

\* A directory replaced after its identity was taken differs from it; compared, it is refused.
Watched(i) ==
  /\ pc[i] \in Empty => swapped_at[i] = "never"
  /\ staged[i] = Validated(i) => swapped_at[i] = "never"
  /\ pc[i] = "compare" => identity[i] = IF swapped_at[i] = "compare" THEN Validated(i)
                                                                     ELSE staged[i]
  /\ swapped_at[i] = "compare" =>
       /\ pc[i] \in {"compare"} \cup Over
       /\ destination # Substitute(i)
       /\ pc[i] = "compare" => staged[i] = Substitute(i)

\* How often the fault controller of a call was asked when it gets to a position.
AskedBy(label) ==
  CASE label = "sync_manifest" -> 1
    [] label = "sync_bundle" -> 2
    [] label \in {"identify", "compare", "rename", "sync_parent"} -> 3
    [] OTHER -> 0

Asked(i) ==
  LET c == controller[i]
  IN  /\ ~c.triggered /\ pc[i] \notin Over => c.matching_occurrences = AskedBy(pc[i])
      /\ c.triggered => /\ pc[i] \in Over
                        /\ IF c.spec.occurrence < 3
                           THEN destination \notin Own(i)
                           ELSE power_lost \/ destination \in Own(i)

\* A durable call that is to return has left no older version of the parent.
Reported(i) ==
  /\ pc[i] = "returned" => result[i] = "returned"
  /\ pc[i] \in {"returned", "raised"} => i \notin holder
  /\ result[i] = "returned" /\ (power_lost => durable[i] /\ parent # "missing") =>
       destination \in Own(i) /\ (durable[i] => survivors \subseteq {destination})

Stopped == power_lost => \A i \in Importer : Ended(i)
Surviving == survivors \subseteq {destination, Nothing}

IInv ==
  /\ Stopped /\ Surviving
  /\ \A i \in Importer : Placed(i) /\ Sealed(i) /\ Watched(i) /\ Asked(i) /\ Reported(i)

----------------------------------------------------------------------------
(* Type correctness.                                                       *)

LEMMA CheckpointTypes ==
  ASSUME NEW S, NEW operation, NEW c \in Controllers(S)
  PROVE  checkpoint(c, operation) \in Controllers(S)
<1>1. /\ Fires(c, operation) \in BOOLEAN
      /\ c.matching_occurrences \in Nat /\ c.spec \in [operation : S, occurrence : Nat]
  BY DEF Fires, Matches, Controllers
<1> QED BY <1>1 DEF checkpoint, Controllers

LEMMA SyncSteps ==
  /\ Next_sync["sync_input"] = "sync_manifest" /\ Syncing["sync_input"] = "input.bin"
  /\ Next_sync["sync_manifest"] = "sync_bundle" /\ Syncing["sync_manifest"] = "manifest.json"
  /\ Next_sync["sync_bundle"] = "identify" /\ Syncing["sync_bundle"] = "bundle"
BY DEF Syncing, Next_sync

LEMMA SyncLabels ==
  /\ DOMAIN Syncing = {"sync_input", "sync_manifest", "sync_bundle"}
  /\ \A label \in DOMAIN Syncing : Next_sync[label] \in Labels /\ Syncing[label] \in Parts
<1>1. DOMAIN Syncing = {"sync_input", "sync_manifest", "sync_bundle"}
  BY DEF Syncing
<1> QED
  BY <1>1, SyncSteps DEF Labels, Parts

\* The state of both imports stays within its types.
THEOREM TypeCorrect == Spec => []TypeOK
<1> USE DEF TypeOK
<1>1. Init => TypeOK
  <2> SUFFICES ASSUME Init PROVE TypeOK
    OBVIOUS
  <2>1. controller \in [Importer -> Controllers({"import_sync"})]
    <3> PICK occurrence \in [Importer -> FaultOccurrences] :
          controller = [i \in Importer |->
                          NewController(FaultSpec("import_sync", occurrence[i]))]
      BY DEF Init
    <3>1. ASSUME NEW i \in Importer
          PROVE  NewController(FaultSpec("import_sync", occurrence[i]))
                   \in Controllers({"import_sync"})
      <4>1. occurrence[i] \in Nat
        BY FaultAssumption
      <4> QED
        BY <4>1 DEF NewController, FaultSpec, Controllers
    <3> QED
      BY <3>1
  <2>2. pc \in [Importer -> Labels]
    BY DEF Init, Labels
  <2> QED
    BY <2>1, <2>2 DEF Init, Labels
<1>2. TypeOK /\ [Next]_vars => TypeOK'
  <2> SUFFICES ASSUME TypeOK, [Next]_vars PROVE TypeOK'
    OBVIOUS
  <2> USE DEF call, disk
  <2>0. /\ \A i \in Importer, label \in Labels : GoTo(i, label) => pc' \in [Importer -> Labels]
        /\ \A i \in Importer : Raise(i) => pc' \in [Importer -> Labels] /\ UNCHANGED result
    BY DEF GoTo, Raise, Labels
  <2>1. ASSUME NEW i \in Importer PROVE Validated(i) \in Object /\ Substitute(i) \in Object
    BY DEF Object
  <2>2. ASSUME NEW i \in Importer, Checkpoint(i)
        PROVE  controller' \in [Importer -> Controllers({"import_sync"})]
    BY <2>2, CheckpointTypes DEF Checkpoint
  <2>9. ASSUME NEW i \in Importer, PublishAt(i)
        PROVE  /\ staged' \in [Importer -> Object \cup {Nothing}]
               /\ destination' \in Object \cup {Nothing}
               /\ survivors' \subseteq Object \cup {Nothing}
    BY <2>9 DEF PublishAt
  <2>3. ASSUME NEW i \in Importer,
               CheckFirst(i) \/ ReadArchive(i) \/ Stage(i) \/ WriteMembers(i) \/ Validate(i)
        PROVE  TypeOK'
    <3>1. CASE CheckFirst(i)
      <4>1. pc' \in [Importer -> Labels] /\ UNCHANGED result
        BY <2>0, <3>1 DEF CheckFirst, Labels
      <4>2. holder' \subseteq Importer /\ parent' \in {"missing", "new", "on disk"}
        <5>1. parent \in {"missing", "new", "on disk"} /\ holder \subseteq Importer
          OBVIOUS
        <5> HIDE DEF TypeOK, call, disk
        <5>2. /\ holder' = holder \/ holder' = holder \cup {i}
              /\ parent' \in {parent, "new"}
          BY <3>1 DEF CheckFirst, MakeParent
        <5> QED
          BY <5>1, <5>2
      <4> QED
        BY <3>1, <4>1, <4>2 DEF CheckFirst
    <3>2. CASE ReadArchive(i)
      <4> PICK found \in {"malformed", "invalid bundle", "valid"} :
            /\ archive' = [archive EXCEPT ![i] = found]
            /\ IF found = "malformed" \/ (~durable[i] /\ destination # Nothing)
               THEN Raise(i) ELSE GoTo(i, "stage") /\ UNCHANGED result
        BY <3>2 DEF ReadArchive
      <4>1. pc' \in [Importer -> Labels] /\ UNCHANGED result
        BY <2>0 DEF Labels
      <4> QED
        BY <3>2, <4>1 DEF ReadArchive
    <3>3. CASE Stage(i)
      BY <2>0, <2>1, <3>3 DEF Stage, MakeParent, Labels
    <3>4. CASE WriteMembers(i)
      BY <2>0, <3>4 DEF WriteMembers, Labels
    <3>5. CASE Validate(i)
      BY <2>0, <3>5 DEF Validate, Labels
    <3> QED
      BY <2>3, <3>1, <3>2, <3>3, <3>4, <3>5
  <2>4. ASSUME NEW i \in Importer,
               PublishImport(i) \/ Identify(i) \/ CompareIdentity(i) \/ Rename(i) \/ CleanUp(i)
        PROVE  TypeOK'
    <3>1. CASE PublishImport(i)
      <4>1. CASE Raise(i)
        <5>1. pc' \in [Importer -> Labels] /\ UNCHANGED result
          BY <2>0, <4>1
        <5>2. ~GoTo(i, "returned") /\ ~GoTo(i, "sync_input")
          BY <4>1 DEF Raise, GoTo
        <5> QED
          BY <3>1, <5>1, <5>2 DEF PublishImport
      <4>2. CASE GoTo(i, "sync_input") /\ UNCHANGED <<result, holder, staged, destination, survivors>>
        BY <2>0, <3>1, <4>2 DEF PublishImport, Labels
      <4>3. CASE PublishAt(i) /\ holder' = holder \ {i} /\ GoTo(i, "returned")
                 /\ result' = [result EXCEPT ![i] = "returned"]
        <5>1. pc' \in [Importer -> Labels]
          BY <2>0, <4>3 DEF Labels
        <5> QED
          BY <2>9, <3>1, <4>3, <5>1 DEF PublishImport
      <4> QED
        BY <3>1, <4>1, <4>2, <4>3 DEF PublishImport
    <3>2. CASE Identify(i)
      BY <2>0, <3>2 DEF Identify, Labels
    <3>3. CASE CompareIdentity(i)
      BY <2>0, <3>3 DEF CompareIdentity, Labels
    <3>4. CASE Rename(i)
      <4>1. pc' \in [Importer -> Labels] /\ UNCHANGED result
        BY <2>0, <3>4 DEF Rename, Labels
      <4> QED
        BY <2>9, <3>4, <4>1 DEF Rename
    <3>5. CASE CleanUp(i)
      BY <2>0, <3>5 DEF CleanUp, Forget, Labels
    <3> QED
      BY <2>4, <3>1, <3>2, <3>3, <3>4, <3>5
  <2>5. ASSUME NEW i \in Importer, SyncPart(i) \/ SyncParent(i) \/ SystemCallFails(i)
        PROVE  TypeOK'
    <3>1. CASE SyncPart(i)
      <4>1. pc[i] \in DOMAIN Syncing => Next_sync[pc[i]] \in Labels /\ Syncing[pc[i]] \in Parts
        BY SyncLabels
      <4>2. synced' \in [Importer -> SUBSET Parts]
        <5>1. CASE synced' = synced
          BY <5>1
        <5>2. CASE pc[i] \in DOMAIN Syncing /\ synced' = [synced EXCEPT ![i] = @ \cup {Syncing[pc[i]]}]
          BY <4>1, <5>2
        <5> QED
          BY <3>1, <5>1, <5>2 DEF SyncPart
      <4>3. pc' \in [Importer -> Labels] /\ UNCHANGED result
        BY <2>0, <3>1, <4>1 DEF SyncPart
      <4> QED
        BY <2>2, <3>1, <4>2, <4>3 DEF SyncPart
    <3>2. CASE SyncParent(i)
      <4>1. controller' \in [Importer -> Controllers({"import_sync"})]
        BY <2>2, <3>2 DEF SyncParent
      <4>2. CASE Faulted(i)
        BY <2>0, <3>2, <4>1, <4>2 DEF SyncParent
      <4>3. CASE ~Faulted(i)
        <5>1. GoTo(i, "clean up") /\ "clean up" \in Labels
          BY <3>2, <4>3 DEF SyncParent, Labels
        <5>2. pc' \in [Importer -> Labels]
          BY <2>0, <5>1
        <5> QED
          BY <3>2, <4>1, <4>3, <5>2 DEF SyncParent
      <4> QED
        BY <4>2, <4>3
    <3>3. CASE SystemCallFails(i)
      BY <2>0, <2>2, <3>3 DEF SystemCallFails, Labels
    <3> QED
      BY <2>5, <3>1, <3>2, <3>3
  <2>6. ASSUME NEW i \in Importer, ReplaceStaging(i) \/ Kill(i)
        PROVE  TypeOK'
    <3>1. CASE ReplaceStaging(i)
      <4>1. /\ staged' \in [Importer -> Object \cup {Nothing}]
            /\ swapped_at' \in [Importer -> Labels \cup {"never"}]
        BY <2>1, <3>1 DEF ReplaceStaging
      <4> QED
        BY <3>1, <4>1 DEF ReplaceStaging
    <3>2. CASE Kill(i)
      BY <2>0, <3>2 DEF Kill, Forget, Labels
    <3> QED
      BY <2>6, <3>1, <3>2
  <2>7. CASE ClaimDestination
    BY <2>7 DEF ClaimDestination, Object
  <2>8. CASE PowerLoss
    BY <2>8 DEF PowerLoss, Forget, Labels, Ended
  <2>10. CASE UNCHANGED vars
    BY <2>10 DEF vars
  <2> QED
    BY <2>3, <2>4, <2>5, <2>6, <2>7, <2>8, <2>10 DEF Next, Step
<1> QED
  BY <1>1, <1>2, PTL DEF Spec

----------------------------------------------------------------------------
(* What a step of one importer leaves alone.                               *)

Acts(i) == Step(i) \/ ReplaceStaging(i) \/ Kill(i)

State(j) ==
  <<archive[j], controller[j], pc[j], staged[j], swapped_at[j], identity[j], result[j],
    bundle[j], synced[j]>>

LEMMA ActsAlone ==
  ASSUME TypeOK, NEW i \in Importer, Acts(i)
  PROVE  /\ \A j \in Importer \ {i} : UNCHANGED State(j) /\ (j \in holder' <=> j \in holder)
         /\ UNCHANGED <<durable, power_lost>>
<1> USE DEF TypeOK, State, GoTo, Raise, call, disk, Checkpoint
<1>0. UNCHANGED <<durable, power_lost>>
  BY DEF Acts, Step, CheckFirst, ReadArchive, Stage, WriteMembers, Validate, PublishImport,
     Identify, CompareIdentity, Rename, CleanUp, SyncPart, SyncParent, SystemCallFails,
     ReplaceStaging, Kill
<1> SUFFICES ASSUME NEW j \in Importer \ {i}
             PROVE  UNCHANGED State(j) /\ (j \in holder' <=> j \in holder)
  BY <1>0
<1>1. CASE CheckFirst(i)
  BY <1>1 DEF CheckFirst
<1>2. CASE ReadArchive(i)
  BY <1>2 DEF ReadArchive
<1>3. CASE Stage(i)
  BY <1>3 DEF Stage
<1>4. CASE WriteMembers(i)
  BY <1>4 DEF WriteMembers
<1>5. CASE Validate(i)
  BY <1>5 DEF Validate
<1>6. CASE PublishImport(i)
  BY <1>6 DEF PublishImport, PublishAt
<1>7. CASE Identify(i) \/ CompareIdentity(i)
  BY <1>7 DEF Identify, CompareIdentity
<1>8. CASE Rename(i)
  BY <1>8 DEF Rename, PublishAt
<1>9. CASE CleanUp(i)
  BY <1>9 DEF CleanUp, Forget
<1>10. CASE SyncPart(i) \/ SyncParent(i) \/ SystemCallFails(i)
  BY <1>10 DEF SyncPart, SyncParent, SystemCallFails
<1>11. CASE ReplaceStaging(i)
  BY <1>11 DEF ReplaceStaging
<1>12. CASE Kill(i)
  BY <1>12 DEF Kill, Forget
<1> QED
  BY <1>1, <1>2, <1>3, <1>4, <1>5, <1>6, <1>7, <1>8, <1>9, <1>10, <1>11, <1>12 DEF Acts, Step

LEMMA SyncPartMoves ==
  ASSUME TypeOK, NEW i \in Importer, SyncPart(i)
  PROVE  /\ UNCHANGED <<staged, swapped_at, identity, archive, durable, bundle, holder,
                        result, disk>>
         /\ controller'[i] = checkpoint(controller[i], "import_sync")
         /\ \/ pc'[i] = "clean up" /\ UNCHANGED synced
            \/ /\ ~Faulted(i)
               /\ \/ /\ pc[i] = "sync_input" /\ pc'[i] = "sync_manifest"
                     /\ staged[i] = Validated(i) => synced'[i] = synced[i] \cup {"input.bin"}
                  \/ /\ pc[i] = "sync_manifest" /\ pc'[i] = "sync_bundle"
                     /\ staged[i] = Validated(i) => synced'[i] = synced[i] \cup {"manifest.json"}
                  \/ /\ pc[i] = "sync_bundle" /\ pc'[i] = "identify"
                     /\ staged[i] = Validated(i) => synced'[i] = synced[i] \cup {"bundle"}
         /\ pc[i] \in {"sync_input", "sync_manifest", "sync_bundle"}
<1> USE DEF SyncPart, GoTo, Raise, TypeOK
<1>1. pc[i] \in {"sync_input", "sync_manifest", "sync_bundle"}
  BY SyncLabels
<1>2. /\ UNCHANGED <<staged, swapped_at, identity, archive, durable, bundle, holder, result, disk>>
      /\ controller'[i] = checkpoint(controller[i], "import_sync")
  BY DEF Checkpoint
<1>3. CASE Faulted(i)
  BY <1>1, <1>2, <1>3
<1>4. CASE ~Faulted(i)
  <2>1. pc'[i] = Next_sync[pc[i]]
    BY <1>4
  <2>2. staged[i] = Validated(i) => synced'[i] = synced[i] \cup {Syncing[pc[i]]}
    BY <1>4
  <2> QED
    <3> HIDE DEF SyncPart, GoTo, Raise, TypeOK
    <3>1. CASE pc[i] = "sync_input"
      BY <1>2, <1>4, <2>1, <2>2, <3>1, SyncSteps
    <3>2. CASE pc[i] = "sync_manifest"
      BY <1>2, <1>4, <2>1, <2>2, <3>2, SyncSteps
    <3>3. CASE pc[i] = "sync_bundle"
      BY <1>2, <1>4, <2>1, <2>2, <3>3, SyncSteps
    <3> QED
      BY <1>1, <3>1, <3>2, <3>3
<1> QED
  BY <1>3, <1>4

\* The destination only goes from nothing to the directory of the importer that acts, which
\* is at its publication; a sync of the parent leaves no older version of it.
LEMMA ActsOnDisk ==
  ASSUME TypeOK, IInv, NEW i \in Importer, Acts(i)
  PROVE  /\ ~Ended(i)
         /\ \/ UNCHANGED <<destination, survivors>>
            \/ /\ destination = Nothing /\ destination' = staged[i] /\ staged[i] \in Own(i)
               /\ survivors' = survivors \cup {staged[i]}
               /\ pc[i] \in {"publish", "rename"} /\ pc'[i] \in {"returned", "sync_parent"}
               /\ staged'[i] = Nothing
            \/ /\ pc[i] = "sync_parent" /\ UNCHANGED destination
               /\ survivors' = {destination}
         /\ UNCHANGED parent \/ (parent' # "missing" /\ ~power_lost)
<1> USE DEF GoTo, Raise, call, disk
<1>0. ~Ended(i)
  <2>1. CASE SyncPart(i)
    BY <2>1, SyncLabels DEF SyncPart, Ended
  <2>2. CASE ~SyncPart(i)
    BY <2>2 DEF Acts, Step, Ended, CheckFirst, ReadArchive, Stage, WriteMembers, Validate,
        PublishImport, Identify, CompareIdentity, Rename, SyncParent, CleanUp, SystemCallFails,
        ReplaceStaging, Kill
  <2> QED
    BY <2>1, <2>2
<1>1. ~power_lost
  BY <1>0 DEF IInv, Stopped
<1>2. CASE CheckFirst(i) \/ Stage(i)
  BY <1>0, <1>1, <1>2 DEF CheckFirst, Stage, MakeParent
<1>3. ASSUME pc[i] \in {"publish", "rename"}, PublishAt(i), GoTo(i, "returned") \/ GoTo(i, "sync_parent"),
             UNCHANGED parent
      PROVE  /\ destination = Nothing /\ destination' = staged[i] /\ staged[i] \in Own(i)
             /\ survivors' = survivors \cup {staged[i]}
             /\ pc'[i] \in {"returned", "sync_parent"} /\ staged'[i] = Nothing
  BY <1>3 DEF PublishAt, IInv, Placed, Sealing, TypeOK
<1>4. CASE PublishImport(i) \/ Rename(i)
  BY <1>0, <1>3, <1>4 DEF PublishImport, Rename
<1>5. CASE SyncParent(i)
  BY <1>0, <1>5 DEF SyncParent
<1>6. CASE ReadArchive(i) \/ WriteMembers(i) \/ Validate(i) \/ SyncPart(i) \/ Identify(i)
           \/ CompareIdentity(i) \/ CleanUp(i) \/ SystemCallFails(i) \/ ReplaceStaging(i) \/ Kill(i)
  BY <1>0, <1>6 DEF ReadArchive, WriteMembers, Validate, SyncPart, Identify, CompareIdentity,
     CleanUp, SystemCallFails, ReplaceStaging, Kill
<1> QED
  BY <1>2, <1>4, <1>5, <1>6 DEF Acts, Step

LEMMA OthersKeep ==
  ASSUME TypeOK, IInv, NEW i \in Importer, Acts(i), NEW j \in Importer \ {i}
  PROVE  (Placed(j) /\ Sealed(j) /\ Watched(j) /\ Asked(j) /\ Reported(j))'
<1>1. UNCHANGED <<archive[j], controller[j], pc[j], staged[j], swapped_at[j], identity[j],
                  result[j], bundle[j], synced[j], durable, power_lost>>
      /\ (j \in holder' <=> j \in holder)
  BY ActsAlone DEF State
<1>2. Placed(j) /\ Sealed(j) /\ Watched(j) /\ Asked(j) /\ Reported(j)
  BY DEF IInv
<1>3. destination' = destination \/ (destination = Nothing /\ destination' \in Own(i))
  BY ActsOnDisk
<1>4. /\ Own(i) \cap Own(j) = {} /\ Nothing \notin Own(i) \cup Own(j)
  BY DEF Own, Validated, Substitute, Nothing
<1>5. /\ destination' \in Own(j) <=> destination \in Own(j)
      /\ destination' = Validated(j) <=> destination = Validated(j)
      /\ destination' = Substitute(j) <=> destination = Substitute(j)
  BY <1>3, <1>4 DEF Own
<1>6. Placed(j)'
  BY <1>1, <1>2, <1>5 DEF Placed, Own
<1>7. Sealed(j)' /\ Watched(j)' /\ Asked(j)'
  BY <1>1, <1>2, <1>5 DEF Sealed, Watched, Asked, Own
<1>8. Reported(j)'
  <2>1. power_lost => UNCHANGED parent
    BY ActsOnDisk DEF IInv, Stopped
  <2>2. destination \in Own(j) => destination' = destination /\ survivors' \in {survivors, {destination}}
    BY <1>4, ActsOnDisk
  <2> QED
    BY <1>1, <1>2, <1>5, <2>1, <2>2 DEF Reported, Own
<1> QED
  BY <1>6, <1>7, <1>8

----------------------------------------------------------------------------
(* What it does to its own.                                                *)

LEMMA OwnPlaced ==
  ASSUME TypeOK, IInv, NEW i \in Importer, Acts(i)
  PROVE  Placed(i)'
<1> USE DEF TypeOK, Placed, Own, Empty, Filling, Sealing, GoTo, Raise, call, disk
<1>0. Placed(i) /\ Validated(i) # Nothing /\ Substitute(i) # Nothing
  BY DEF IInv, Validated, Substitute, Nothing
<1>1. CASE CheckFirst(i) \/ ReadArchive(i)
  <2>1. /\ UNCHANGED <<staged, destination>> /\ pc[i] \in {"check", "read"}
        /\ pc'[i] \in {"read", "stage", "clean up"}
    <3>1. CASE CheckFirst(i)
      BY <3>1 DEF CheckFirst
    <3>2. CASE ReadArchive(i)
      BY <3>2 DEF ReadArchive
    <3> QED
      BY <1>1, <3>1, <3>2
  <2> QED
    BY <1>0, <2>1
<1>2. CASE Stage(i) \/ WriteMembers(i) \/ Validate(i)
  BY <1>0, <1>2 DEF Stage, WriteMembers, Validate
<1>3. CASE PublishImport(i) \/ Rename(i)
  <2>1. \/ /\ UNCHANGED <<staged, destination>> /\ pc[i] \in Sealing
           /\ pc'[i] \in {"sync_input", "clean up"}
        \/ /\ staged'[i] = Nothing /\ destination' = staged[i] /\ staged[i] \in Own(i)
           /\ pc'[i] \in {"returned", "sync_parent"}
    BY <1>0, <1>3 DEF PublishImport, PublishAt, Rename
  <2> QED
    BY <1>0, <2>1
<1>4. CASE Identify(i) \/ CompareIdentity(i)
  BY <1>0, <1>4 DEF Identify, CompareIdentity
<1>5. CASE SyncPart(i)
  BY <1>0, <1>5, SyncPartMoves
<1>6. CASE SyncParent(i) \/ CleanUp(i) \/ SystemCallFails(i)
  BY <1>0, <1>6 DEF SyncParent, CleanUp, SystemCallFails
<1>7. CASE ReplaceStaging(i) \/ Kill(i)
  BY <1>0, <1>7 DEF ReplaceStaging, Kill
<1> QED
  BY <1>1, <1>2, <1>3, <1>4, <1>5, <1>6, <1>7 DEF Acts, Step

LEMMA OwnSealed ==
  ASSUME TypeOK, IInv, NEW i \in Importer, Acts(i)
  PROVE  Sealed(i)'
<1> USE DEF TypeOK, Own, Sealing, GoTo, Raise, call, disk
<1>0. /\ Sealed(i) /\ Placed(i)
      /\ Validated(i) # Substitute(i) /\ Validated(i) # Nothing
  BY DEF IInv, Validated, Substitute, Nothing
<1>1. CASE CheckFirst(i) \/ ReadArchive(i)
  BY <1>0, <1>1 DEF CheckFirst, ReadArchive, Sealed, Placed, Empty
<1>2. CASE Stage(i) \/ WriteMembers(i)
  BY <1>0, <1>2 DEF Stage, WriteMembers, Sealed, Placed, Empty, Filling
<1>3. CASE Validate(i)
  BY <1>0, <1>3 DEF Validate, Sealed, Placed, Filling, SyncedBy
<1>4. CASE PublishImport(i)
  BY <1>0, <1>4 DEF PublishImport, PublishAt, Sealed, Placed, SyncedBy
<1>5. CASE SyncPart(i)
  <2>1. UNCHANGED <<staged, archive, durable, bundle, disk>>
    BY <1>5, SyncPartMoves
  <2>2. staged[i] = Validated(i) =>
          archive[i] = "valid" /\ bundle[i] = "whole" /\ SyncedBy(pc[i]) \subseteq synced[i]
    BY <1>0, <1>5, SyncPartMoves DEF Sealed
  <2>3. destination # Validated(i)
    BY <1>0, <1>5, SyncPartMoves DEF Placed
  <2>4. pc'[i] \in Sealing /\ staged[i] = Validated(i) => SyncedBy(pc'[i]) \subseteq synced'[i]
    <3>1. CASE pc'[i] = "sync_manifest"
      BY <1>5, <2>2, <3>1, SyncPartMoves DEF SyncedBy
    <3>2. CASE pc'[i] = "sync_bundle"
      BY <1>5, <2>2, <3>2, SyncPartMoves DEF SyncedBy
    <3>3. CASE pc'[i] = "identify"
      <4>1. pc[i] = "sync_bundle" /\ (staged[i] = Validated(i) => synced'[i] = synced[i] \cup {"bundle"})
        BY <1>5, <3>3, SyncPartMoves
      <4>2. SyncedBy("sync_bundle") = {"input.bin", "manifest.json"} /\ SyncedBy("identify") = Parts
        BY DEF SyncedBy
      <4> QED
        BY <2>2, <3>3, <4>1, <4>2 DEF Parts
    <3> QED
      BY <1>5, <3>1, <3>2, <3>3, SyncPartMoves
  <2> QED
    BY <2>1, <2>2, <2>3, <2>4 DEF Sealed
<1>6. CASE Identify(i) \/ CompareIdentity(i)
  BY <1>0, <1>6 DEF Identify, CompareIdentity, Sealed, SyncedBy
<1>7. CASE Rename(i)
  BY <1>0, <1>7 DEF Rename, PublishAt, Sealed, Placed, SyncedBy
<1>8. CASE SyncParent(i) \/ CleanUp(i) \/ SystemCallFails(i)
  BY <1>0, <1>8 DEF SyncParent, CleanUp, SystemCallFails, Sealed
<1>9. CASE ReplaceStaging(i) \/ Kill(i)
  BY <1>0, <1>9 DEF ReplaceStaging, Kill, Sealed
<1> QED
  BY <1>1, <1>2, <1>3, <1>4, <1>5, <1>6, <1>7, <1>8, <1>9 DEF Acts, Step

LEMMA OwnWatched ==
  ASSUME TypeOK, IInv, NEW i \in Importer, Acts(i)
  PROVE  Watched(i)'
<1> USE DEF TypeOK, Own, Empty, Over, GoTo, Raise, call, disk
<1>0. /\ Watched(i) /\ Placed(i)
      /\ Validated(i) # Substitute(i) /\ Validated(i) # Nothing /\ Substitute(i) # Nothing
  BY DEF IInv, Validated, Substitute, Nothing
<1>1. CASE CheckFirst(i) \/ ReadArchive(i)
  BY <1>0, <1>1 DEF CheckFirst, ReadArchive, Watched, Placed, Empty
<1>2. CASE Stage(i)
  BY <1>0, <1>2 DEF Stage, Watched, Empty
<1>3. CASE WriteMembers(i) \/ Validate(i)
  BY <1>0, <1>3 DEF WriteMembers, Validate, Watched, Placed, Filling
<1>4. CASE PublishImport(i) \/ Rename(i)
  BY <1>0, <1>4 DEF PublishImport, PublishAt, Rename, Watched, Placed
<1>5. CASE SyncPart(i)
  BY <1>0, <1>5, SyncPartMoves DEF Watched
<1>6. CASE Identify(i)
  BY <1>0, <1>6 DEF Identify, Watched
<1>7. CASE CompareIdentity(i)
  BY <1>0, <1>7 DEF CompareIdentity, Watched
<1>8. CASE SyncParent(i) \/ CleanUp(i) \/ SystemCallFails(i)
  BY <1>0, <1>8 DEF SyncParent, CleanUp, SystemCallFails, Watched, Forget
<1>9. CASE ReplaceStaging(i)
  BY <1>0, <1>9 DEF ReplaceStaging, Watched, Placed, Sealing, Ended
<1>10. CASE Kill(i)
  BY <1>0, <1>10 DEF Kill, Watched
<1> QED
  BY <1>1, <1>2, <1>3, <1>4, <1>5, <1>6, <1>7, <1>8, <1>9, <1>10 DEF Acts, Step

LEMMA Positions ==
  /\ AskedBy("publish") = 0 /\ AskedBy("sync_input") = 0 /\ AskedBy("sync_manifest") = 1
  /\ AskedBy("sync_bundle") = 2 /\ AskedBy("identify") = 3 /\ AskedBy("sync_parent") = 3
BY DEF AskedBy

\* Asking the controller at a position where it was asked as often as the position says.
LEMMA Asking ==
  ASSUME TypeOK, NEW i \in Importer, NEW n \in Nat,
         controller'[i] = checkpoint(controller[i], "import_sync"),
         ~controller[i].triggered, controller[i].matching_occurrences = n
  PROVE  /\ controller'[i].spec = controller[i].spec
         /\ controller'[i].triggered <=> Faulted(i)
         /\ controller'[i].triggered <=> controller[i].spec.occurrence = n
         /\ controller'[i].matching_occurrences = n + 1
<1> DEFINE c == controller[i]
<1>1. c \in Controllers({"import_sync"})
  BY DEF TypeOK
<1>2. c.spec.operation = "import_sync" /\ c.spec.occurrence \in Nat
  BY <1>1 DEF Controllers
<1>3. Matches(c, "import_sync")
  BY <1>2 DEF Matches
<1>4. Fires(c, "import_sync") <=> c.spec.occurrence = n
  BY <1>3 DEF Fires
<1>5. controller'[i] = [spec |-> c.spec, matching_occurrences |-> n + 1,
                        triggered |-> Fires(c, "import_sync")]
  BY <1>3 DEF checkpoint
<1> QED
  BY <1>4, <1>5 DEF Faulted

LEMMA OwnAsked ==
  ASSUME TypeOK, IInv, NEW i \in Importer, Acts(i)
  PROVE  Asked(i)'
<1> USE DEF Over, GoTo, Raise, call, disk
<1>0. /\ Asked(i) /\ Placed(i) /\ ~Ended(i)
      /\ controller[i].triggered => pc[i] = "clean up"
      /\ pc \in [Importer -> Labels]
  <2>1. Asked(i) /\ Placed(i) /\ ~Ended(i)
    BY ActsOnDisk DEF IInv
  <2> QED
    BY <2>1 DEF Asked, Ended, TypeOK
<1>1. CASE UNCHANGED <<controller, destination>> /\ pc[i] # "clean up"
           /\ (pc'[i] \in Over \/ AskedBy(pc'[i]) = AskedBy(pc[i]))
  <2>1. ~controller[i].triggered /\ controller[i].matching_occurrences = AskedBy(pc[i])
    BY <1>0, <1>1 DEF Asked, Ended
  <2> QED
    BY <1>1, <2>1 DEF Asked
<1>2. CASE CheckFirst(i) \/ ReadArchive(i) \/ Stage(i) \/ WriteMembers(i) \/ Validate(i)
  <2>1. /\ UNCHANGED <<controller, destination>>
        /\ pc[i] \in {"check", "read", "stage", "write", "validate"}
        /\ pc'[i] \in {"read", "stage", "write", "validate", "publish", "clean up"}
    <3>1. CASE CheckFirst(i)
      BY <1>0, <3>1 DEF CheckFirst
    <3>2. CASE ReadArchive(i)
      BY <1>0, <3>2 DEF ReadArchive
    <3>3. CASE Stage(i) \/ WriteMembers(i) \/ Validate(i)
      BY <1>0, <3>3 DEF Stage, WriteMembers, Validate
    <3> QED
      BY <1>2, <3>1, <3>2, <3>3
  <2> QED
    BY <1>1, <2>1 DEF AskedBy
<1>3. CASE Identify(i) \/ CompareIdentity(i) \/ ReplaceStaging(i) \/ Kill(i)
  <2>1. CASE Identify(i) \/ CompareIdentity(i)
    BY <1>0, <1>1, <2>1 DEF Identify, CompareIdentity, AskedBy
  <2>2. CASE ReplaceStaging(i) \/ Kill(i)
    <3>1. UNCHANGED <<controller, destination, power_lost>> /\ pc'[i] \in {pc[i], "killed"}
      BY <1>0, <2>2 DEF ReplaceStaging, Kill
    <3> QED
      BY <1>0, <3>1 DEF Asked
  <2> QED
    BY <1>3, <2>1, <2>2
<1>4. CASE PublishImport(i) \/ Rename(i)
  <2>1. /\ UNCHANGED controller /\ pc[i] \in {"publish", "rename"}
        /\ pc'[i] \in Over \/ (pc[i] = "publish" /\ pc'[i] = "sync_input")
                           \/ (pc[i] = "rename" /\ pc'[i] = "sync_parent")
    BY <1>0, <1>4 DEF PublishImport, PublishAt, Rename
  <2>2. ~controller[i].triggered /\ controller[i].matching_occurrences = AskedBy(pc[i])
    BY <1>0, <2>1 DEF Asked
  <2> QED
    BY <2>1, <2>2 DEF Asked, AskedBy
<1>5. CASE SyncPart(i)
  <2>1. /\ controller'[i] = checkpoint(controller[i], "import_sync")
        /\ ~controller[i].triggered /\ controller[i].matching_occurrences = AskedBy(pc[i])
    BY <1>0, <1>5, SyncPartMoves DEF Asked
  <2>2. destination' \notin Own(i)
    BY <1>0, <1>5, SyncPartMoves DEF Placed, Sealing
  <2>3. ASSUME NEW n \in {0, 1, 2}, NEW label, AskedBy(pc[i]) = n, AskedBy(label) = n + 1,
               pc'[i] = "clean up" \/ (~Faulted(i) /\ pc'[i] = label)
        PROVE  Asked(i)'
    <3>1. /\ controller'[i].triggered <=> Faulted(i)
          /\ controller'[i].triggered => controller'[i].spec.occurrence < 3
          /\ controller'[i].matching_occurrences = n + 1
      <4>1. n \in Nat /\ n < 3
        OBVIOUS
      <4>2. controller[i].matching_occurrences = n
        BY <2>1, <2>3
      <4>3. /\ controller'[i].spec = controller[i].spec
            /\ controller'[i].triggered <=> Faulted(i)
            /\ controller'[i].triggered <=> controller[i].spec.occurrence = n
            /\ controller'[i].matching_occurrences = n + 1
        BY <2>1, <4>1, <4>2, Asking
      <4> QED
        BY <4>1, <4>3
    <3>2. CASE pc'[i] = "clean up"
      BY <2>2, <3>1, <3>2 DEF Asked
    <3>3. CASE ~Faulted(i) /\ pc'[i] = label
      BY <2>3, <3>1, <3>3 DEF Asked
    <3> QED
      BY <2>3, <3>2, <3>3
  <2>4. CASE pc[i] = "sync_input"
    <3>1. AskedBy(pc[i]) = 0 /\ AskedBy("sync_manifest") = 0 + 1
      BY <2>4, Positions
    <3>2. pc'[i] = "clean up" \/ (~Faulted(i) /\ pc'[i] = "sync_manifest")
      BY <1>5, <2>4, SyncPartMoves
    <3> QED
      BY <2>3, <3>1, <3>2
  <2>5. CASE pc[i] = "sync_manifest"
    <3>1. AskedBy(pc[i]) = 1 /\ AskedBy("sync_bundle") = 1 + 1
      BY <2>5, Positions
    <3>2. pc'[i] = "clean up" \/ (~Faulted(i) /\ pc'[i] = "sync_bundle")
      BY <1>5, <2>5, SyncPartMoves
    <3> QED
      BY <2>3, <3>1, <3>2
  <2>6. CASE pc[i] = "sync_bundle"
    <3>1. AskedBy(pc[i]) = 2 /\ AskedBy("identify") = 2 + 1
      BY <2>6, Positions
    <3>2. pc'[i] = "clean up" \/ (~Faulted(i) /\ pc'[i] = "identify")
      BY <1>5, <2>6, SyncPartMoves
    <3> QED
      BY <2>3, <3>1, <3>2
  <2> QED
    BY <1>5, <2>4, <2>5, <2>6, SyncPartMoves
<1>6. CASE SyncParent(i)
  <2>1. ~controller[i].triggered /\ controller[i].matching_occurrences = 3
        /\ controller'[i] = checkpoint(controller[i], "import_sync")
    BY <1>0, <1>6 DEF SyncParent, Asked, AskedBy, Checkpoint, TypeOK
  <2>2. controller'[i].triggered => ~(controller'[i].spec.occurrence < 3)
    BY <2>1, Asking
  <2>3. destination' \in Own(i) /\ pc'[i] \in Over
    BY <1>0, <1>6 DEF SyncParent, Placed
  <2> QED
    BY <2>2, <2>3 DEF Asked
<1>7. CASE CleanUp(i)
  BY <1>0, <1>7 DEF CleanUp, Asked, TypeOK
<1>8. CASE SystemCallFails(i)
  <2>1. /\ pc[i] # "clean up" /\ pc'[i] = "clean up" /\ UNCHANGED <<destination, power_lost>>
        /\ \/ UNCHANGED controller
           \/ /\ pc[i] \in {"sync_input", "sync_manifest", "sync_bundle", "sync_parent"}
              /\ controller'[i] = checkpoint(controller[i], "import_sync")
    BY <1>0, <1>8, SyncLabels DEF SystemCallFails, Checkpoint, TypeOK
  <2>2. ~controller[i].triggered /\ controller[i].matching_occurrences = AskedBy(pc[i])
    BY <1>0, <2>1 DEF Asked, Ended
  <2>3. CASE UNCHANGED controller
    BY <2>1, <2>2, <2>3 DEF Asked
  <2>4. CASE pc[i] \in {"sync_input", "sync_manifest", "sync_bundle"}
             /\ controller'[i] = checkpoint(controller[i], "import_sync")
    <3>1. AskedBy(pc[i]) \in 0..2 /\ destination \notin Own(i)
      <4>1. AskedBy(pc[i]) \in 0..2
        <5>1. CASE pc[i] = "sync_input"
          BY <5>1, Positions
        <5>2. CASE pc[i] = "sync_manifest"
          BY <5>2, Positions
        <5>3. CASE pc[i] = "sync_bundle"
          BY <5>3, Positions
        <5> QED
          BY <2>4, <5>1, <5>2, <5>3
      <4> QED
        BY <1>0, <2>4, <4>1 DEF Placed, Sealing
    <3>2. controller'[i].triggered => controller'[i].spec.occurrence < 3
      BY <2>2, <2>4, <3>1, Asking
    <3> QED
      BY <2>1, <3>1, <3>2 DEF Asked
  <2>5. CASE pc[i] = "sync_parent" /\ controller'[i] = checkpoint(controller[i], "import_sync")
    <3>1. AskedBy(pc[i]) = 3 /\ destination \in Own(i)
      BY <1>0, <2>5 DEF AskedBy, Placed
    <3>2. controller'[i].triggered => ~(controller'[i].spec.occurrence < 3)
      BY <2>2, <2>5, <3>1, Asking
    <3> QED
      BY <2>1, <3>1, <3>2 DEF Asked
  <2> QED
    BY <2>1, <2>3, <2>4, <2>5
<1> QED
  BY <1>2, <1>3, <1>4, <1>5, <1>6, <1>7, <1>8 DEF Acts, Step


LEMMA OwnReported ==
  ASSUME TypeOK, IInv, NEW i \in Importer, Acts(i)
  PROVE  Reported(i)'
<1> USE DEF GoTo, Raise, call, disk
<1>0. /\ Reported(i) /\ Placed(i) /\ Surviving
      /\ ~power_lost /\ ~power_lost' /\ UNCHANGED durable
      /\ pc[i] \notin {"returned", "raised", "killed"}
  BY ActsOnDisk, ActsAlone DEF IInv, Stopped, Ended
<1>1. ASSUME UNCHANGED result, pc'[i] \notin {"returned", "raised"} PROVE Reported(i)'
  <2>1. CASE UNCHANGED <<destination, survivors>>
    BY <1>0, <1>1, <2>1 DEF Reported
  <2>2. CASE destination = Nothing
    BY <1>0, <1>1, <2>2 DEF Reported, Own, Validated, Substitute, Nothing
  <2>3. CASE UNCHANGED destination /\ survivors' = {destination}
    BY <1>0, <1>1, <2>3 DEF Reported
  <2> QED
    BY <2>1, <2>2, <2>3, ActsOnDisk
<1>2. CASE CheckFirst(i) \/ ReadArchive(i) \/ Stage(i) \/ WriteMembers(i) \/ Validate(i)
  <2>1. UNCHANGED result /\ pc'[i] \notin {"returned", "raised"}
    <3>1. CASE CheckFirst(i)
      BY <1>0, <3>1 DEF CheckFirst, TypeOK
    <3>2. CASE ReadArchive(i)
      BY <1>0, <3>2 DEF ReadArchive, TypeOK
    <3>3. CASE Stage(i) \/ WriteMembers(i) \/ Validate(i)
      BY <1>0, <3>3 DEF Stage, WriteMembers, Validate, TypeOK
    <3> QED
      BY <1>2, <3>1, <3>2, <3>3
  <2> QED
    BY <1>1, <2>1
<1>3. CASE PublishImport(i)
  <2>1. CASE UNCHANGED result /\ pc'[i] \notin {"returned", "raised"}
    BY <1>1, <2>1
  <2>2. CASE ~(UNCHANGED result /\ pc'[i] \notin {"returned", "raised"})
    <3>1. /\ ~durable[i] /\ PublishAt(i) /\ holder' = holder \ {i}
          /\ GoTo(i, "returned") /\ result' = [result EXCEPT ![i] = "returned"]
      BY <1>3, <2>2 DEF PublishImport, TypeOK
    <3>2. destination' \in Own(i)
      BY <1>0, <1>3, <3>1 DEF PublishImport, PublishAt, Placed, Sealing
    <3> QED
      BY <1>0, <3>1, <3>2 DEF Reported, TypeOK
  <2> QED
    BY <2>1, <2>2
<1>4. CASE Identify(i) \/ CompareIdentity(i) \/ Rename(i)
  <2>1. UNCHANGED result /\ pc'[i] \notin {"returned", "raised"}
    BY <1>0, <1>4 DEF Identify, CompareIdentity, Rename, TypeOK
  <2> QED
    BY <1>1, <2>1
<1>5. CASE SyncPart(i) \/ SystemCallFails(i)
  <2>1. UNCHANGED result /\ pc'[i] \notin {"returned", "raised"}
    BY <1>5, SyncPartMoves DEF SystemCallFails, TypeOK
  <2> QED
    BY <1>1, <2>1
<1>6. CASE SyncParent(i)
  <2>1. CASE Faulted(i)
    <3>1. UNCHANGED result /\ pc'[i] \notin {"returned", "raised"}
      BY <1>6, <2>1 DEF SyncParent, TypeOK
    <3> QED
      BY <1>1, <3>1
  <2>2. CASE ~Faulted(i)
    <3>1. destination \in Own(i)
      BY <1>0, <1>6 DEF SyncParent, Placed
    <3>2. UNCHANGED destination /\ survivors' = {destination} /\ pc'[i] = "clean up"
      BY <1>6, <2>2 DEF SyncParent, TypeOK
    <3> QED
      BY <1>0, <3>1, <3>2 DEF Reported, Own
  <2> QED
    BY <2>1, <2>2
<1>7. CASE CleanUp(i)
  <2>1. UNCHANGED <<destination, survivors, result>> /\ pc'[i] = result[i] /\ i \notin holder'
    BY <1>7 DEF CleanUp, TypeOK
  <2> QED
    BY <1>0, <2>1 DEF Reported
<1>8. CASE ReplaceStaging(i) \/ Kill(i)
  <2>1. UNCHANGED result /\ pc'[i] \notin {"returned", "raised"}
    BY <1>0, <1>8 DEF ReplaceStaging, Kill, TypeOK
  <2> QED
    BY <1>1, <2>1
<1> QED
  BY <1>2, <1>3, <1>4, <1>5, <1>6, <1>7, <1>8 DEF Acts, Step

----------------------------------------------------------------------------
(* Everybody's steps, and what is promised.                                *)

LEMMA Invariance == Spec => []IInv
<1>1. Init => IInv
  <2> SUFFICES ASSUME Init PROVE IInv
    OBVIOUS
  <2>1. Stopped /\ Surviving
    BY DEF Init, Stopped, Surviving
  <2>2. ASSUME NEW i \in Importer
        PROVE  /\ pc[i] \in {"check", "read"} /\ staged[i] = Nothing
               /\ swapped_at[i] = "never" /\ result[i] = "raised"
               /\ controller[i].matching_occurrences = 0 /\ ~controller[i].triggered
               /\ destination \notin Own(i)
    <3>1. controller[i].matching_occurrences = 0 /\ ~controller[i].triggered
      <4> PICK occurrence \in [Importer -> FaultOccurrences] :
            controller = [k \in Importer |->
                            NewController(FaultSpec("import_sync", occurrence[k]))]
        BY DEF Init
      <4>1. controller[i] = NewController(FaultSpec("import_sync", occurrence[i]))
        OBVIOUS
      <4> QED
        BY <4>1 DEF NewController
    <3> QED
      BY <3>1 DEF Init, Own, Validated, Substitute, Nothing
  <2>3. ASSUME NEW i \in Importer
        PROVE  Placed(i) /\ Sealed(i) /\ Watched(i) /\ Asked(i) /\ Reported(i)
    BY <2>2 DEF Placed, Sealed, Watched, Asked, Reported, AskedBy, Empty, Filling, Sealing,
       Over, Own
  <2> QED
    BY <2>1, <2>3 DEF IInv
<1>2. TypeOK /\ IInv /\ [Next]_vars => IInv'
  <2> SUFFICES ASSUME TypeOK, IInv, [Next]_vars PROVE IInv'
    OBVIOUS
  <2>1. ASSUME NEW i \in Importer, Acts(i) PROVE IInv'
    <3>1. Stopped'
      BY <2>1, ActsOnDisk, ActsAlone DEF IInv, Stopped
    <3>2. Surviving'
      BY <2>1, ActsOnDisk DEF IInv, Surviving
    <3>3. ASSUME NEW j \in Importer
          PROVE  (Placed(j) /\ Sealed(j) /\ Watched(j) /\ Asked(j) /\ Reported(j))'
      <4>1. CASE j = i
        BY <2>1, <4>1, OwnPlaced, OwnSealed, OwnWatched, OwnAsked, OwnReported
      <4>2. CASE j # i
        BY <2>1, <4>2, OthersKeep
      <4> QED
        BY <4>1, <4>2
    <3> QED
      BY <3>1, <3>2, <3>3 DEF IInv
  <2>2. CASE ClaimDestination
    <3>1. /\ UNCHANGED <<call, pc, holder, staged, swapped_at, identity, result, bundle, synced,
                         parent, power_lost>>
          /\ destination = Nothing /\ destination' = Claim /\ survivors' = survivors \cup {Claim}
      BY <2>2 DEF ClaimDestination
    <3>2. Stopped' /\ Surviving'
      BY <3>1 DEF IInv, Stopped, Surviving, Ended
    <3>3. ASSUME NEW j \in Importer
          PROVE  (Placed(j) /\ Sealed(j) /\ Watched(j) /\ Asked(j) /\ Reported(j))'
      <4>1. /\ destination \notin Own(j) /\ destination' \notin Own(j)
            /\ Validated(j) \in Own(j) /\ Substitute(j) \in Own(j)
        BY <3>1 DEF Own, Validated, Substitute, Claim, Nothing
      <4> QED
        BY <3>1, <4>1 DEF IInv, Placed, Sealed, Watched, Asked, Reported, call
    <3> QED
      BY <3>2, <3>3 DEF IInv
  <2>3. CASE PowerLoss
    <3>1. /\ \A j \in Importer : Ended(j)' /\ pc'[j] \in {pc[j], "killed"}
          /\ Stopped'
      BY <2>3 DEF PowerLoss, Stopped, Ended
    <3>2. /\ UNCHANGED <<call, holder, staged, swapped_at, result, synced>>
          /\ survivors' = {destination'} /\ ~power_lost /\ power_lost'
          /\ \/ destination' \in survivors /\ parent' \in {parent, "on disk"}
             \/ parent' = "missing" /\ destination' = Nothing
      BY <2>3 DEF PowerLoss
    <3>3. Surviving' /\ destination' \in {destination, Nothing}
      BY <3>2 DEF IInv, Surviving
    <3>4. ASSUME NEW j \in Importer
          PROVE  (Placed(j) /\ Sealed(j) /\ Watched(j) /\ Asked(j) /\ Reported(j))'
      <4>1. /\ Nothing \notin Own(j)
            /\ Validated(j) # Nothing /\ Substitute(j) # Nothing
        BY DEF Own, Validated, Substitute, Nothing
      <4>2. /\ Placed(j) /\ Sealed(j) /\ Watched(j) /\ Asked(j) /\ Reported(j)
            /\ pc'[j] \in {"returned", "raised", "killed"} /\ pc'[j] \in {pc[j], "killed"}
        BY <3>1 DEF IInv, Ended
      <4>3. Placed(j)'
        BY <3>2, <4>2 DEF Placed, Empty, Filling, Sealing
      <4>4. Sealed(j)'
        <5>1. pc'[j] \notin Sealing
          BY <4>2 DEF Sealing
        <5>2. Parts \subseteq synced[j] => bundle'[j] = bundle[j]
          BY <2>3 DEF PowerLoss, TypeOK
        <5> QED
          BY <3>2, <3>3, <4>1, <4>2, <5>1, <5>2 DEF Sealed, call
      <4>5. Watched(j)'
        BY <3>2, <3>3, <4>1, <4>2 DEF Watched, Empty, Over
      <4>6. Asked(j)'
        BY <3>2, <3>3, <4>1, <4>2 DEF Asked, Over, call
      <4>7. Reported(j)'
        BY <3>2, <3>3, <4>1, <4>2 DEF Reported, call
      <4> QED
        BY <4>3, <4>4, <4>5, <4>6, <4>7
    <3> QED
      BY <3>1, <3>3, <3>4 DEF IInv
  <2>4. CASE UNCHANGED vars
    BY <2>4 DEF vars, call, disk, IInv, Stopped, Surviving, Placed, Sealed, Watched, Asked,
       Reported, Ended
  <2> QED
    BY <2>1, <2>2, <2>3, <2>4 DEF Next, Acts
<1> QED
  BY <1>1, <1>2, TypeCorrect, PTL DEF Spec

\* A destination is a whole, validated bundle from the moment it is visible, and after a
\* durable import stays one over a power loss.
THEOREM VisibleBundlesAreWhole == Spec => []VisibleBundleIsWhole
<1>1. IInv => VisibleBundleIsWhole
  BY DEF IInv, Sealed, VisibleBundleIsWhole
<1> QED
  BY <1>1, Invariance, PTL

\* Whatever rivals, faults and a power loss do, how a call ended tells what it left.
THEOREM EndsAreTruthful == Spec => []EndsLeaveWhatTheySay
<1>1. TypeOK /\ IInv => EndsLeaveWhatTheySay
  <2> SUFFICES ASSUME TypeOK, IInv, NEW i \in Importer
               PROVE  /\ ReturnedIsPublished(i) /\ FaultIsTruthful(i)
                      /\ pc[i] \in {"returned", "raised"} => i \notin holder
    BY DEF EndsLeaveWhatTheySay
  <2>1. Asked(i) /\ Reported(i)
    BY DEF IInv
  <2> QED
    BY <2>1 DEF Asked, Reported, Own, ReturnedIsPublished, FaultIsTruthful
<1> QED
  BY <1>1, Invariance, TypeCorrect, PTL

\* A staging directory replaced between the look at its identity and the comparison is
\* not published.
THEOREM ReplacementsAreCaught == Spec => []ReplacementIsCaught
<1>1. IInv => ReplacementIsCaught
  BY DEF IInv, Watched, ReplacementIsCaught
<1> QED
  BY <1>1, Invariance, PTL

\* No publication replaces an entry, whoever made it and however late it appeared.
THEOREM NothingIsEverClobbered == Spec => NothingIsClobbered
<1> DEFINE Kept == destination # Nothing => destination' \in {destination, Nothing}
<1>1. TypeOK /\ IInv /\ [Next]_vars => [Kept]_vars
  <2> SUFFICES ASSUME TypeOK, IInv, Next PROVE Kept
    OBVIOUS
  <2>1. ASSUME NEW i \in Importer, Acts(i) PROVE Kept
    BY <2>1, ActsOnDisk
  <2>2. CASE ClaimDestination
    BY <2>2 DEF ClaimDestination
  <2>3. CASE PowerLoss
    BY <2>3 DEF PowerLoss, IInv, Surviving
  <2> QED
    BY <2>1, <2>2, <2>3 DEF Next, Acts
<1> QED
  BY <1>1, Invariance, TypeCorrect, PTL DEF Spec, NothingIsClobbered
=============================================================================
