---------------------------- MODULE BundleImport ----------------------------
(***************************************************************************)
(* Importing one repro archive into a directory: import_repro_archive      *)
(* (repro_archive.py) and import_durable_repro_archive                     *)
(* (durable_repro_import.py), which wraps it, publishing through           *)
(* publish_directory_no_replace (directory_publish.py).  Several importers *)
(* race for one destination with another program that may create it and    *)
(* with one that replaces a staging directory; an importer may be killed,  *)
(* and the machine may lose power.                                         *)
(*                                                                         *)
(* A directory is an object of Object; its bundle is what reading its two  *)
(* files yields.  A power loss keeps of a bundle what was fsynced, and of  *)
(* the destination's parent any version since its last fsync.  Operators   *)
(* named <definition>_<bug> are bugs; no action of Next uses them.         *)
(***************************************************************************)
EXTENDS Naturals, FiniteSets, FaultController

CONSTANTS Importer,        \* one call each
          FaultOccurrences \* occurrences of the import_sync fault to inject

ASSUME FaultAssumption == FaultOccurrences \subseteq Nat

Validated(i) == <<"validated", i>>   \* the directory importer i fills and validates
Substitute(i) == <<"substitute", i>> \* one put in its place under the same name
Claim == <<"claim", "other program">>
Nothing == <<"nothing", "">>
Object == {Validated(i) : i \in Importer} \cup {Substitute(i) : i \in Importer} \cup {Claim}

Parts == {"input.bin", "manifest.json", "bundle"}
Syncing == [sync_input |-> "input.bin", sync_manifest |-> "manifest.json",
            sync_bundle |-> "bundle"]
Labels == {"check", "read", "stage", "write", "validate", "publish", "sync_input",
           "sync_manifest", "sync_bundle", "identify", "compare", "rename", "sync_parent",
           "clean up", "returned", "raised", "killed"}

VARIABLES
  durable,     \* per importer: which of the two functions it calls
  archive,     \* per importer: what it read, a valid bundle or one it must reject
  pc, controller,
  holder,      \* importers whose temporary directory exists
  staged,      \* per importer: the object its staging path names
  swapped_at,  \* history: where the importer was when its staging path was replaced
  identity,    \* per importer: expected_identity
  result,      \* per importer: what the call ends with once it has cleaned up
  bundle,      \* per importer: its bundle as read, "none", "partial" or "whole"
  synced,      \* per importer: the parts of it that were fsynced
  parent,      \* "missing", "new" (its own entry not on disk) or "on disk"
  destination, \* the object the destination names
  survivors,   \* what the destination may name after a power loss
  power_lost   \* history: there was a power loss

call == <<durable, archive, controller>>
disk == <<parent, destination, survivors, power_lost>>
vars == <<call, pc, holder, staged, swapped_at, identity, result, bundle, synced, disk>>

TypeOK ==
  /\ durable \in [Importer -> BOOLEAN]
  /\ archive \in [Importer -> {"unread", "malformed", "invalid bundle", "valid"}]
  /\ pc \in [Importer -> Labels]
  /\ controller \in [Importer -> Controllers({"import_sync"})]
  /\ holder \subseteq Importer
  /\ staged \in [Importer -> Object \cup {Nothing}]
  /\ identity \in [Importer -> Object \cup {Nothing}]
  /\ swapped_at \in [Importer -> Labels \cup {"never"}]
  /\ result \in [Importer -> {"returned", "raised"}]
  /\ bundle \in [Importer -> {"none", "partial", "whole"}]
  /\ synced \in [Importer -> SUBSET Parts]
  /\ parent \in {"missing", "new", "on disk"}
  /\ destination \in Object \cup {Nothing} /\ survivors \subseteq Object \cup {Nothing}
  /\ power_lost \in BOOLEAN

Init ==
  /\ durable \in [Importer -> BOOLEAN]
  /\ archive = [i \in Importer |-> "unread"]
  /\ pc = [i \in Importer |-> IF durable[i] THEN "check" ELSE "read"]
  /\ \E occurrence \in [Importer -> FaultOccurrences] :
       controller = [i \in Importer |->
                       NewController(FaultSpec("import_sync", occurrence[i]))]
  /\ holder = {}
  /\ staged = [i \in Importer |-> Nothing] /\ identity = [i \in Importer |-> Nothing]
  /\ swapped_at = [i \in Importer |-> "never"]
  /\ result = [i \in Importer |-> "raised"]
  /\ bundle = [i \in Importer |-> "none"] /\ synced = [i \in Importer |-> {}]
  /\ parent \in {"missing", "on disk"}
  /\ destination = Nothing /\ survivors = {Nothing} /\ power_lost = FALSE

----------------------------------------------------------------------------
(* The steps of one call.                                                  *)

GoTo(i, label) == pc' = [pc EXCEPT ![i] = label]

\* An exception runs the finally clause of the call.
Raise(i) == GoTo(i, "clean up") /\ UNCHANGED result

\* The local variable of a call that is over.
Forget(I) == identity' = [i \in Importer |-> IF i \in I THEN Nothing ELSE identity[i]]

MakeParent == parent' = IF parent = "missing" THEN "new" ELSE parent

\* The durable call looks first and makes its holder before it reads the archive.
CheckFirst(i) ==
  /\ pc[i] = "check" /\ durable[i]
  /\ IF destination # Nothing
     THEN Raise(i) /\ UNCHANGED <<holder, parent>>
     ELSE GoTo(i, "read") /\ UNCHANGED result /\ holder' = holder \cup {i} /\ MakeParent
  /\ UNCHANGED <<call, staged, swapped_at, identity, bundle, synced, destination, survivors, power_lost>>

\* The archive is read once, as a bounded snapshot; the plain call then looks for its
\* destination before it trusts the members.
ReadArchive(i) ==
  /\ pc[i] = "read"
  /\ \E found \in {"malformed", "invalid bundle", "valid"} :
       /\ archive' = [archive EXCEPT ![i] = found]
       /\ IF found = "malformed" \/ (~durable[i] /\ destination # Nothing)
          THEN Raise(i)
          ELSE GoTo(i, "stage") /\ UNCHANGED result
  /\ UNCHANGED <<durable, controller, holder, staged, swapped_at, identity, bundle, synced, disk>>

Stage(i) ==
  /\ pc[i] = "stage" /\ GoTo(i, "write")
  /\ holder' = holder \cup {i} /\ MakeParent
  /\ staged' = [staged EXCEPT ![i] = Validated(i)]
  /\ bundle' = [bundle EXCEPT ![i] = "partial"]
  /\ UNCHANGED <<call, swapped_at, identity, result, synced, destination, survivors, power_lost>>

\* The two members go through the path: into the validated directory or its substitute.
WriteMembers(i) ==
  /\ pc[i] = "write" /\ GoTo(i, "validate")
  /\ bundle' = [bundle EXCEPT ![i] = IF staged[i] = Validated(i) THEN "whole" ELSE @]
  /\ UNCHANGED <<call, holder, staged, swapped_at, identity, result, synced, disk>>

\* load_evidenced_repro_bundle reads through the path and rejects what is not a bundle with
\* the supported evidence; a substitute may well hold one.
Validate(i) ==
  /\ pc[i] = "validate"
  /\ \/ /\ \/ archive[i] = "valid" /\ bundle[i] = "whole" /\ staged[i] = Validated(i)
           \/ staged[i] = Substitute(i)
        /\ GoTo(i, "publish") /\ UNCHANGED result
     \/ /\ archive[i] = "invalid bundle" \/ staged[i] = Substitute(i)
        /\ Raise(i)
  /\ UNCHANGED <<call, holder, staged, swapped_at, identity, bundle, synced, disk>>

\* The rename that replaces nothing.
PublishAt_Replacing(i) ==
  /\ destination' = staged[i] /\ survivors' = survivors \cup {staged[i]}
  /\ staged' = [staged EXCEPT ![i] = Nothing]
PublishAt(i) ==
  /\ destination = Nothing
  /\ destination' = staged[i] /\ survivors' = survivors \cup {staged[i]}
  /\ staged' = [staged EXCEPT ![i] = Nothing]

\* The plain call publishes at the destination; inside the durable one the destination is
\* a fresh name in the holder.
PublishImport(i) ==
  /\ pc[i] = "publish"
  /\ \/ /\ durable[i] /\ GoTo(i, "sync_input")
        /\ UNCHANGED <<result, holder, staged, destination, survivors>>
     \/ /\ ~durable[i] /\ PublishAt(i) /\ holder' = holder \ {i}
        /\ GoTo(i, "returned") /\ result' = [result EXCEPT ![i] = "returned"]
     \/ /\ ~durable[i] /\ destination # Nothing
        /\ Raise(i) /\ UNCHANGED <<holder, staged, destination, survivors>>
  /\ UNCHANGED <<call, swapped_at, identity, bundle, synced, parent, power_lost>>

Checkpoint(i) ==
  controller' = [controller EXCEPT ![i] = checkpoint(@, "import_sync")]

Faulted(i) == Fires(controller[i], "import_sync")

Next_sync == [sync_input |-> "sync_manifest", sync_manifest |-> "sync_bundle",
              sync_bundle |-> "identify"]

SyncPart_NoManifestFsync(i) ==
  /\ pc[i] \in DOMAIN Syncing
  /\ Checkpoint(i)
  /\ IF Faulted(i)
     THEN Raise(i) /\ UNCHANGED synced
     ELSE /\ GoTo(i, Next_sync[pc[i]]) /\ UNCHANGED result
          /\ synced' = IF staged[i] = Validated(i) /\ pc[i] # "sync_manifest"
                       THEN [synced EXCEPT ![i] = @ \cup {Syncing[pc[i]]}] ELSE synced
  /\ UNCHANGED <<durable, archive, holder, staged, swapped_at, identity, bundle, disk>>
SyncPart_NoManifestCheckpoint(i) ==
  /\ pc[i] \in DOMAIN Syncing
  /\ IF pc[i] = "sync_manifest" THEN UNCHANGED controller ELSE Checkpoint(i)
  /\ IF Faulted(i) /\ pc[i] # "sync_manifest"
     THEN Raise(i) /\ UNCHANGED synced
     ELSE /\ GoTo(i, Next_sync[pc[i]]) /\ UNCHANGED result
          /\ synced' = IF staged[i] = Validated(i)
                       THEN [synced EXCEPT ![i] = @ \cup {Syncing[pc[i]]}] ELSE synced
  /\ UNCHANGED <<durable, archive, holder, staged, swapped_at, identity, bundle, disk>>
SyncPart(i) ==
  /\ pc[i] \in DOMAIN Syncing
  /\ Checkpoint(i)
  /\ IF Faulted(i)
     THEN Raise(i) /\ UNCHANGED synced
     ELSE /\ GoTo(i, Next_sync[pc[i]]) /\ UNCHANGED result
          /\ synced' = IF staged[i] = Validated(i)
                       THEN [synced EXCEPT ![i] = @ \cup {Syncing[pc[i]]}] ELSE synced
  /\ UNCHANGED <<durable, archive, holder, staged, swapped_at, identity, bundle, disk>>

Identify(i) ==
  /\ pc[i] = "identify" /\ GoTo(i, "compare")
  /\ identity' = [identity EXCEPT ![i] = staged[i]]
  /\ UNCHANGED <<call, holder, staged, swapped_at, result, bundle, synced, disk>>

CompareIdentity_Never(i) ==
  /\ pc[i] = "compare" /\ GoTo(i, "rename")
  /\ UNCHANGED <<call, holder, staged, swapped_at, identity, result, bundle, synced, disk>>
CompareIdentity(i) ==
  /\ pc[i] = "compare"
  /\ IF staged[i] = identity[i] THEN GoTo(i, "rename") /\ UNCHANGED result ELSE Raise(i)
  /\ UNCHANGED <<call, holder, staged, swapped_at, identity, bundle, synced, disk>>

Rename(i) ==
  /\ pc[i] = "rename"
  /\ \/ PublishAt(i) /\ GoTo(i, "sync_parent") /\ UNCHANGED result
     \/ destination # Nothing /\ Raise(i) /\ UNCHANGED <<staged, destination, survivors>>
  /\ UNCHANGED <<call, holder, swapped_at, identity, bundle, synced, parent, power_lost>>

SyncParent(i) ==
  /\ pc[i] = "sync_parent"
  /\ Checkpoint(i)
  /\ IF Faulted(i)
     THEN Raise(i) /\ UNCHANGED survivors
     ELSE /\ GoTo(i, "clean up") /\ result' = [result EXCEPT ![i] = "returned"]
          /\ survivors' = {destination}
  /\ UNCHANGED <<durable, archive, holder, staged, swapped_at, identity, bundle, synced, parent,
                 destination, power_lost>>

CleanUp(i) ==
  /\ pc[i] = "clean up" /\ GoTo(i, result[i])
  /\ holder' = holder \ {i}
  /\ staged' = [staged EXCEPT ![i] = Nothing] /\ Forget({i})
  /\ UNCHANGED <<call, swapped_at, result, bundle, synced, disk>>

Ended(i) == pc[i] \in {"returned", "raised", "killed"}

\* Any call of the operating system may fail before it has an effect.
SystemCallFails(i) ==
  /\ ~Ended(i) /\ pc[i] # "clean up"
  /\ Raise(i)
  /\ IF pc[i] \in DOMAIN Syncing \cup {"sync_parent"} THEN Checkpoint(i) ELSE UNCHANGED controller
  /\ UNCHANGED <<durable, archive, holder, staged, swapped_at, identity, bundle, synced, disk>>

Step(i) ==
  \/ CheckFirst(i) \/ ReadArchive(i) \/ Stage(i) \/ WriteMembers(i) \/ Validate(i)
  \/ PublishImport(i) \/ SyncPart(i) \/ Identify(i) \/ CompareIdentity(i) \/ Rename(i)
  \/ SyncParent(i) \/ CleanUp(i) \/ SystemCallFails(i)

----------------------------------------------------------------------------
(* Everybody else.                                                         *)

ClaimDestination ==
  /\ parent # "missing" /\ destination = Nothing
  /\ destination' = Claim /\ survivors' = survivors \cup {Claim}
  /\ UNCHANGED <<call, pc, holder, staged, swapped_at, identity, result, bundle, synced, parent,
                 power_lost>>

\* Another program moves a staging directory aside and puts its own under the name
\* (bound: once in a run).
ReplaceStaging(i) ==
  /\ \A j \in Importer : swapped_at[j] = "never"
  /\ ~Ended(i) /\ staged[i] = Validated(i)
  /\ staged' = [staged EXCEPT ![i] = Substitute(i)]
  /\ swapped_at' = [swapped_at EXCEPT ![i] = pc[i]]
  /\ UNCHANGED <<call, pc, holder, identity, result, bundle, synced, disk>>

Kill(i) ==
  /\ ~Ended(i) /\ GoTo(i, "killed") /\ Forget({i})
  /\ UNCHANGED <<call, holder, staged, swapped_at, result, bundle, synced, disk>>

\* Once: after it only what was on disk is left, and nobody is there to lose more.
PowerLoss ==
  /\ ~power_lost /\ power_lost' = TRUE
  /\ pc' = [i \in Importer |-> IF Ended(i) THEN pc[i] ELSE "killed"]
  /\ \/ /\ parent' = IF parent = "new" THEN "on disk" ELSE parent
        /\ destination' \in survivors
     \/ parent = "new" /\ parent' = "missing" /\ destination' = Nothing
  /\ survivors' = {destination'}
  /\ Forget(Importer)
  /\ bundle' \in [Importer -> {"none", "partial", "whole"}]
  /\ \A i \in Importer :
       \/ bundle'[i] = bundle[i]
       \/ bundle[i] = "whole" /\ synced[i] # Parts /\ bundle'[i] = "partial"
  /\ UNCHANGED <<call, holder, staged, swapped_at, result, synced>>

Next ==
  \/ \E i \in Importer : Step(i) \/ ReplaceStaging(i) \/ Kill(i)
  \/ ClaimDestination \/ PowerLoss

Spec == Init /\ [][Next]_vars

----------------------------------------------------------------------------
(* Properties.                                                             *)

\* docs/durable-repro-import.md: publication never replaces an entry, whoever made it and
\* however late it appeared.
NothingIsClobbered ==
  [][destination # Nothing => destination' \in {destination, Nothing}]_vars

\* A destination is a whole, validated bundle from the moment it is visible; the durable
\* import keeps this true over a power loss.
VisibleBundleIsWhole ==
  \A i \in Importer :
    destination = Validated(i) =>
      archive[i] = "valid" /\ (durable[i] \/ ~power_lost => bundle[i] = "whole")

\* How a call ended tells what it left.  One that returned has put its staging directory at
\* the destination, alone; after a power loss this still holds of the durable one, unless the
\* parent directory itself, which the call may just have made, is gone.
ReturnedIsPublished(i) ==
  pc[i] = "returned" /\ (power_lost => durable[i] /\ parent # "missing") =>
    destination \in {Validated(i), Substitute(i)}

\* A fault at the first three syncs leaves nothing of this import at the destination; one at
\* the last reports a failure although the destination is visible (durable-repro-import.md).
FaultIsTruthful(i) ==
  pc[i] = "raised" /\ controller[i].triggered =>
    IF controller[i].spec.occurrence < 3
    THEN destination \notin {Validated(i), Substitute(i)}
    ELSE power_lost \/ destination \in {Validated(i), Substitute(i)}

\* Every call that ends by itself, published or not, removes what it made next to the
\* destination: the three hold of every import, whatever faults, rivals and power losses meet.
EndsLeaveWhatTheySay ==
  \A i \in Importer :
    /\ ReturnedIsPublished(i) /\ FaultIsTruthful(i)
    /\ pc[i] \in {"returned", "raised"} => i \notin holder

\* A staging directory replaced after its identity was taken is not published, unless
\* the replacement comes after the comparison as well.
ReplacementIsCaught ==
  \A i \in Importer :
    durable[i] /\ destination = Substitute(i) => swapped_at[i] # "compare"

\* docs/durable-repro-import.md:11 (step 5) and the docstring of the import ("durably
\* publish"): when it returns, the publication outlives a power loss.
PublicationIsDurable ==
  \A i \in Importer : pc[i] = "returned" /\ durable[i] => destination # Nothing
=============================================================================
