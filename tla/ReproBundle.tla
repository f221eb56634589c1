---------------------------- MODULE ReproBundle ----------------------------
(***************************************************************************)
(* Repro bundles as directories: writing one from a failing case           *)
(* (reduce_failure_to_repro in triage.py, DifferentialHarness.write_repro, *)
(* write_repro_bundle in repro.py), loading and replaying one              *)
(* (replay_repro, load_repro_bundle, load_evidenced_repro_bundle), and     *)
(* bounding how many are kept (enforce_repro_retention).                   *)
(*                                                                         *)
(* Writers, replayers and retention passes are processes that share one    *)
(* root; each reaches files by path, one system call at a time, and may be *)
(* killed between two of them.  A target may answer differently each time  *)
(* it runs: Evaluations says what one evaluation of an input can show.     *)
(* Operators named <definition>_<bug> are bugs; no action of Next uses     *)
(* them.                                                                   *)
(***************************************************************************)
EXTENDS Naturals, Sequences, FiniteSets, SequencesExt

CONSTANTS Writer, Replayer, Pass, \* processes
          Name,                   \* names of directories below the root, ordered
          Input, Size,            \* the inputs of cases, and their lengths
          Context,                \* harness configurations
          Evaluations,            \* what evaluating an input in a context may show
          Scenarios,              \* which processes run, and the call each makes
          Earlier                 \* what a run may find below the root

Reader == Replayer \cup Pass
Process == Writer \cup Reader

ASSUME ProcessesAssumption ==
  Writer \cap Reader = {} /\ Replayer \cap Pass = {} /\ "nobody" \notin Writer

\* Each writer has its destination, input and context; each replayer the bundle it replays.
ASSUME ScenariosAssumption ==
  \A s \in Scenarios :
    /\ DOMAIN s \subseteq Process
    /\ \A w \in Writer \cap DOMAIN s :
         s[w].path \in Name /\ s[w].input \in Input /\ s[w].context \in Context
    /\ \A r \in Replayer \cap DOMAIN s : s[r].path \in Name /\ s[r].context \in Context

\* An evaluation is a pair of executions.
Evaluation(m) == [candidate |-> m.candidate, oracle |-> m.oracle]

ASSUME EvaluationsAssumption ==
  \A context \in Context, input \in Input :
    /\ IsFiniteSet(Evaluations[context][input])
    /\ \A evaluation \in Evaluations[context][input] : evaluation = Evaluation(evaluation)

----------------------------------------------------------------------------
(* Comparing two executions and naming the failure.  An execution is a     *)
(* record of its infrastructure error, timeout, exit code, signal and the  *)
(* two captures; a message is abstracted to its presence.                  *)

None == [kind |-> "none", dimensions |-> <<>>]

compare_results(evaluation) ==
  LET infrastructure ==
        SelectSeq(<<"candidate", "oracle">>, LAMBDA side : evaluation[side].infrastructure_error)
      differing ==
        SelectSeq(<<"exit_code", "signal", "stdout", "stderr">>,
                  LAMBDA field : evaluation.candidate[field] # evaluation.oracle[field])
      mismatches ==
        CASE infrastructure # <<>> -> infrastructure
          [] infrastructure = <<>> /\ evaluation.candidate.timed_out # evaluation.oracle.timed_out
             -> <<"timed_out">>
          [] infrastructure = <<>> /\ evaluation.candidate.timed_out /\ evaluation.oracle.timed_out
             -> <<>>
          [] OTHER -> differing
  IN  [classification |->
         CASE infrastructure # <<>> -> "infrastructure_failure"
           [] infrastructure = <<>> /\ mismatches # <<>> -> "product_mismatch"
           [] OTHER -> "match",
       mismatches |-> mismatches]

failure_signature(comparison) ==
  IF comparison.classification = "match" THEN None
  ELSE [kind |-> comparison.classification, dimensions |-> comparison.mismatches]

Signature(evaluation) == failure_signature(compare_results(evaluation))

----------------------------------------------------------------------------
(* Metadata: a record of the three fields of a failure model that are      *)
(* there and of the evidence a reduction leaves.                           *)

EvidenceFields == {"failure_model", "remount_performed", "power_loss_recovery_proven"}

validate_failure_model_evidence(metadata) ==
  \/ EvidenceFields \cap DOMAIN metadata = {}
  \/ /\ EvidenceFields \subseteq DOMAIN metadata
     /\ metadata.failure_model = "process-kill-same-mount" =>
          ~metadata.remount_performed /\ ~metadata.power_loss_recovery_proven

REDUCTION_EVIDENCE_METADATA_KEY == "systems_conformance_reduction"

\* What reduce_case counted passes the validation of that evidence (module Reducer).
WithReduction(metadata) == metadata @@ (REDUCTION_EVIDENCE_METADATA_KEY :> "valid")

----------------------------------------------------------------------------
(* Directories.  A file is Absent, Cut (created, not written in full) or a *)
(* record; by names the writer it came from, for the properties.           *)

Absent == [by |-> "nobody", state |-> "absent"]
Cut(w) == [by |-> w, state |-> "cut"]
Whole(w, content) == [by |-> w, state |-> "whole", content |-> content]
Members == {"input.bin", "manifest.json"}
NoDirectory == [m \in {} |-> Absent]
Files(made) == {m \in Members : made[m].state # "absent"}

\* The length a stat shows; a cut file is shorter than the whole one.
Length(file) == IF file.state = "whole" THEN Size[file.content] ELSE 0

\* A digest is abstracted to the input it is of: it tells any two inputs apart.
Manifest(input, evaluation, metadata, context) ==
  [schema_version |-> "v1",
   input |-> [path |-> "input.bin", sha256 |-> input, size_bytes |-> Size[input]],
   candidate |-> evaluation.candidate, oracle |-> evaluation.oracle,
   comparison |-> compare_results(evaluation), failure_signature |-> Signature(evaluation),
   metadata |-> metadata, replay_context_sha256 |-> context]

validate_fields(value, required, optional) ==
  required \subseteq DOMAIN value /\ DOMAIN value \subseteq required \cup optional

\* Bundles of before the digests lack the two optional fields.
ManifestFieldsMatch(m) ==
  validate_fields(m, {"candidate", "comparison", "failure_signature", "input", "metadata",
                      "oracle", "schema_version"}, {"replay_context_sha256"})

InputFieldsMatch(input) ==
  validate_fields(input, {"path", "size_bytes"}, {"sha256"}) /\ input.path = "input.bin"

load_execution_record(value) ==
  validate_fields(value, {"timed_out", "exit_code", "signal", "stdout", "stderr",
                          "infrastructure_error"}, {})

load_comparison_record(value) ==
  /\ validate_fields(value, {"classification", "mismatches"}, {})
  /\ value.classification \in {"match", "product_mismatch", "infrastructure_failure"}

load_failure_signature(value) ==
  /\ validate_fields(value, {"kind", "dimensions"}, {})
  /\ value.kind \in {"product_mismatch", "infrastructure_failure"}

\* A manifest that is not written in full is not JSON.
ManifestMatches(file) ==
  /\ file.state = "whole"
  /\ ManifestFieldsMatch(file.content) /\ file.content.schema_version = "v1"
  /\ InputFieldsMatch(file.content.input)

\* What the manifest claims must follow from the two executions it stores.
EvidenceAgrees(m) ==
  /\ load_execution_record(m.candidate) /\ load_execution_record(m.oracle)
  /\ load_comparison_record(m.comparison) /\ load_failure_signature(m.failure_signature)
  /\ m.comparison = compare_results(m)
  /\ m.failure_signature = failure_signature(m.comparison)

\* What a manifest of this format must say of the input it is about.
Sound(m) ==
  /\ "sha256" \in DOMAIN m.input =>
       \E c \in Context : Evaluation(m) \in Evaluations[c][m.input.sha256]
  /\ "replay_context_sha256" \in DOMAIN m =>
       /\ "sha256" \in DOMAIN m.input /\ m.input.sha256 \in Input
       /\ Evaluation(m) \in Evaluations[m.replay_context_sha256][m.input.sha256]
       /\ m.failure_signature = Signature(Evaluation(m))
Genuine(file) == ManifestMatches(file) /\ EvidenceAgrees(file.content) => Sound(file.content)

\* What a run finds was written by write_repro, or by a version of it before the digests,
\* or does not pass the checks of a load; no file of it is of a writer of this run.
ASSUME EarlierAssumption ==
  \A d \in Earlier :
    /\ DOMAIN d = Name
    /\ \A n \in Name : d[n] # NoDirectory =>
         /\ DOMAIN d[n] = Members /\ Genuine(d[n]["manifest.json"])
         /\ \A m \in Members : d[n][m].by \notin Writer

VARIABLES
  directory,  \* per name: NoDirectory, or its two files
  mtime,      \* per name: when its manifest was last written
  clock,      \* the latest such time
  pc,
  call,       \* per process that runs: the call it makes
  case,       \* per writer: the input it evaluates and writes
  run,        \* per writer and replayer: its last evaluation
  path,       \* per reader: the directory it is loading
  loaded,     \* per reader: the two files as it read them
  pass,       \* per retention pass: its lists, and what is left of them
  validated,  \* history: whose files a retention pass accepted
  removed     \* history: whose files a retention pass removed

root == <<directory, mtime, clock>>
reading == <<path, loaded>>
history == <<validated, removed>>
vars == <<root, pc, call, case, run, reading, pass, history>>

NotRun == [ran |-> FALSE]
NotRead == [manifest |-> Absent, input |-> Absent]
Idle == [todo |-> {}, eligible |-> {}, doomed |-> {}, entries |-> {}]

Init ==
  /\ directory \in Earlier
  /\ mtime = [n \in Name |-> 0] /\ clock = 0
  /\ call \in Scenarios
  /\ pc = [p \in Process |-> IF p \in DOMAIN call THEN "start" ELSE "absent"]
  /\ case = [w \in Writer \cap DOMAIN call |-> call[w].input]
  /\ run = [p \in DOMAIN call \ Pass |-> NotRun]
  /\ path = [r \in Reader \cap DOMAIN call |-> IF r \in Pass THEN 0 ELSE call[r].path]
  /\ loaded = [r \in Reader \cap DOMAIN call |-> NotRead]
  /\ pass = [p \in Pass \cap DOMAIN call |-> Idle]
  /\ validated = {} /\ removed = {}

\* The steps of a writer for each of the files.
Steps(input, manifest) == [m \in Members |-> IF m = "input.bin" THEN input ELSE manifest]
Create == Steps("create input", "create manifest")
Fill == Steps("fill input", "fill manifest")
Clean == Steps("clean input", "clean manifest")
Unlink == Steps("unlink input", "unlink manifest")

GoTo(p, label) == pc' = [pc EXCEPT ![p] = label]
Raise(p) == GoTo(p, "raised")

Exists(n) == directory[n] # NoDirectory
Empty(n) == Files(directory[n]) = {}
Put(n, member, file) == directory' = [directory EXCEPT ![n][member] = file]
Drop(n) == directory' = [directory EXCEPT ![n] = NoDirectory]

----------------------------------------------------------------------------
(* Writing: reduce_failure_to_repro, or write_repro alone.                 *)

Destination(w) == call[w].path
Expected(w) == call[w].expected_signature

UnchangedByWriter == UNCHANGED <<call, reading, pass, history>>

\* The captured comparison must carry the signature it was filed under, and the metadata
\* must leave the reducer its key; nothing has run yet.
CapturedIsConsistent(w) ==
  /\ Signature(call[w].captured) = Expected(w) /\ Expected(w) # None
  /\ REDUCTION_EVIDENCE_METADATA_KEY \notin DOMAIN call[w].metadata

RejectCaptured(w) ==
  /\ pc[w] = "start" /\ call[w].triage /\ ~CapturedIsConsistent(w)
  /\ Raise(w)
  /\ UNCHANGED <<root, case, run>> /\ UnchangedByWriter

Shows(context, input, signature) ==
  \E evaluation \in Evaluations[context][input] : Signature(evaluation) = signature

\* reduce_case (module Reducer) raises, or returns a case an evaluation of which showed
\* the captured signature, no larger than the one it was given.
Reduce(w) ==
  /\ pc[w] = "start" /\ call[w].triage /\ CapturedIsConsistent(w)
  /\ \/ Raise(w) /\ UNCHANGED case
     \/ /\ Shows(call[w].context, case[w], Expected(w))
        /\ \E reduced \in {i \in Input : Size[i] <= Size[case[w]]} :
             /\ Shows(call[w].context, reduced, Expected(w))
             /\ case' = [case EXCEPT ![w] = reduced]
        /\ GoTo(w, "write")
  /\ UNCHANGED <<root, run>> /\ UnchangedByWriter

\* write_repro publishes whatever failure the last evaluation shows.
Reevaluate_AnyFailure(w) ==
  /\ pc[w] = "write" \/ (pc[w] = "start" /\ ~call[w].triage)
  /\ \E evaluation \in Evaluations[call[w].context][case[w]] :
       /\ run' = [run EXCEPT ![w] = evaluation]
       /\ IF Signature(evaluation) = None THEN Raise(w) ELSE GoTo(w, "check")
  /\ UNCHANGED <<root, case>> /\ UnchangedByWriter

\* write_repro runs both targets again and publishes what they show now.
Reevaluate(w) ==
  /\ pc[w] = "write" \/ (pc[w] = "start" /\ ~call[w].triage)
  /\ \E evaluation \in Evaluations[call[w].context][case[w]] :
       /\ run' = [run EXCEPT ![w] = evaluation]
       /\ IF \/ Signature(evaluation) = None
             \/ Expected(w) # None /\ Signature(evaluation) # Expected(w)
          THEN Raise(w) ELSE GoTo(w, "check")
  /\ UNCHANGED <<root, case>> /\ UnchangedByWriter

CheckDestination(w) ==
  /\ pc[w] = "check"
  /\ IF Exists(Destination(w)) THEN Raise(w) ELSE GoTo(w, "make")
  /\ UNCHANGED <<root, case, run>> /\ UnchangedByWriter

MakeDirectory(w) ==
  /\ pc[w] = "make"
  /\ IF Exists(Destination(w))
     THEN Raise(w) /\ UNCHANGED directory
     ELSE /\ GoTo(w, Create["input.bin"])
          /\ directory' = [directory EXCEPT ![Destination(w)] = [m \in Members |-> Absent]]
  /\ UNCHANGED <<mtime, clock, case, run>> /\ UnchangedByWriter

\* Opening a file for writing creates it, or cuts the one that is there.
CreateFile(w, member) ==
  /\ pc[w] = Create[member]
  /\ IF Exists(Destination(w))
     THEN Put(Destination(w), member, Cut(w)) /\ GoTo(w, Fill[member])
     ELSE GoTo(w, Clean["manifest.json"]) /\ UNCHANGED directory
  /\ UNCHANGED <<mtime, clock, case, run>> /\ UnchangedByWriter

Contents(w, member) ==
  IF member = "input.bin" THEN case[w]
  ELSE Manifest(case[w], run[w],
                IF call[w].triage THEN WithReduction(call[w].metadata) ELSE call[w].metadata,
                call[w].context)

\* What is written goes to the file that was opened, which may have lost its name.  Two
\* manifests may get the same time.
FillFile(w, member) ==
  LET n == Destination(w)
      named == Exists(n) /\ directory[n][member] = Cut(w)
  IN  /\ pc[w] = Fill[member]
      /\ IF named THEN Put(n, member, Whole(w, Contents(w, member)))
         ELSE UNCHANGED directory
      /\ IF named /\ member = "manifest.json"
         THEN /\ clock' \in {clock, clock + 1}
              /\ mtime' = [mtime EXCEPT ![n] = clock']
         ELSE UNCHANGED <<mtime, clock>>
      /\ GoTo(w, IF member = "input.bin" THEN Create["manifest.json"] ELSE "written")
      /\ UNCHANGED <<case, run>> /\ UnchangedByWriter

ReturnBundle(w) ==
  /\ pc[w] = "written"
  /\ GoTo(w, "returned")
  /\ UNCHANGED <<root, case, run>> /\ UnchangedByWriter

\* A write may fail, and any exception, an interrupt too, may come until try is left.
WriteFails(w) ==
  /\ pc[w] \in {Create[m] : m \in Members} \cup {Fill[m] : m \in Members} \cup {"written"}
  /\ GoTo(w, Clean["manifest.json"])
  /\ UNCHANGED <<root, case, run>> /\ UnchangedByWriter

AfterCleaning(member) ==
  IF member = "manifest.json" THEN Clean["input.bin"] ELSE "clean directory"

\* The except clause leaves the manifest of a complete bundle where it is.
LookBeforeUnlink_KeepsManifest(w, member) ==
  /\ pc[w] = Clean[member]
  /\ GoTo(w, IF /\ member = "input.bin" /\ Exists(Destination(w))
                /\ directory[Destination(w)][member] # Absent
             THEN Unlink[member] ELSE AfterCleaning(member))
  /\ UNCHANGED <<root, case, run>> /\ UnchangedByWriter

\* The except clause: each file is unlinked if it exists, by path.
LookBeforeUnlink(w, member) ==
  /\ pc[w] = Clean[member]
  /\ GoTo(w, IF Exists(Destination(w)) /\ directory[Destination(w)][member] # Absent
             THEN Unlink[member] ELSE AfterCleaning(member))
  /\ UNCHANGED <<root, case, run>> /\ UnchangedByWriter

UnlinkOwn(w, member) ==
  /\ pc[w] = Unlink[member]
  /\ IF Exists(Destination(w)) /\ directory[Destination(w)][member] # Absent
     THEN Put(Destination(w), member, Absent) /\ GoTo(w, AfterCleaning(member))
     ELSE Raise(w) /\ UNCHANGED directory
  /\ UNCHANGED <<mtime, clock, case, run>> /\ UnchangedByWriter

CleanDirectory(w) ==
  /\ pc[w] = "clean directory"
  /\ Raise(w)
  /\ IF Exists(Destination(w)) /\ Empty(Destination(w))
     THEN Drop(Destination(w)) ELSE UNCHANGED directory
  /\ UNCHANGED <<mtime, clock, case, run>> /\ UnchangedByWriter

\* A kill before the directory is made leaves nothing, as an exception there.
Kill(w) ==
  /\ pc[w] \notin {"start", "write", "check", "make", "returned", "raised", "killed",
                "absent"}
  /\ GoTo(w, "killed")
  /\ UNCHANGED <<root, case, run>> /\ UnchangedByWriter

Write(w) ==
  \/ RejectCaptured(w) \/ Reduce(w) \/ Reevaluate(w) \/ CheckDestination(w)
  \/ MakeDirectory(w) \/ ReturnBundle(w) \/ WriteFails(w) \/ CleanDirectory(w) \/ Kill(w)
  \/ \E m \in Members :
       CreateFile(w, m) \/ FillFile(w, m) \/ LookBeforeUnlink(w, m) \/ UnlinkOwn(w, m)

----------------------------------------------------------------------------
(* Loading: load_repro_bundle, one system call on a path at a time.        *)

UnchangedByLoading == UNCHANGED <<root, call, case, run, pass, history>>

\* A replay raises; a retention pass ignores the directory and takes the next one.
Reject(r) == GoTo(r, IF r \in Replayer THEN "raised" ELSE "next")

\* One step of the loader: it goes on when the file is there and good.
File(r, member) ==
  IF Exists(path[r]) THEN directory[path[r]][member] ELSE Absent

Read(r, good, label) == IF good THEN GoTo(r, label) ELSE Reject(r)

ListMembers(r) ==
  /\ pc[r] = "list" \/ (pc[r] = "start" /\ r \in Replayer)
  /\ Read(r, Exists(path[r]) /\ Files(directory[path[r]]) = Members, "read manifest")
  /\ UNCHANGED reading /\ UnchangedByLoading

ReadManifest(r) ==
  /\ pc[r] = "read manifest"
  /\ Read(r, ManifestMatches(File(r, "manifest.json")), "stat input")
  /\ loaded' = [loaded EXCEPT ![r] =
                  [manifest |-> File(r, "manifest.json"), input |-> Absent]]
  /\ UNCHANGED path /\ UnchangedByLoading

Declared(r) == loaded[r].manifest.content

SizeMatches(r) == Length(File(r, "input.bin")) = Declared(r).input.size_bytes

StatInput(r) ==
  /\ pc[r] = "stat input"
  /\ Read(r, File(r, "input.bin") # Absent /\ SizeMatches(r), "read input")
  /\ UNCHANGED reading /\ UnchangedByLoading

\* The size alone binds the input to its manifest.
DigestMatches_SizeOnly(r) == TRUE

DigestMatches(r) ==
  "sha256" \in DOMAIN Declared(r).input =>
    Declared(r).input.sha256 = File(r, "input.bin").content

ReadInput(r) ==
  /\ pc[r] = "read input"
  /\ Read(r, /\ File(r, "input.bin").state = "whole" /\ SizeMatches(r)
             /\ DigestMatches(r) /\ EvidenceAgrees(Declared(r)),
          IF r \in Replayer THEN "loaded" ELSE "stat manifest")
  /\ loaded' = [loaded EXCEPT ![r].input = File(r, "input.bin")]
  /\ UNCHANGED path /\ UnchangedByLoading

Load(r) ==
  ListMembers(r) \/ ReadManifest(r) \/ StatInput(r) \/ ReadInput(r)

----------------------------------------------------------------------------
(* Replaying: replay_repro.                                                *)

\* A bundle of another context is replayed as one of this one.
ContextAllows_Always(r) == TRUE

ContextAllows(r) ==
  call[r].require_same_context /\ "replay_context_sha256" \in DOMAIN Declared(r) =>
    Declared(r).replay_context_sha256 = call[r].context

\* load_evidenced_repro_bundle asks more of the metadata than load_repro_bundle.
Replayable(r) == validate_failure_model_evidence(Declared(r).metadata) /\ ContextAllows(r)

RefuseReplay(r) ==
  /\ pc[r] = "loaded" /\ ~Replayable(r)
  /\ Raise(r)
  /\ UNCHANGED <<root, call, case, run, reading, pass, history>>

Replay(r) ==
  /\ pc[r] = "loaded" /\ Replayable(r)
  /\ \E evaluation \in Evaluations[call[r].context][loaded[r].input.content] :
       run' = [run EXCEPT ![r] = evaluation]
  /\ GoTo(r, "replayed")
  /\ UNCHANGED <<root, call, case, reading, pass, history>>

reproduced(r) == Signature(run[r]) = Declared(r).failure_signature

----------------------------------------------------------------------------
(* Retention: enforce_repro_retention.                                     *)

UnchangedByPass == UNCHANGED <<mtime, clock, call, case, run, validated>>

StartPass(p) ==
  /\ pc[p] = "start" /\ p \in Pass
  /\ pass' = [pass EXCEPT ![p].todo = {n \in Name : Exists(n)}]
  /\ GoTo(p, "next")
  /\ UNCHANGED <<directory, reading, removed>> /\ UnchangedByPass

\* The names that were there when the pass started, in their order.
NextChild(p) ==
  /\ pc[p] = "next"
  /\ \E n \in pass[p].todo :
       /\ \A m \in pass[p].todo : n <= m
       /\ path' = [path EXCEPT ![p] = n]
       /\ pass' = [pass EXCEPT ![p].todo = @ \ {n}]
  /\ GoTo(p, "list")
  /\ UNCHANGED <<directory, loaded, removed>> /\ UnchangedByPass

\* The time is taken of the path once more, after the load.
StatManifest(p) ==
  /\ pc[p] = "stat manifest"
  /\ IF File(p, "manifest.json") = Absent THEN UNCHANGED <<pass, validated>>
     ELSE /\ pass' = [pass EXCEPT ![p].eligible =
                        @ \cup {[mtime |-> mtime[path[p]], name |-> path[p],
                                 metadata |-> Declared(p).metadata]}]
          /\ validated' = validated \cup {loaded[p].manifest.by, loaded[p].input.by}
  /\ GoTo(p, "next")
  /\ UNCHANGED <<root, call, case, run, reading, removed>>

Newer(a, b) == a.mtime > b.mtime \/ (a.mtime = b.mtime /\ a.name < b.name)

\* Every directory is ranked, also one the load refused.
Ranked_AllDirectories(p) ==
  {[mtime |-> mtime[n], name |-> n] : n \in {i \in Name : Exists(i)}}

Ranked(p) == pass[p].eligible

\* Everything after the newest max_bundles goes.
Choose(p) ==
  /\ pc[p] = "next" /\ pass[p].todo = {}
  /\ pass' = [pass EXCEPT ![p].doomed =
                {item \in Ranked(p) : Cardinality({other \in Ranked(p) : Newer(other, item)})
                                        >= call[p].max_bundles}]
  /\ GoTo(p, "remove")
  /\ UNCHANGED <<directory, reading, removed>> /\ UnchangedByPass

\* shutil.rmtree, of the newest first: it lists the directory, unlinks what it listed,
\* removes the directory.  A file that is gone by then raises, or is passed over from
\* Python 3.13 on; a directory that is gone, or not empty, raises.
ListDoomed(p) ==
  /\ pc[p] = "remove"
  /\ \E item \in pass[p].doomed :
       /\ \A other \in pass[p].doomed \ {item} : Newer(item, other)
       /\ path' = [path EXCEPT ![p] = item.name]
       /\ IF Exists(item.name)
          THEN /\ pass' = [pass EXCEPT ![p].doomed = @ \ {item},
                                       ![p].entries = Files(directory[item.name])]
               /\ GoTo(p, "unlink")
          ELSE Raise(p) /\ UNCHANGED pass
  /\ UNCHANGED <<directory, loaded, removed>> /\ UnchangedByPass

UnlinkDoomed(p) ==
  /\ pc[p] = "unlink"
  /\ \E m \in pass[p].entries :
       \/ /\ File(p, m) # Absent
          /\ Put(path[p], m, Absent)
          /\ removed' = removed \cup {File(p, m).by}
          /\ pass' = [pass EXCEPT ![p].entries = @ \ {m}]
          /\ UNCHANGED pc
       \/ /\ File(p, m) = Absent
          /\ \/ Raise(p) /\ UNCHANGED pass
             \/ pass' = [pass EXCEPT ![p].entries = @ \ {m}] /\ UNCHANGED pc
          /\ UNCHANGED <<directory, removed>>
  /\ UNCHANGED reading /\ UnchangedByPass

RemoveDoomed(p) ==
  /\ pc[p] = "unlink" /\ pass[p].entries = {}
  /\ IF Exists(path[p]) /\ Empty(path[p])
     THEN Drop(path[p]) /\ GoTo(p, "remove")
     ELSE Raise(p) /\ UNCHANGED directory
  /\ UNCHANGED <<pass, reading, removed>> /\ UnchangedByPass

EndPass(p) ==
  /\ pc[p] = "remove" /\ pass[p].doomed = {}
  /\ GoTo(p, "returned")
  /\ UNCHANGED <<directory, reading, pass, removed>> /\ UnchangedByPass

KillPass(p) ==
  /\ pc[p] \in {"remove", "unlink"}
  /\ GoTo(p, "killed")
  /\ UNCHANGED <<directory, reading, pass, removed>> /\ UnchangedByPass

Retain(p) ==
  \/ StartPass(p) \/ NextChild(p) \/ StatManifest(p) \/ Choose(p) \/ ListDoomed(p)
  \/ UnlinkDoomed(p) \/ RemoveDoomed(p) \/ EndPass(p) \/ KillPass(p)

Next ==
  \/ \E w \in Writer : Write(w)
  \/ \E r \in Reader : Load(r)
  \/ \E r \in Replayer : RefuseReplay(r) \/ Replay(r)
  \/ \E p \in Pass : Retain(p)

Spec == Init /\ [][Next]_vars

----------------------------------------------------------------------------
(* Properties.                                                             *)

WholeManifest(n) == Exists(n) /\ directory[n]["manifest.json"].state = "whole"

\* What write_repro publishes is evidence of one evaluation of the very input it stores,
\* in the writer's own context; and a triage publishes nothing but the failure it was given,
\* however often the flaky target changed its answer in between.
PublishedKeepsItsIdentity ==
  \A n \in Name, w \in Writer :
    WholeManifest(n) /\ directory[n]["manifest.json"].by = w =>
      LET m == directory[n]["manifest.json"].content
      IN  /\ Evaluation(m) \in Evaluations[call[w].context][m.input.sha256]
          /\ m.failure_signature # None
          /\ call[w].triage => m.failure_signature = Signature(call[w].captured)

Accepted(r) == pc[r] \in {"loaded", "replayed", "stat manifest"}

\* Bundles come and go under one name while a loader reads them file by file.  What it
\* accepts is still one bundle: the input its manifest is about, showing the failure it
\* records.  Only a manifest of before the digests may be joined to another input.
LoadedIsOneBundle ==
  \A r \in Reader :
    Accepted(r) /\ "sha256" \in DOMAIN Declared(r).input =>
      /\ loaded[r].input.content = Declared(r).input.sha256
      /\ \E c \in Context :
           Evaluation(Declared(r)) \in Evaluations[c][loaded[r].input.content]

\* A retention pass removes by path what it loaded some time before.  With no second pass
\* beside it, it touches a file of a bundle it did not accept (one in the making, debris)
\* only when the writer of a bundle it did accept failed after writing it, cleaned up and
\* so freed the name for another.
RemovesOnlyWhatItAccepted ==
  removed \subseteq validated \/ \E v \in validated \cap Writer : pc[v] \in {"raised", "killed"}

Of(w) == {f \in Name \X Members : Exists(f[1]) /\ directory[f[1]][f[2]].by = w}

\* A writer whose bundle a retention pass accepted, and that failed after all, cleans up or
\* frees the name: from then on the writers of one destination can take each other's files.
Undermined(w) ==
  \E v \in (Writer \cap validated) \ {w} :
    Destination(v) = Destination(w) /\ pc[v] \notin {"written", "returned"}

\* With no second pass beside it: a call that raised left no file of its own behind, whatever
\* had been written, unless a retention pass accepted or removed a part of it; one that
\* returned left both files whole, unless a pass removed them; and either may find that the
\* failed writer of an accepted bundle came between.
WritersSayWhatTheyLeft ==
  \A w \in Writer :
    /\ pc[w] = "raised" => Of(w) = {} \/ w \in validated \cup removed \/ Undermined(w)
    /\ pc[w] = "returned" =>
         \/ \A m \in Members : /\ <<Destination(w), m>> \in Of(w)
                               /\ directory[Destination(w)][m].state = "whole"
         \/ w \in removed \/ Undermined(w)

Steady(context, input) == Cardinality(Evaluations[context][input]) = 1

\* A replay that ran and did not reproduce is never the evidence's fault: the target is
\* flaky on this input, or the harness is another one and the caller let it run, or the
\* bundle does not say which harness it is of.
FailedReplaysAreExplained ==
  \A r \in Replayer :
    pc[r] = "replayed" /\ ~reproduced(r) =>
      \/ ~Steady(call[r].context, loaded[r].input.content)
      \/ "replay_context_sha256" \notin DOMAIN Declared(r)
      \/ /\ ~call[r].require_same_context
         /\ Declared(r).replay_context_sha256 # call[r].context

\* retention.py:21 says that any bundle a replay would reject is ignored.
WouldReplay(metadata) == validate_failure_model_evidence(metadata)

RetentionIgnoresWhatReplayRejects ==
  \A p \in DOMAIN pass : \A item \in pass[p].eligible : WouldReplay(item.metadata)
=============================================================================
