---------------------------- MODULE ArchiveStore ----------------------------
(***************************************************************************)
(* A directory of portable repro archives and the three calls that share   *)
(* it: export_repro_archive (repro_archive.py), which publishes into it,   *)
(* enforce_repro_archive_retention (archive_retention.py), which ranks and *)
(* removes, and replay_repro_archive (archive_replay.py), which runs what  *)
(* retention kept.  Another program may replace, remove or rewrite a file  *)
(* between any two of their steps; no call locks the directory.            *)
(*                                                                         *)
(* A file is an inode.  The content of an archive stands for its bytes and *)
(* so for its digest; its signature and size are constants.  Every change  *)
(* of an inode, by a write, a link or an unlink, gives it a new ctime (a   *)
(* counter here), so a file identity of retention is the inode with it.    *)
(* Operators named <definition>_<bug> are bugs; no action of Next uses     *)
(* them.                                                                   *)
(***************************************************************************)
EXTENDS Integers, Sequences, FiniteSets, FiniteSetsExt

CONSTANTS
  Final,                \* names of archives
  Exporter,             \* one export call each; also the name of its staging file
  Target, Bundle,       \* per exporter: archive_path and what it exports
  Sorted,               \* all names, as sorted() orders them
  Archive, Signature, Size,    \* the valid archives; per archive
  Malformed,            \* a file the importer rejects
  Initial,              \* per name: the files the directory may hold at first
  Modified, Now,        \* per name: the mtime of that file; the mtime of later ones
  Policies,             \* the arguments of a retention pass
  Foreign,              \* what the other program may write
  MaxMeddling           \* bound: its steps

Name == Final \cup Exporter
Absent == <<"absent", 0>>
First(n) == <<"first", n>>
Staged(e) == <<"staged", e>>
Other(k) == <<"other", k>>
Inode == {First(n) : n \in Final} \cup {Staged(e) : e \in Exporter}
         \cup {Other(k) : k \in 1..MaxMeddling}
Content == Archive \cup {Malformed}

ASSUME NamesAssumption ==
  Final \cap Exporter = {} /\ Target \in [Exporter -> Final] /\ Sorted \in Seq(Name)
ASSUME ContentAssumption ==
  /\ Malformed \notin Archive /\ Bundle \in [Exporter -> Archive]
  /\ Size \in [Archive -> Nat]
  /\ Initial \in [Final -> SUBSET (Archive \cup {Malformed, "absent"})]
  /\ Modified \in [Final -> Nat] /\ Now \in Nat
  /\ Foreign \subseteq Archive \cup {Malformed} /\ MaxMeddling \in Nat
ASSUME PolicyAssumption ==
  Policies \subseteq [max_archives : Nat, max_total_archive_bytes : Nat,
                      preserve_unique_failures : BOOLEAN]

VARIABLES
  directory,            \* per name: the inode it names
  content, mtime, ctime,       \* per inode
  policy,
  retention,            \* what the pass does next
  todo,                 \* names listed and not yet looked at
  seen,                 \* the stat of the file being looked at
  eligible, duplicates, kept,  \* items: validated, deferred, retained
  removal_candidates,
  durable, exporting,   \* per exporter: which function it is, its next step
  published,            \* history, per exporter: what its link made visible
  outcome,              \* per exporter: how its call ended
  replaying, pinned,    \* the replay: its next step, was a digest given
  witness, snapshot,    \* the evidence it was given and the bytes it read
  meddling              \* steps of the other program so far

files == <<directory, content, mtime, ctime>>
pass == <<policy, retention, todo, seen, eligible, duplicates, kept, removal_candidates>>
export == <<durable, exporting, published, outcome>>
replay == <<replaying, pinned, witness, snapshot>>
vars == <<files, pass, export, replay, meddling>>

Identity_WithoutTimes(f) == <<f, 0>>
Identity(f) == <<f, ctime[f]>>
Identities == Inode \X Nat
Items == [name : Name, mtime : Nat, archive : Archive, identity : Identities]
NoItem == [name |-> "none"]
NotSeen == [mtime |-> 0, identity |-> <<Absent, 0>>]
Unpublished == [file |-> Absent, archive |-> Malformed]

TypeOK ==
  /\ directory \in [Name -> Inode \cup {Absent}]
  /\ content \in [Inode -> Content] /\ mtime \in [Inode -> Nat] /\ ctime \in [Inode -> Nat]
  /\ policy \in Policies /\ todo \subseteq Name
  /\ retention \in {"list", "stat", "read", "rank", "fill", "recheck", "unlink", "done"}
  /\ seen \in [mtime : Nat, identity : Identities \cup {<<Absent, 0>>}]
  /\ eligible \subseteq Items /\ duplicates \subseteq Items /\ kept \subseteq Items
  /\ removal_candidates \in Seq(Items)
  /\ durable \in [Exporter -> BOOLEAN]
  /\ exporting \in [Exporter -> {"check", "stage", "write", "fsync", "look", "link", "confirm",
                                 "clean up", "dir_fsync", "over", "killed"}]
  /\ published \in [Exporter -> [file : Inode, archive : Content] \cup {Unpublished}]
  /\ outcome \in [Exporter -> {"none", "returned", "raised", "fsync", "dir_fsync"}]
  /\ replaying \in {"read", "run", "ran", "refused"} /\ pinned \in BOOLEAN
  /\ witness \in Items \cup {NoItem} /\ snapshot \in Content
  /\ meddling \in 0..MaxMeddling

Init ==
  /\ \E choice \in [Final -> Content \cup {"absent"}] :
       /\ \A n \in Final : choice[n] \in Initial[n]
       /\ directory = [n \in Name |-> IF n \in Final /\ choice[n] # "absent"
                                      THEN First(n) ELSE Absent]
       /\ content = [f \in Inode |->
                       IF \E n \in Final : f = First(n) /\ choice[n] # "absent"
                       THEN choice[f[2]] ELSE Malformed]
  /\ mtime = [f \in Inode |-> IF \E n \in Final : f = First(n) THEN Modified[f[2]] ELSE Now]
  /\ ctime = [f \in Inode |-> 0]
  /\ policy \in Policies /\ retention = "list" /\ todo = {} /\ seen = NotSeen
  /\ eligible = {} /\ duplicates = {} /\ kept = {} /\ removal_candidates = <<>>
  /\ durable \in [Exporter -> BOOLEAN] /\ exporting = [e \in Exporter |-> "check"]
  /\ published = [e \in Exporter |-> Unpublished] /\ outcome = [e \in Exporter |-> "none"]
  /\ replaying = "read" /\ pinned = FALSE /\ witness = NoItem /\ snapshot = Malformed
  /\ meddling = 0

----------------------------------------------------------------------------
(* The file system.                                                        *)

Touched(F) == [f \in Inode |-> IF f \in F THEN ctime[f] + 1 ELSE ctime[f]]
Exists(n) == directory[n] # Absent
ContentAt(n) == IF Exists(n) THEN content[directory[n]] ELSE Malformed

Unlink(n) ==
  /\ directory' = [directory EXCEPT ![n] = Absent]
  /\ ctime' = Touched({directory[n]})

----------------------------------------------------------------------------
(* One retention pass.  Looking at a child is a stat, then a bounded read  *)
(* whose bytes are imported and loaded in a private directory.  An unlink  *)
(* of a file that exists does not fail.                                    *)

Retention(step) == retention = step
Then(step) == retention' = step

\* The names there are, in the order sorted() gives them.
List ==
  /\ Retention("list") /\ Then("stat")
  /\ todo' = {n \in Name : Exists(n)}
  /\ UNCHANGED <<files, policy, seen, eligible, duplicates, kept, removal_candidates, export,
                 replay, meddling>>

Precedes(n, m) == \E i, j \in DOMAIN Sorted : i < j /\ Sorted[i] = n /\ Sorted[j] = m
IsNext(n) == n \in todo /\ \A m \in todo \ {n} : Precedes(n, m)

Stat(n) ==
  /\ Retention("stat") /\ IsNext(n)
  /\ LET f == directory[n] IN
       IF f = Absent
       THEN todo' = todo \ {n} /\ UNCHANGED <<retention, seen>>
       ELSE /\ seen' = [mtime |-> mtime[f], identity |-> Identity(f)]
            /\ Then("read") /\ UNCHANGED todo
  /\ UNCHANGED <<files, policy, eligible, duplicates, kept, removal_candidates, export, replay,
                 meddling>>

Read(n) ==
  /\ Retention("read") /\ IsNext(n) /\ Then("stat")
  /\ eligible' = eligible \cup
       {x \in {[name |-> n, mtime |-> seen.mtime, archive |-> ContentAt(n),
                identity |-> seen.identity]} : x.archive \in Archive}
  /\ todo' = todo \ {n} /\ seen' = NotSeen
  /\ UNCHANGED <<files, policy, duplicates, kept, removal_candidates, export, replay, meddling>>

StartRanking ==
  /\ Retention("stat") /\ todo = {} /\ Then("rank")
  /\ UNCHANGED <<files, policy, todo, seen, eligible, duplicates, kept, removal_candidates,
                 export, replay, meddling>>

----------------------------------------------------------------------------
(* Ranking: newest first, then by name.                                    *)

Newer(x, y) == x.mtime > y.mtime \/ (x.mtime = y.mtime /\ Precedes(x.name, y.name))
Newest(x, S) == x \in S /\ \A y \in S \ {x} : Newer(x, y)

Bytes(S) == MapThenSumSet(LAMBDA x : Size[x.archive], S)
Fits(x, S) ==
  /\ Cardinality(S) < policy.max_archives
  /\ Bytes(S) + Size[x.archive] <= policy.max_total_archive_bytes

Represents(S, x) == \E y \in S : Signature[y.archive] = Signature[x.archive]

\* The first pass of a diversity-preserving policy puts duplicates off.
Deferred_Never(x) == FALSE
Deferred(x) == Retention("rank") /\ policy.preserve_unique_failures /\ Represents(kept, x)

Rank(x) ==
  /\ retention \in {"rank", "fill"} /\ Newest(x, eligible)
  /\ eligible' = eligible \ {x}
  /\ CASE Deferred(x) ->
            duplicates' = duplicates \cup {x} /\ UNCHANGED <<kept, removal_candidates>>
       [] ~Deferred(x) /\ Fits(x, kept) ->
            kept' = kept \cup {x} /\ UNCHANGED <<duplicates, removal_candidates>>
       [] ~Deferred(x) /\ ~Fits(x, kept) ->
            /\ removal_candidates' = Append(removal_candidates, x)
            /\ UNCHANGED <<kept, duplicates>>
  /\ UNCHANGED <<files, policy, retention, todo, seen, export, replay, meddling>>

\* The second pass takes the duplicates in the same order.
EndPass ==
  /\ retention \in {"rank", "fill"} /\ eligible = {}
  /\ Then(IF Retention("rank") THEN "fill" ELSE "recheck")
  /\ eligible' = duplicates /\ duplicates' = {}
  /\ UNCHANGED <<files, policy, todo, seen, kept, removal_candidates, export, replay, meddling>>

----------------------------------------------------------------------------
(* Removal: one last look at the path, then unlink by path.                *)

Candidate == Head(removal_candidates)

Recheck ==
  /\ Retention("recheck") /\ removal_candidates # <<>>
  /\ LET f == directory[Candidate.name] IN
       IF f # Absent /\ Identity(f) = Candidate.identity
       THEN Then("unlink") /\ UNCHANGED removal_candidates
       ELSE removal_candidates' = Tail(removal_candidates) /\ UNCHANGED retention
  /\ UNCHANGED <<files, policy, todo, seen, eligible, duplicates, kept, export, replay, meddling>>

Remove ==
  /\ Retention("unlink") /\ Then("recheck")
  /\ IF Exists(Candidate.name) THEN Unlink(Candidate.name) ELSE UNCHANGED <<directory, ctime>>
  /\ removal_candidates' = Tail(removal_candidates)
  /\ UNCHANGED <<content, mtime, policy, todo, seen, eligible, duplicates, kept, export, replay,
                 meddling>>

Report ==
  /\ Retention("recheck") /\ removal_candidates = <<>> /\ Then("done")
  /\ UNCHANGED <<files, policy, todo, seen, eligible, duplicates, kept, removal_candidates,
                 export, replay, meddling>>

Retain ==
  \/ List \/ StartRanking
  \/ \E n \in todo : Stat(n) \/ Read(n)
  \/ \E x \in eligible : Rank(x)
  \/ EndPass \/ Recheck \/ Remove \/ Report

----------------------------------------------------------------------------
(* Replaying one kept archive, with or without its digest.                 *)

\* One bounded read; the digest of those bytes is compared, then they are imported.
Accepted(x, found) == pinned' => found = x.archive

ReadArchive(x) ==
  /\ replaying = "read" /\ Retention("done") /\ x \in kept
  /\ witness' = x /\ pinned' \in BOOLEAN
  /\ LET found == ContentAt(x.name) IN
       IF found # Malformed /\ Accepted(x, found)
       THEN replaying' = "run" /\ snapshot' = found
       ELSE replaying' = "refused" /\ UNCHANGED snapshot
  /\ UNCHANGED <<files, pass, export, meddling>>

Run_ReadsAgain ==
  /\ replaying = "run" /\ replaying' = "ran" /\ snapshot' = ContentAt(witness.name)
  /\ UNCHANGED <<files, pass, export, pinned, witness, meddling>>
Run ==
  /\ replaying = "run" /\ replaying' = "ran"
  /\ UNCHANGED <<files, pass, export, pinned, witness, snapshot, meddling>>

Replay == (\E x \in kept : ReadArchive(x)) \/ Run

----------------------------------------------------------------------------
(* One export.                                                             *)

Exporting(e, step) == exporting[e] = step
Go(e, step) == exporting' = [exporting EXCEPT ![e] = step]
Ended(e, how) == outcome' = [outcome EXCEPT ![e] = how]

\* The destination is looked for first; then the bundle is loaded, and may be rejected.
Check(e) ==
  /\ Exporting(e, "check")
  /\ \/ ~Exists(Target[e]) /\ Go(e, "stage") /\ UNCHANGED outcome
     \/ Go(e, "over") /\ Ended(e, "raised")
  /\ UNCHANGED <<files, pass, replay, durable, published, meddling>>

\* mkstemp takes a name that is free.
Stage(e) ==
  /\ Exporting(e, "stage") /\ ~Exists(e) /\ Go(e, "write")
  /\ directory' = [directory EXCEPT ![e] = Staged(e)]
  /\ UNCHANGED <<content, mtime, ctime, pass, replay, durable, published, outcome, meddling>>

Raise(e, how) == Go(e, "clean up") /\ Ended(e, how)

\* Through the descriptor of mkstemp, whatever the staging path names by now.
Write(e) ==
  /\ Exporting(e, "write")
  /\ \/ /\ Go(e, IF durable[e] THEN "fsync" ELSE "look") /\ UNCHANGED outcome
        /\ content' = [content EXCEPT ![Staged(e)] = Bundle[e]]
     \/ Raise(e, "raised") /\ UNCHANGED content
  /\ ctime' = Touched({Staged(e)})
  /\ UNCHANGED <<directory, mtime, pass, replay, durable, published, meddling>>

\* Succeeds, or fails by the injected fault or by itself.
FileSync(e) ==
  /\ Exporting(e, "fsync")
  /\ \/ Go(e, "look") /\ UNCHANGED outcome
     \/ Raise(e, "fsync")
  /\ UNCHANGED <<files, pass, replay, durable, published, meddling>>

Look(e) ==
  /\ Exporting(e, "look")
  /\ IF directory[e] = Staged(e) THEN Go(e, "link") /\ UNCHANGED outcome ELSE Raise(e, "raised")
  /\ UNCHANGED <<files, pass, replay, durable, published, meddling>>

CanLink(e) == Exists(e) /\ ~Exists(Target[e])

Link(e) ==
  /\ Exporting(e, "link")
  /\ LET f == directory[e] IN
       IF CanLink(e)
       THEN /\ directory' = [directory EXCEPT ![Target[e]] = f]
            /\ ctime' = Touched({f})
            /\ published' = [published EXCEPT ![e] = [file |-> f, archive |-> content[f]]]
            /\ Go(e, "confirm") /\ UNCHANGED outcome
       ELSE Raise(e, "raised") /\ UNCHANGED <<directory, ctime, published>>
  /\ UNCHANGED <<content, mtime, pass, replay, durable, meddling>>

Confirm_Skipped(e) ==
  /\ Exporting(e, "confirm") /\ Go(e, "clean up")
  /\ UNCHANGED <<files, pass, replay, durable, published, outcome, meddling>>
Confirm(e) ==
  /\ Exporting(e, "confirm")
  /\ IF directory[Target[e]] = Staged(e)
     THEN Go(e, "clean up") /\ UNCHANGED outcome
     ELSE Raise(e, "raised")
  /\ UNCHANGED <<files, pass, replay, durable, published, meddling>>

\* The finally clause unlinks the staging path, whatever it names.
CleanUp(e) ==
  /\ Exporting(e, "clean up")
  /\ IF Exists(e) THEN Unlink(e) ELSE UNCHANGED <<directory, ctime>>
  /\ IF outcome[e] = "none" /\ durable[e]
     THEN Go(e, "dir_fsync") /\ UNCHANGED outcome
     ELSE Go(e, "over") /\ Ended(e, IF outcome[e] = "none" THEN "returned" ELSE outcome[e])
  /\ UNCHANGED <<content, mtime, pass, replay, durable, published, meddling>>

DirectorySync(e) ==
  /\ Exporting(e, "dir_fsync") /\ Go(e, "over")
  /\ Ended(e, "returned") \/ Ended(e, "dir_fsync")
  /\ UNCHANGED <<files, pass, replay, durable, published, meddling>>

Kill(e) ==
  /\ exporting[e] \notin {"check", "over", "killed"} /\ Go(e, "killed")
  /\ UNCHANGED <<files, pass, replay, durable, published, outcome, meddling>>

Export(e) ==
  \/ Check(e) \/ Stage(e) \/ Write(e) \/ FileSync(e) \/ Look(e) \/ Link(e) \/ Confirm(e)
  \/ CleanUp(e) \/ DirectorySync(e) \/ Kill(e)

----------------------------------------------------------------------------
(* The other program: mv onto a name, rm, and rewriting an archive in      *)
(* place.  It leaves the private staging files' bytes alone.               *)

Meddle == meddling < MaxMeddling /\ meddling' = meddling + 1

Replace(n, c) ==
  /\ Meddle
  /\ LET f == Other(meddling') IN
       /\ directory' = [directory EXCEPT ![n] = f]
       /\ content' = [content EXCEPT ![f] = c]
  /\ ctime' = Touched({directory[n]})
  /\ UNCHANGED <<mtime, pass, export, replay>>

Delete(n) ==
  /\ Meddle /\ Exists(n) /\ Unlink(n)
  /\ UNCHANGED <<content, mtime, pass, export, replay>>

Rewrite(n, c) ==
  /\ Meddle /\ Exists(n)
  /\ LET f == directory[n] IN
       /\ content' = [content EXCEPT ![f] = c]
       /\ mtime' = [mtime EXCEPT ![f] = Now]
       /\ ctime' = Touched({f})
  /\ UNCHANGED <<directory, pass, export, replay>>

OtherProgram ==
  \/ \E n \in Name : Delete(n) \/ \E c \in Foreign : Replace(n, c)
  \/ \E n \in Final, c \in Foreign : Rewrite(n, c)

----------------------------------------------------------------------------
Next == Retain \/ Replay \/ OtherProgram \/ \E e \in Exporter : Export(e)

Spec == Init /\ [][Next]_vars

----------------------------------------------------------------------------
(* Properties.                                                             *)

\* docs/repro-archive-retention.md: content that arrived at a path after its validation is
\* not deleted.  When the last look of retention lets an unlink follow, the path holds the
\* very bytes that were validated and ranked, whoever wrote, linked or unlinked since.
RemovesOnlyWhatItRead ==
  [][Retention("recheck") /\ retention' = "unlink" =>
       ContentAt(Candidate.name) = Candidate.archive]_vars

\* What a pass drops did not fit: neither beside all it kept nor, when it preserves unique
\* failures and lost the failure altogether, beside one archive per kept failure.  So a
\* duplicate never costs the only evidence of another failure (two greedy passes that share
\* two budgets), and what is kept is within both.
Dropped == {removal_candidates[i] : i \in DOMAIN removal_candidates}
Representatives ==
  {x \in kept : \A y \in kept \ {x} : Signature[y.archive] = Signature[x.archive] => Newer(x, y)}
OnlyWhatDoesNotFitIsDropped ==
  /\ Cardinality(kept) <= policy.max_archives /\ Bytes(kept) <= policy.max_total_archive_bytes
  /\ \A x \in Dropped :
       /\ ~Fits(x, kept)
       /\ policy.preserve_unique_failures /\ ~Represents(kept, x) => ~Fits(x, Representatives)

\* A replay given the digest of kept evidence runs the bytes retention validated or none,
\* however the path changed in between (docs/repro-archive-retention.md).
ReplayRunsWhatWasKept ==
  replaying = "ran" /\ pinned => snapshot = witness.archive

\* An export that returned, and one whose directory sync failed, made its own complete
\* archive visible; one whose file sync failed made nothing visible.
ExportIsTruthful ==
  \A e \in Exporter :
    /\ outcome[e] \in {"returned", "dir_fsync"} =>
         published[e] = [file |-> Staged(e), archive |-> Bundle[e]]
    /\ outcome[e] = "fsync" => published[e] = Unpublished
=============================================================================
