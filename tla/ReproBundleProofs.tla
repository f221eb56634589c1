------------------------- MODULE ReproBundleProofs -------------------------
(***************************************************************************)
(* What a repro bundle says of the failure it records, for any writers,    *)
(* replayers and retention passes that share one root, killed and failing  *)
(* at any step, and for targets that answer differently each time.  And    *)
(* what is left and what is removed, for any writers and replayers beside  *)
(* one retention pass.                                                     *)
(***************************************************************************)
EXTENDS ReproBundle, FiniteSetTheorems, TLAPS

(***************************************************************************)
(* The invariant.  Who is where: a process that runs has what its kind of  *)
(* call keeps.                                                             *)
(***************************************************************************)
Kept ==
  /\ call \in Scenarios /\ DOMAIN pc = Process /\ DOMAIN directory = Name
  /\ \A p \in Process : pc[p] # "absent" => p \in DOMAIN call
  /\ DOMAIN case = Writer \cap DOMAIN call /\ DOMAIN run = DOMAIN call \ Pass
  /\ DOMAIN path = Reader \cap DOMAIN call /\ DOMAIN loaded = Reader \cap DOMAIN call
  /\ DOMAIN pass = Pass \cap DOMAIN call
  /\ \A w \in DOMAIN case : case[w] \in Input
  /\ \A r \in DOMAIN loaded : DOMAIN loaded[r] = {"manifest", "input"}
  /\ \A p \in DOMAIN pass : "todo" \in DOMAIN pass[p] /\ pass[p].todo \subseteq Name

\* A writer that has evaluated its case holds one evaluation of it, in its own context, that
\* shows a failure: the one it was given, if it was given one.
Evaluated == {"check", "make", "create input", "create manifest", "fill input", "fill manifest"}
Holds(w) ==
  /\ pc[w] \in Evaluated \cup {"write"} /\ call[w].triage => CapturedIsConsistent(w)
  /\ pc[w] \in Evaluated =>
       /\ run[w] \in Evaluations[call[w].context][case[w]]
       /\ Signature(run[w]) # None
       /\ Expected(w) # None => Signature(run[w]) = Expected(w)

\* What a manifest of this run's writers says.
Published(w, m) ==
  /\ Evaluation(m) \in Evaluations[call[w].context][m.input.sha256]
  /\ m.failure_signature # None
  /\ call[w].triage => m.failure_signature = Signature(call[w].captured)
Trusted(file) ==
  /\ Genuine(file)
  /\ file.state = "whole" /\ file.by \in Writer => Published(file.by, file.content)
BundlesAreTrusted ==
  \A n \in Name : Exists(n) =>
    DOMAIN directory[n] = Members /\ Trusted(directory[n]["manifest.json"])

\* What a reader has of the bundle it loads, by how far it is.
Loading == {"list", "read manifest", "stat input", "read input", "stat manifest"}
Bound(r) ==
  /\ r \in Replayer \/ pc[r] \in Loading => path[r] \in Name
  /\ pc[r] \in {"stat input", "read input"} \/ Accepted(r) =>
       ManifestMatches(loaded[r].manifest) /\ Genuine(loaded[r].manifest)
  /\ Accepted(r) =>
       /\ EvidenceAgrees(Declared(r))
       /\ "sha256" \in DOMAIN Declared(r).input =>
            loaded[r].input.content = Declared(r).input.sha256
  /\ r \in Replayer /\ pc[r] = "replayed" =>
       ContextAllows(r) /\ run[r] \in Evaluations[call[r].context][loaded[r].input.content]

IInv ==
  /\ Kept /\ BundlesAreTrusted
  /\ \A w \in Writer \cap DOMAIN call : Holds(w)
  /\ \A r \in Reader \cap DOMAIN call : Bound(r)

----------------------------------------------------------------------------
(* What a step leaves alone.                                               *)

LEMMA StepNames ==
  /\ Create["input.bin"] = "create input" /\ Create["manifest.json"] = "create manifest"
  /\ Fill["input.bin"] = "fill input" /\ Fill["manifest.json"] = "fill manifest"
  /\ Clean["input.bin"] = "clean input" /\ Clean["manifest.json"] = "clean manifest"
  /\ Unlink["input.bin"] = "unlink input" /\ Unlink["manifest.json"] = "unlink manifest"
BY DEF Create, Fill, Clean, Unlink, Steps, Members

LEMMA Moves ==
  ASSUME DOMAIN pc = Process, NEW p \in Process, NEW label, GoTo(p, label)
  PROVE  /\ DOMAIN pc' = Process /\ pc'[p] = label
         /\ \A q \in Process : q # p => pc'[q] = pc[q]
BY DEF GoTo

LEMMA HoldsStays ==
  ASSUME NEW w, Holds(w), UNCHANGED call, pc'[w] = pc[w], case'[w] = case[w], run'[w] = run[w]
  PROVE  Holds(w)'
BY DEF Holds, CapturedIsConsistent, Expected

LEMMA BoundStays ==
  ASSUME NEW r, Bound(r), UNCHANGED call, pc'[r] = pc[r], path'[r] = path[r],
         loaded'[r] = loaded[r], r \in Replayer => run'[r] = run[r]
  PROVE  Bound(r)'
BY DEF Bound, Accepted, Declared, ContextAllows

LEMMA TrustedStays ==
  ASSUME NEW file, UNCHANGED call
  PROVE  Trusted(file) <=> Trusted(file)'
BY DEF Trusted, Published

\* A file that is not written in full says nothing.
LEMMA PartsAreTrusted == Trusted(Absent) /\ \A w : Trusted(Cut(w))
BY DEF Trusted, Genuine, ManifestMatches, Absent, Cut

LEMMA PuttingKeepsTrust ==
  ASSUME BundlesAreTrusted, DOMAIN directory = Name, UNCHANGED call,
         NEW n, Exists(n), NEW m, NEW file, m = "manifest.json" => Trusted(file),
         Put(n, m, file)
  PROVE  DOMAIN directory' = Name /\ BundlesAreTrusted'
<1>1. DOMAIN directory' = Name
  BY DEF Put
<1>2. ASSUME NEW q \in Name, Exists(q)'
      PROVE  DOMAIN directory'[q] = Members /\ Trusted(directory'[q]["manifest.json"])
  <2>1. CASE q # n
    <3>1. directory'[q] = directory[q]
      BY <2>1 DEF Put
    <3> QED
      BY <1>2, <3>1 DEF Exists, BundlesAreTrusted
  <2>2. CASE q = n
    <3>1. directory'[q] = [directory[q] EXCEPT ![m] = file]
      BY <2>2 DEF Put
    <3>2. DOMAIN directory[q] = Members /\ Trusted(directory[q]["manifest.json"])
      BY <2>2 DEF BundlesAreTrusted
    <3> QED
      BY <3>1, <3>2 DEF Members
  <2> QED
    BY <2>1, <2>2
<1> QED
  BY <1>1, <1>2, TrustedStays DEF BundlesAreTrusted

LEMMA DroppingKeepsTrust ==
  ASSUME BundlesAreTrusted, DOMAIN directory = Name, UNCHANGED call, NEW n, Drop(n)
  PROVE  DOMAIN directory' = Name /\ BundlesAreTrusted'
<1>1. DOMAIN directory' = Name
  BY DEF Drop
<1>2. ASSUME NEW q \in Name, Exists(q)'
      PROVE  directory'[q] = directory[q] /\ Exists(q)
  BY <1>2 DEF Drop, Exists
<1> QED
  BY <1>1, <1>2, TrustedStays DEF BundlesAreTrusted

LEMMA SameFilesKeepTrust ==
  ASSUME BundlesAreTrusted, UNCHANGED <<call, directory>>
  PROVE  BundlesAreTrusted'
BY TrustedStays DEF BundlesAreTrusted, Exists

----------------------------------------------------------------------------
(* Writing.                                                                *)

\* A step of a writer touches its own place, case and evaluation and the files.
LEMMA WriterStep ==
  ASSUME IInv, NEW w \in Writer \cap DOMAIN call, UnchangedByWriter,
         NEW label, GoTo(w, label),
         case' = case \/ \E i \in Input : case' = [case EXCEPT ![w] = i],
         run' = run \/ \E e : run' = [run EXCEPT ![w] = e],
         DOMAIN directory' = Name /\ BundlesAreTrusted', Holds(w)'
  PROVE  IInv'
<1>1. Kept /\ UNCHANGED <<call, path, loaded, pass>>
  BY DEF IInv, UnchangedByWriter, reading
<1>2. w \in Process /\ \A r \in Reader : r # w /\ r \in Process
  BY ProcessesAssumption DEF Process
<1>3. /\ DOMAIN pc' = Process /\ pc'[w] = label
      /\ \A q \in Process : q # w => pc'[q] = pc[q]
  BY <1>1, <1>2, Moves DEF Kept
<1>4. /\ DOMAIN case' = DOMAIN case /\ \A v \in DOMAIN case : case'[v] \in Input
      /\ \A v \in DOMAIN case : v # w => case'[v] = case[v]
  <2>1. CASE case' = case
    BY <1>1, <2>1 DEF Kept
  <2>2. ASSUME NEW i \in Input, case' = [case EXCEPT ![w] = i]
        PROVE  /\ DOMAIN case' = DOMAIN case /\ \A v \in DOMAIN case : case'[v] \in Input
               /\ \A v \in DOMAIN case : v # w => case'[v] = case[v]
    BY <1>1, <2>2 DEF Kept
  <2> QED
    BY <2>1, <2>2
<1>5. DOMAIN run' = DOMAIN run /\ \A q \in DOMAIN run : q # w => run'[q] = run[q]
  OBVIOUS
<1>6. Kept'
  BY <1>1, <1>2, <1>3, <1>4, <1>5 DEF Kept
<1>7. ASSUME NEW v \in Writer \cap DOMAIN call PROVE Holds(v)'
  <2>1. CASE v = w
    BY <2>1
  <2>2. CASE v # w
    <3>1. v \in DOMAIN case /\ v \in DOMAIN run /\ v \in Process
      BY <1>1, ProcessesAssumption DEF Kept, Process, Reader
    <3>2. Holds(v)
      BY DEF IInv
    <3> QED
      BY <1>1, <1>3, <1>4, <1>5, <2>2, <3>1, <3>2, HoldsStays
  <2> QED
    BY <2>1, <2>2
<1>8. ASSUME NEW r \in Reader \cap DOMAIN call PROVE Bound(r)'
  <2>1. Bound(r)
    BY DEF IInv
  <2>2. r \in Replayer => run'[r] = run[r]
    BY <1>1, <1>2, <1>5, ProcessesAssumption DEF Kept, Reader
  <2> QED
    BY <1>1, <1>2, <1>3, <2>1, <2>2, BoundStays
<1> QED
  BY <1>1, <1>6, <1>7, <1>8 DEF IInv

\* What the written manifest says follows from the evaluation the writer holds.
LEMMA ManifestIsTrusted ==
  ASSUME IInv, NEW w \in Writer \cap DOMAIN call, pc[w] \in Evaluated, NEW metadata
  PROVE  Trusted(Whole(w, Manifest(case[w], run[w], metadata, call[w].context)))
<1> DEFINE m == Manifest(case[w], run[w], metadata, call[w].context)
           e == run[w]
<1>1. w \in DOMAIN case /\ case[w] \in Input /\ call \in Scenarios /\ call[w].context \in Context
  BY ScenariosAssumption DEF IInv, Kept
<1>2. /\ e \in Evaluations[call[w].context][case[w]] /\ Signature(e) # None
      /\ Expected(w) # None => Signature(e) = Expected(w)
      /\ call[w].triage => CapturedIsConsistent(w)
  BY DEF IInv, Holds
<1>3. e = Evaluation(e)
  BY <1>1, <1>2, EvaluationsAssumption
<1>4. /\ m.input.sha256 = case[w] /\ m.replay_context_sha256 = call[w].context
      /\ m.failure_signature = Signature(e) /\ "sha256" \in DOMAIN m.input
      /\ m.candidate = e.candidate /\ m.oracle = e.oracle
  BY DEF Manifest
<1>5. Evaluation(m) = e
  BY <1>3, <1>4 DEF Evaluation
<1>6. call[w].triage => Signature(e) = Signature(call[w].captured)
  BY <1>2 DEF CapturedIsConsistent
<1> HIDE DEF m, e
<1>7. Sound(m)
  BY <1>1, <1>2, <1>4, <1>5 DEF Sound
<1>8. Published(w, m)
  BY <1>2, <1>4, <1>5, <1>6 DEF Published
<1>9. Trusted(Whole(w, m))
  BY <1>7, <1>8 DEF Trusted, Genuine, Whole
<1> QED
  BY <1>9 DEF m

LEMMA Writing ==
  ASSUME IInv, NEW w \in Writer, Write(w)
  PROVE  IInv'
<1>1. /\ Kept /\ BundlesAreTrusted
      /\ DOMAIN directory = Name
  BY DEF IInv, Kept
<1>2. w \in Process /\ w \notin Pass /\ w \notin Reader
  BY ProcessesAssumption DEF Process, Reader
<1>3. \A m \in Members : /\ Create[m] # "absent" /\ Fill[m] # "absent" /\ Clean[m] # "absent"
                         /\ Unlink[m] # "absent"
  BY StepNames DEF Members
<1>4. pc[w] # "absent"
  BY <1>3 DEF Write, RejectCaptured, Reduce, Reevaluate, CheckDestination, MakeDirectory,
     ReturnBundle, WriteFails, CleanDirectory, Kill, CreateFile, FillFile, LookBeforeUnlink,
     UnlinkOwn
<1>5. w \in Writer \cap DOMAIN call /\ w \in DOMAIN run /\ w \in DOMAIN case
  BY <1>1, <1>2, <1>4 DEF Kept
<1>6. Holds(w)
  BY <1>5 DEF IInv
\* A step that takes the writer on, or out of the way, with what it holds.
<1>7. ASSUME NEW label, GoTo(w, label), UNCHANGED <<case, run>>, UnchangedByWriter,
             label \in Evaluated => pc[w] \in Evaluated, label # "write",
             DOMAIN directory' = Name /\ BundlesAreTrusted'
      PROVE  IInv'
  <2>1. pc'[w] = label
    BY <1>1, <1>2, <1>7, Moves DEF Kept
  <2>2. Holds(w)'
    BY <1>6, <1>7, <2>1 DEF Holds, UnchangedByWriter, Expected, CapturedIsConsistent
  <2> QED
    BY <1>5, <1>7, <2>2, WriterStep
<1>8. UNCHANGED <<directory, call>> => DOMAIN directory' = Name /\ BundlesAreTrusted'
  BY <1>1, SameFilesKeepTrust
<1>9. CASE RejectCaptured(w)
  BY <1>7, <1>8, <1>9 DEF RejectCaptured, Raise, root, UnchangedByWriter, Evaluated
<1>10. CASE Reduce(w)
  <2>1. CASE Raise(w) /\ UNCHANGED case
    BY <1>7, <1>8, <1>10, <2>1 DEF Reduce, Raise, root, UnchangedByWriter, Evaluated
  <2>2. CASE ~(Raise(w) /\ UNCHANGED case)
    <3>1. PICK i \in Input : case' = [case EXCEPT ![w] = i]
      BY <1>10, <2>2 DEF Reduce
    <3>2. /\ GoTo(w, "write") /\ CapturedIsConsistent(w) /\ UnchangedByWriter
          /\ UNCHANGED <<root, run>>
      BY <1>10, <2>2 DEF Reduce
    <3>3. pc'[w] = "write"
      BY <1>1, <1>2, <3>2, Moves DEF Kept
    <3>4. Holds(w)'
      BY <3>2, <3>3 DEF Holds, UnchangedByWriter, Expected, CapturedIsConsistent, Evaluated
    <3>5. DOMAIN directory' = Name /\ BundlesAreTrusted'
      BY <1>8, <3>2 DEF root, UnchangedByWriter
    <3> QED
      BY <1>5, <3>1, <3>2, <3>4, <3>5, WriterStep
  <2> QED
    BY <2>1, <2>2
<1>11. CASE Reevaluate(w)
  <2>1. PICK e \in Evaluations[call[w].context][case[w]] :
          /\ run' = [run EXCEPT ![w] = e]
          /\ IF \/ Signature(e) = None
                \/ Expected(w) # None /\ Signature(e) # Expected(w)
             THEN Raise(w) ELSE GoTo(w, "check")
    BY <1>11 DEF Reevaluate
  <2>2. UnchangedByWriter /\ UNCHANGED <<root, case>>
        /\ (pc[w] = "write" \/ (pc[w] = "start" /\ ~call[w].triage))
    BY <1>11 DEF Reevaluate
  <2>3. DOMAIN directory' = Name /\ BundlesAreTrusted'
    BY <1>8, <2>2 DEF root, UnchangedByWriter
  <2>4. run'[w] = e
    BY <1>5, <2>1
  <2>5. CASE Raise(w)
    <3>1. pc'[w] = "raised"
      BY <1>1, <1>2, <2>5, Moves DEF Kept, Raise
    <3>2. Holds(w)'
      BY <3>1 DEF Holds, Evaluated
    <3> QED
      BY <1>5, <2>1, <2>2, <2>3, <2>5, <3>2, WriterStep DEF Raise
  <2>6. CASE ~Raise(w)
    <3>1. /\ GoTo(w, "check") /\ Signature(e) # None
          /\ Expected(w) # None => Signature(e) = Expected(w)
      BY <2>1, <2>6
    <3>2. pc'[w] = "check"
      BY <1>1, <1>2, <3>1, Moves DEF Kept
    <3>3. call[w].triage => CapturedIsConsistent(w)
      BY <1>6, <2>2 DEF Holds
    <3>4. UNCHANGED <<call, case>>
      BY <2>2 DEF UnchangedByWriter
    <3>5. Holds(w)'
      BY <2>4, <3>1, <3>2, <3>3, <3>4 DEF Holds, Expected, CapturedIsConsistent
    <3> QED
      BY <1>5, <2>1, <2>2, <2>3, <3>1, <3>5, WriterStep
  <2> QED
    BY <2>5, <2>6
<1>12. CASE CheckDestination(w)
  <2>1. PICK label \in {"raised", "make"} : GoTo(w, label)
    BY <1>12 DEF CheckDestination, Raise
  <2> QED
    BY <1>7, <1>8, <1>12, <2>1 DEF CheckDestination, root, UnchangedByWriter, Evaluated
<1>13. CASE MakeDirectory(w)
  <2>1. CASE Exists(Destination(w))
    BY <1>7, <1>8, <1>13, <2>1 DEF MakeDirectory, Raise, UnchangedByWriter, Evaluated
  <2>2. CASE ~Exists(Destination(w))
    <3>1. /\ GoTo(w, "create input") /\ UnchangedByWriter /\ UNCHANGED <<case, run>>
          /\ directory' = [directory EXCEPT ![Destination(w)] = [m \in Members |-> Absent]]
          /\ pc[w] = "make"
      BY <1>13, <2>2, StepNames DEF MakeDirectory
    <3> DEFINE n == Destination(w)
    <3> HIDE DEF n
    <3>2. directory' = [directory EXCEPT ![n] = [m \in Members |-> Absent]]
      BY <3>1 DEF n
    <3>3. DOMAIN directory' = Name
      BY <1>1, <3>2
    <3>4. ASSUME NEW q \in Name, Exists(q)'
          PROVE  DOMAIN directory'[q] = Members /\ Trusted(directory'[q]["manifest.json"])
      <4>1. CASE q = n
        <5>1. directory'[q] = [m \in Members |-> Absent]
          BY <1>1, <3>2, <4>1
        <5> QED
          BY <5>1, PartsAreTrusted DEF Members
      <4>2. CASE q # n
        <5>1. directory'[q] = directory[q]
          BY <1>1, <3>2, <4>2
        <5> QED
          BY <1>1, <3>4, <5>1 DEF Exists, BundlesAreTrusted
      <4> QED
        BY <4>1, <4>2
    <3>5. BundlesAreTrusted'
      BY <3>1, <3>4, TrustedStays DEF BundlesAreTrusted, UnchangedByWriter
    <3> QED
      BY <1>7, <3>1, <3>3, <3>5 DEF Evaluated
  <2> QED
    BY <2>1, <2>2
<1>14. ASSUME NEW m \in Members, CreateFile(w, m) PROVE IInv'
  <2>1. pc[w] \in Evaluated /\ UNCHANGED <<case, run, call>> /\ UnchangedByWriter
    BY <1>14, StepNames DEF CreateFile, Evaluated, Members, UnchangedByWriter
  <2>2. CASE Exists(Destination(w))
    <3>1. Put(Destination(w), m, Cut(w)) /\ GoTo(w, Fill[m])
      BY <1>14, <2>2 DEF CreateFile
    <3>2. DOMAIN directory' = Name /\ BundlesAreTrusted'
      BY <1>1, <2>1, <2>2, <3>1, PuttingKeepsTrust, PartsAreTrusted
    <3>3. Fill[m] # "write"
      BY StepNames DEF Members
    <3> QED
      BY <1>7, <2>1, <3>1, <3>2, <3>3
  <2>3. CASE ~Exists(Destination(w))
    <3>1. GoTo(w, "clean manifest") /\ UNCHANGED directory
      BY <1>14, <2>3, StepNames DEF CreateFile
    <3> QED
      BY <1>7, <1>8, <2>1, <3>1
  <2> QED
    BY <2>2, <2>3
<1>15. ASSUME NEW m \in Members, FillFile(w, m) PROVE IInv'
  <2>1. pc[w] \in Evaluated /\ UNCHANGED <<case, run, call>> /\ UnchangedByWriter
    BY <1>15, StepNames DEF FillFile, Evaluated, Members, UnchangedByWriter
  <2>2. PICK label \in {"create manifest", "written"} : GoTo(w, label)
    BY <1>15, StepNames DEF FillFile
  <2>3. DOMAIN directory' = Name /\ BundlesAreTrusted'
    <3>1. CASE UNCHANGED directory
      BY <1>8, <2>1, <3>1
    <3>2. CASE ~UNCHANGED directory
      <4>1. Exists(Destination(w)) /\ Put(Destination(w), m, Whole(w, Contents(w, m)))
        BY <1>15, <3>2 DEF FillFile
      <4>2. m = "manifest.json" => Trusted(Whole(w, Contents(w, m)))
        BY <1>5, <2>1, ManifestIsTrusted DEF Contents
      <4> QED
        BY <1>1, <2>1, <4>1, <4>2, PuttingKeepsTrust
    <3> QED
      BY <3>1, <3>2
  <2> QED
    BY <1>7, <2>1, <2>2, <2>3
<1>16. CASE ReturnBundle(w)
  BY <1>7, <1>8, <1>16 DEF ReturnBundle, root, UnchangedByWriter, Evaluated
<1>17. CASE WriteFails(w)
  <2>1. GoTo(w, "clean manifest")
    BY <1>17, StepNames DEF WriteFails
  <2> QED
    BY <1>7, <1>8, <1>17, <2>1 DEF WriteFails, root, UnchangedByWriter, Evaluated
<1>18. ASSUME NEW m \in Members, LookBeforeUnlink(w, m) PROVE IInv'
  <2>1. PICK label \in {"unlink input", "unlink manifest", "clean input", "clean directory"} :
          GoTo(w, label)
    BY <1>18, StepNames DEF LookBeforeUnlink, AfterCleaning, Members
  <2> QED
    BY <1>7, <1>8, <1>18, <2>1 DEF LookBeforeUnlink, root, UnchangedByWriter, Evaluated
<1>19. ASSUME NEW m \in Members, UnlinkOwn(w, m) PROVE IInv'
  <2>1. UNCHANGED <<case, run, call>> /\ UnchangedByWriter
    BY <1>19 DEF UnlinkOwn, UnchangedByWriter
  <2>2. PICK label \in {"clean input", "clean directory", "raised"} : GoTo(w, label)
    BY <1>19, StepNames DEF UnlinkOwn, AfterCleaning, Raise
  <2>3. DOMAIN directory' = Name /\ BundlesAreTrusted'
    <3>1. CASE UNCHANGED directory
      BY <1>8, <2>1, <3>1
    <3>2. CASE ~UNCHANGED directory
      <4>1. Exists(Destination(w)) /\ Put(Destination(w), m, Absent)
        BY <1>19, <3>2 DEF UnlinkOwn
      <4> QED
        BY <1>1, <2>1, <4>1, PuttingKeepsTrust, PartsAreTrusted
    <3> QED
      BY <3>1, <3>2
  <2> QED
    BY <1>7, <2>1, <2>2, <2>3 DEF Evaluated
<1>20. CASE CleanDirectory(w)
  <2>1. UNCHANGED <<case, run, call>> /\ UnchangedByWriter /\ GoTo(w, "raised")
    BY <1>20 DEF CleanDirectory, UnchangedByWriter, Raise
  <2>2. DOMAIN directory' = Name /\ BundlesAreTrusted'
    BY <1>1, <1>8, <1>20, <2>1, DroppingKeepsTrust DEF CleanDirectory
  <2> QED
    BY <1>7, <2>1, <2>2 DEF Evaluated
<1>21. CASE Kill(w)
  BY <1>7, <1>8, <1>21 DEF Kill, root, UnchangedByWriter, Evaluated
<1> QED
  BY <1>9, <1>10, <1>11, <1>12, <1>13, <1>14, <1>15, <1>16, <1>17, <1>18, <1>19, <1>20, <1>21
  DEF Write

----------------------------------------------------------------------------
(* Loading, replaying and retaining.                                       *)

\* A step of a reader touches its own place and what it has loaded; a replay its evaluation;
\* a retention pass its lists and the files.
LEMMA ReaderStep ==
  ASSUME IInv, NEW r \in Reader \cap DOMAIN call,
         pc' = pc \/ \E label : GoTo(r, label),
         UNCHANGED <<call, case>>,
         path' = path \/ \E n : path' = [path EXCEPT ![r] = n],
         DOMAIN loaded' = DOMAIN loaded,
         \A q \in DOMAIN loaded : DOMAIN loaded'[q] = {"manifest", "input"},
         \A q \in DOMAIN loaded : q # r => loaded'[q] = loaded[q],
         DOMAIN run' = DOMAIN run, \A q \in DOMAIN run : q # r => run'[q] = run[q],
         DOMAIN pass' = DOMAIN pass,
         \A p \in DOMAIN pass : "todo" \in DOMAIN pass'[p] /\ pass'[p].todo \subseteq Name,
         DOMAIN directory' = Name /\ BundlesAreTrusted', Bound(r)'
  PROVE  IInv'
<1>1. Kept
  BY DEF IInv
<1>2. r \in Process /\ r \notin Writer
  BY ProcessesAssumption DEF Process
<1>3. DOMAIN pc' = Process /\ \A q \in Process : q # r => pc'[q] = pc[q]
  BY <1>1, <1>2, Moves DEF Kept
<1>4. DOMAIN path' = DOMAIN path /\ \A q \in DOMAIN path : q # r => path'[q] = path[q]
  OBVIOUS
<1>5. Kept'
  BY <1>1, <1>2, <1>3, <1>4 DEF Kept
<1>6. ASSUME NEW w \in Writer \cap DOMAIN call PROVE Holds(w)'
  <2>1. w # r /\ w \in DOMAIN run /\ w \in Process
    BY <1>1, <1>2, ProcessesAssumption DEF Kept, Process, Reader
  <2>2. Holds(w)
    BY DEF IInv
  <2> QED
    BY <1>3, <2>1, <2>2, HoldsStays
<1>7. ASSUME NEW q \in Reader \cap DOMAIN call PROVE Bound(q)'
  <2>1. CASE q = r
    BY <2>1
  <2>2. CASE q # r
    <3>1. Bound(q) /\ q \in Process /\ q \in DOMAIN path /\ q \in DOMAIN loaded
      BY <1>1 DEF IInv, Process, Kept
    <3>2. q \in Replayer => q \in DOMAIN run
      BY <1>1, ProcessesAssumption DEF Kept
    <3> QED
      BY <1>3, <1>4, <2>2, <3>1, <3>2, BoundStays
  <2> QED
    BY <2>1, <2>2
<1> QED
  BY <1>5, <1>6, <1>7 DEF IInv

LEMMA Reading ==
  ASSUME IInv, NEW r \in Reader,
         Load(r) \/ (r \in Replayer /\ (RefuseReplay(r) \/ Replay(r)))
  PROVE  IInv'
<1>1. Kept /\ BundlesAreTrusted
  BY DEF IInv
<1>2. r \in Process
  BY DEF Process
<1>3. r \in Reader \cap DOMAIN call /\ r \in DOMAIN path /\ r \in DOMAIN loaded
  <2>1. pc[r] # "absent"
    BY DEF Load, ListMembers, ReadManifest, StatInput, ReadInput, RefuseReplay, Replay
  <2> QED
    BY <1>1, <1>2, <2>1 DEF Kept
<1>4. Bound(r) /\ DOMAIN loaded[r] = {"manifest", "input"}
  BY <1>1, <1>3 DEF IInv, Kept
<1>5. UNCHANGED <<directory, call>> => DOMAIN directory' = Name /\ BundlesAreTrusted'
  BY <1>1, SameFilesKeepTrust DEF Kept
<1>6. ASSUME NEW label, GoTo(r, label), UNCHANGED <<directory, call, case, path, pass>>,
             DOMAIN loaded' = DOMAIN loaded, DOMAIN loaded'[r] = {"manifest", "input"},
             \A q \in DOMAIN loaded : q # r => loaded'[q] = loaded[q],
             DOMAIN run' = DOMAIN run, \A q \in DOMAIN run : q # r => run'[q] = run[q],
             Bound(r)'
      PROVE  IInv'
  <2>1. \A q \in DOMAIN loaded : DOMAIN loaded'[q] = {"manifest", "input"}
    BY <1>1, <1>6 DEF Kept
  <2>2. \A p \in DOMAIN pass : "todo" \in DOMAIN pass'[p] /\ pass'[p].todo \subseteq Name
    BY <1>1, <1>6 DEF Kept
  <2> QED
    BY <1>3, <1>5, <1>6, <2>1, <2>2, ReaderStep
\* A reader that gives up, or takes the next directory, claims nothing.
<1>7. ASSUME NEW label \in {"raised", "next"}, pc'[r] = label, UNCHANGED path
      PROVE  Bound(r)'
  BY <1>4, <1>7 DEF Bound, Loading, Accepted
<1>8. ASSUME NEW label, GoTo(r, label) PROVE pc'[r] = label
  BY <1>1, <1>2, <1>8, Moves DEF Kept
<1>9. \E label \in {"raised", "next"} : Reject(r) => GoTo(r, label)
  BY DEF Reject
<1>10. ASSUME UNCHANGED <<directory, call, case, run, path, pass>>,
              DOMAIN loaded' = DOMAIN loaded, DOMAIN loaded'[r] = {"manifest", "input"},
              \A q \in DOMAIN loaded : q # r => loaded'[q] = loaded[q],
              Reject(r)
       PROVE  IInv'
  BY <1>6, <1>7, <1>8, <1>9, <1>10
<1>11. path[r] \in Name => Trusted(File(r, "manifest.json"))
  BY <1>1, PartsAreTrusted DEF File, BundlesAreTrusted
<1>12. CASE ListMembers(r)
  <2>1. UNCHANGED <<directory, call, case, run, path, pass, loaded>>
    BY <1>12 DEF ListMembers, reading, UnchangedByLoading, root
  <2>2. CASE Reject(r)
    BY <1>4, <1>10, <2>1, <2>2
  <2>3. CASE ~Reject(r)
    <3>1. GoTo(r, "read manifest") /\ (r \in Replayer \/ pc[r] = "list")
      BY <1>12, <2>3 DEF ListMembers, Read
    <3>2. pc'[r] = "read manifest"
      BY <1>8, <3>1
    <3>3. Bound(r)'
      BY <1>4, <2>1, <3>1, <3>2 DEF Bound, Loading, Accepted
    <3> QED
      BY <1>4, <1>6, <2>1, <3>1, <3>3
  <2> QED
    BY <2>2, <2>3
<1>13. CASE ReadManifest(r)
  <2> DEFINE file == File(r, "manifest.json")
  <2>1. /\ UNCHANGED <<directory, call, case, run, path, pass>> /\ pc[r] = "read manifest"
        /\ loaded' = [loaded EXCEPT ![r] = [manifest |-> file, input |-> Absent]]
    BY <1>13 DEF ReadManifest, UnchangedByLoading, root
  <2>2. /\ DOMAIN loaded' = DOMAIN loaded /\ loaded'[r].manifest = file
        /\ DOMAIN loaded'[r] = {"manifest", "input"}
        /\ \A q \in DOMAIN loaded : q # r => loaded'[q] = loaded[q]
    <3> HIDE DEF file
    <3> DEFINE read == [manifest |-> file, input |-> Absent]
    <3>1. read.manifest = file /\ DOMAIN read = {"manifest", "input"}
      OBVIOUS
    <3>2. loaded' = [loaded EXCEPT ![r] = read]
      BY <2>1
    <3> HIDE DEF read
    <3> QED
      BY <1>3, <3>1, <3>2
  <2>3. CASE Reject(r)
    BY <1>10, <2>1, <2>2, <2>3
  <2>4. CASE ~Reject(r)
    <3>1. GoTo(r, "stat input") /\ ManifestMatches(file)
      BY <1>13, <2>4 DEF ReadManifest, Read
    <3>2. pc'[r] = "stat input"
      BY <1>8, <3>1
    <3>3. path[r] \in Name
      BY <1>4, <2>1 DEF Bound, Loading
    <3>4. Genuine(file)
      BY <1>11, <3>3 DEF Trusted
    <3>5. Bound(r)'
      <4> DEFINE read == loaded'[r].manifest
      <4>1. ManifestMatches(read) /\ Genuine(read)
        BY <2>2, <3>1, <3>4
      <4> QED
        BY <2>1, <3>2, <3>3, <4>1 DEF Bound, Loading, Accepted
    <3> QED
      BY <1>6, <2>1, <2>2, <3>1, <3>5
  <2> QED
    BY <2>3, <2>4
<1>14. CASE StatInput(r)
  <2>1. UNCHANGED <<directory, call, case, run, path, pass, loaded>> /\ pc[r] = "stat input"
    BY <1>14 DEF StatInput, reading, UnchangedByLoading, root
  <2>2. CASE Reject(r)
    BY <1>4, <1>10, <2>1, <2>2
  <2>3. CASE ~Reject(r)
    <3>1. GoTo(r, "read input")
      BY <1>14, <2>3 DEF StatInput, Read
    <3>2. pc'[r] = "read input"
      BY <1>8, <3>1
    <3>3. Bound(r)'
      BY <1>4, <2>1, <3>2 DEF Bound, Loading, Accepted
    <3> QED
      BY <1>4, <1>6, <2>1, <3>1, <3>3
  <2> QED
    BY <2>2, <2>3
<1>15. CASE ReadInput(r)
  <2> DEFINE file == File(r, "input.bin")
  <2>1. /\ UNCHANGED <<directory, call, case, run, path, pass>> /\ pc[r] = "read input"
        /\ loaded' = [loaded EXCEPT ![r].input = file]
    BY <1>15 DEF ReadInput, UnchangedByLoading, root
  <2>2. /\ DOMAIN loaded' = DOMAIN loaded /\ loaded'[r].manifest = loaded[r].manifest
        /\ loaded'[r].input = file /\ DOMAIN loaded'[r] = {"manifest", "input"}
        /\ \A q \in DOMAIN loaded : q # r => loaded'[q] = loaded[q]
    <3> HIDE DEF file
    <3>1. loaded'[r] = [loaded[r] EXCEPT !.input = file]
      BY <1>3, <2>1
    <3> QED
      BY <1>4, <2>1, <3>1
  <2>3. CASE Reject(r)
    BY <1>10, <2>1, <2>2, <2>3
  <2>4. CASE ~Reject(r)
    <3>1. PICK label \in {"loaded", "stat manifest"} : GoTo(r, label)
      BY <1>15, <2>4 DEF ReadInput, Read
    <3>2. pc'[r] = label
      BY <1>8, <3>1
    <3>3. path[r] \in Name
      BY <1>4, <2>1 DEF Bound, Loading
    <3>4. DigestMatches(r) /\ EvidenceAgrees(Declared(r))
      BY <1>15, <2>4 DEF ReadInput, Read
    <3>5. Bound(r)'
      <4> DEFINE m == loaded[r].manifest
      <4>1. ManifestMatches(m) /\ Genuine(m) /\ EvidenceAgrees(m.content)
        BY <1>4, <2>1, <3>4 DEF Bound, Declared
      <4>2. "sha256" \in DOMAIN m.content.input => file.content = m.content.input.sha256
        BY <3>4 DEF DigestMatches, Declared
      <4> HIDE DEF m, file
      <4>3. loaded'[r].manifest = m /\ loaded'[r].input = file
        BY <2>2 DEF m
      <4> QED
        BY <2>1, <3>2, <3>3, <4>1, <4>2, <4>3 DEF Bound, Declared
    <3> QED
      BY <1>6, <2>1, <2>2, <3>1, <3>5
  <2> QED
    BY <2>3, <2>4
<1>16. CASE r \in Replayer /\ RefuseReplay(r)
  <2>1. UNCHANGED <<directory, call, case, run, path, pass, loaded>> /\ GoTo(r, "raised")
    BY <1>16 DEF RefuseReplay, Raise, reading, root
  <2>2. Bound(r)'
    BY <1>7, <1>8, <2>1
  <2> QED
    BY <1>4, <1>6, <2>1, <2>2
<1>17. CASE r \in Replayer /\ Replay(r)
  <2>1. /\ UNCHANGED <<directory, call, case, path, pass, loaded>> /\ GoTo(r, "replayed")
        /\ pc[r] = "loaded" /\ ContextAllows(r)
    BY <1>17 DEF Replay, Replayable, reading, root
  <2>2. PICK e \in Evaluations[call[r].context][loaded[r].input.content] :
          run' = [run EXCEPT ![r] = e]
    BY <1>17 DEF Replay
  <2>3. r \in DOMAIN run
    BY <1>1, <1>3, <1>17, ProcessesAssumption DEF Kept
  <2>4. DOMAIN run' = DOMAIN run /\ run'[r] = e /\ \A q \in DOMAIN run : q # r => run'[q] = run[q]
    BY <2>2, <2>3
  <2>5. pc'[r] = "replayed"
    BY <1>8, <2>1
  <2>6. Bound(r)'
    BY <1>4, <2>1, <2>2, <2>4, <2>5 DEF Bound, Accepted, Declared, ContextAllows, Loading
  <2> QED
    BY <1>4, <1>6, <2>1, <2>4, <2>6
<1> QED
  BY <1>12, <1>13, <1>14, <1>15, <1>16, <1>17 DEF Load

LEMMA Retaining ==
  ASSUME IInv, NEW p \in Pass, Retain(p)
  PROVE  IInv'
<1>1. Kept /\ BundlesAreTrusted /\ DOMAIN directory = Name
  BY DEF IInv, Kept
<1>2. p \in Process /\ p \in Reader /\ p \notin Replayer
  BY ProcessesAssumption DEF Process, Reader
<1>3. p \in Reader \cap DOMAIN call /\ p \in DOMAIN path /\ p \in DOMAIN pass
  <2>1. pc[p] # "absent"
    BY DEF Retain, StartPass, NextChild, StatManifest, Choose, ListDoomed, UnlinkDoomed,
       RemoveDoomed, EndPass, KillPass
  <2> QED
    BY <1>1, <1>2, <2>1 DEF Kept
<1>4. "todo" \in DOMAIN pass[p] /\ pass[p].todo \subseteq Name
  BY <1>1, <1>3 DEF Kept
<1>5. UNCHANGED <<directory, call>> => DOMAIN directory' = Name /\ BundlesAreTrusted'
  BY <1>1, SameFilesKeepTrust
<1>6. ASSUME NEW label, GoTo(p, label) PROVE pc'[p] = label
  BY <1>1, <1>2, <1>6, Moves DEF Kept
\* What a step may do to the lists of the pass.
<1>7. ASSUME \/ pass' = pass
             \/ \E S \in SUBSET Name : pass' = [pass EXCEPT ![p].todo = S]
             \/ \E v : \E field \in {"eligible", "doomed", "entries"} :
                  pass' = [pass EXCEPT ![p] = [pass[p] EXCEPT ![field] = v]]
      PROVE  /\ DOMAIN pass' = DOMAIN pass
             /\ \A q \in DOMAIN pass : "todo" \in DOMAIN pass'[q] /\ pass'[q].todo \subseteq Name
  <2>1. CASE pass' = pass
    BY <1>1, <2>1 DEF Kept
  <2>2. ASSUME NEW S \in SUBSET Name, pass' = [pass EXCEPT ![p].todo = S]
        PROVE  /\ DOMAIN pass' = DOMAIN pass
               /\ \A q \in DOMAIN pass :
                    "todo" \in DOMAIN pass'[q] /\ pass'[q].todo \subseteq Name
    <3>1. /\ pass'[p] = [pass[p] EXCEPT !.todo = S]
          /\ \A q \in DOMAIN pass : q # p => pass'[q] = pass[q]
      BY <1>3, <2>2
    <3> QED
      BY <1>1, <1>4, <2>2, <3>1 DEF Kept
  <2>3. ASSUME NEW v, NEW field \in {"eligible", "doomed", "entries"},
               pass' = [pass EXCEPT ![p] = [pass[p] EXCEPT ![field] = v]]
        PROVE  /\ DOMAIN pass' = DOMAIN pass
               /\ \A q \in DOMAIN pass :
                    "todo" \in DOMAIN pass'[q] /\ pass'[q].todo \subseteq Name
    <3>1. /\ pass'[p] = [pass[p] EXCEPT ![field] = v]
          /\ \A q \in DOMAIN pass : q # p => pass'[q] = pass[q]
      BY <1>3, <2>3
    <3>2. "todo" \in DOMAIN pass'[p] /\ pass'[p].todo = pass[p].todo
      BY <1>4, <3>1
    <3> QED
      BY <1>1, <1>4, <2>3, <3>1, <3>2 DEF Kept
  <2> QED
    BY <1>7, <2>1, <2>2, <2>3
\* A pass that is not loading claims nothing.
<1>8. ASSUME NEW label \in {"next", "remove", "unlink", "returned", "raised", "killed"},
             pc'[p] = label
      PROVE  Bound(p)'
  BY <1>2, <1>8 DEF Bound, Loading, Accepted
<1>9. ASSUME NEW label \in {"next", "remove", "unlink", "returned", "raised", "killed"},
             GoTo(p, label) \/ (pc' = pc /\ pc[p] = label),
             UNCHANGED <<call, case, run, reading>>,
             DOMAIN directory' = Name /\ BundlesAreTrusted',
             DOMAIN pass' = DOMAIN pass,
             \A q \in DOMAIN pass : "todo" \in DOMAIN pass'[q] /\ pass'[q].todo \subseteq Name
      PROVE  IInv'
  <2>1. Bound(p)'
    BY <1>6, <1>8, <1>9
  <2>2. UNCHANGED <<path, loaded>>
    BY <1>9 DEF reading
  <2>3. \A q \in DOMAIN loaded : DOMAIN loaded'[q] = {"manifest", "input"}
    BY <1>1, <2>2 DEF Kept
  <2> QED
    BY <1>3, <1>9, <2>1, <2>2, <2>3, ReaderStep
<1>10. CASE StartPass(p)
  <2>1. \E S \in SUBSET Name : pass' = [pass EXCEPT ![p].todo = S]
    BY <1>10 DEF StartPass
  <2> QED
    BY <1>5, <1>7, <1>9, <1>10, <2>1 DEF StartPass, UnchangedByPass
<1>11. CASE NextChild(p)
  <2>1. PICK n \in pass[p].todo : /\ path' = [path EXCEPT ![p] = n]
                                  /\ pass' = [pass EXCEPT ![p].todo = @ \ {n}]
    BY <1>11 DEF NextChild
  <2>2. GoTo(p, "list") /\ UNCHANGED <<directory, loaded, call, case, run>>
    BY <1>11 DEF NextChild, UnchangedByPass
  <2>3. \E S \in SUBSET Name : pass' = [pass EXCEPT ![p].todo = S]
    BY <1>4, <2>1
  <2>4. /\ DOMAIN pass' = DOMAIN pass
        /\ \A q \in DOMAIN pass : "todo" \in DOMAIN pass'[q] /\ pass'[q].todo \subseteq Name
    BY <1>7, <2>3
  <2>5. n \in Name /\ path'[p] = n
    BY <1>3, <1>4, <2>1
  <2>6. pc'[p] = "list"
    BY <1>6, <2>2
  <2>7. Bound(p)'
    BY <1>2, <2>5, <2>6 DEF Bound, Loading, Accepted
  <2>8. \A q \in DOMAIN loaded : DOMAIN loaded'[q] = {"manifest", "input"}
    BY <1>1, <2>2 DEF Kept
  <2> QED
    BY <1>3, <1>5, <2>1, <2>2, <2>4, <2>5, <2>7, <2>8, ReaderStep
<1>12. CASE StatManifest(p)
  <2>1. \/ pass' = pass
        \/ \E v : pass' = [pass EXCEPT ![p] = [pass[p] EXCEPT !["eligible"] = v]]
    <3>1. CASE File(p, "manifest.json") = Absent
      BY <1>12, <3>1 DEF StatManifest
    <3>2. CASE File(p, "manifest.json") # Absent
      <4> DEFINE v == pass[p].eligible \cup
                        {[mtime |-> mtime[path[p]], name |-> path[p],
                          metadata |-> Declared(p).metadata]}
      <4>1. pass' = [pass EXCEPT ![p].eligible = v]
        BY <1>12, <3>2 DEF StatManifest
      <4> HIDE DEF v
      <4>2. pass' = [pass EXCEPT ![p] = [pass[p] EXCEPT !["eligible"] = v]]
        BY <4>1
      <4> QED
        BY <4>2
    <3> QED
      BY <3>1, <3>2
  <2>2. /\ DOMAIN pass' = DOMAIN pass
        /\ \A q \in DOMAIN pass : "todo" \in DOMAIN pass'[q] /\ pass'[q].todo \subseteq Name
    BY <1>7, <2>1
  <2> QED
    BY <1>5, <1>9, <1>12, <2>2 DEF StatManifest, root
<1>13. CASE Choose(p)
  <2>1. \E v : pass' = [pass EXCEPT ![p] = [pass[p] EXCEPT !["doomed"] = v]]
    <3> DEFINE v == {item \in Ranked(p) : Cardinality({other \in Ranked(p) : Newer(other, item)})
                                            >= call[p].max_bundles}
    <3>1. pass' = [pass EXCEPT ![p].doomed = v]
      BY <1>13 DEF Choose
    <3> HIDE DEF v
    <3> QED
      BY <3>1
  <2>2. /\ DOMAIN pass' = DOMAIN pass
        /\ \A q \in DOMAIN pass : "todo" \in DOMAIN pass'[q] /\ pass'[q].todo \subseteq Name
    BY <1>7, <2>1
  <2> QED
    BY <1>5, <1>9, <1>13, <2>2 DEF Choose, UnchangedByPass
<1>14. CASE ListDoomed(p)
  <2>1. PICK item \in pass[p].doomed :
          /\ path' = [path EXCEPT ![p] = item.name]
          /\ IF Exists(item.name)
             THEN /\ pass' = [pass EXCEPT ![p].doomed = @ \ {item},
                                          ![p].entries = Files(directory[item.name])]
                  /\ GoTo(p, "unlink")
             ELSE Raise(p) /\ UNCHANGED pass
    BY <1>14 DEF ListDoomed
  <2>2. /\ DOMAIN pass' = DOMAIN pass
        /\ \A q \in DOMAIN pass : "todo" \in DOMAIN pass'[q] /\ pass'[q].todo \subseteq Name
    <3>1. CASE pass' = pass
      BY <1>7, <3>1
    <3>2. CASE pass' # pass
      <4>1. pass' = [pass EXCEPT ![p] = [pass[p] EXCEPT !.doomed = @ \ {item},
                                                        !.entries = Files(directory[item.name])]]
        BY <2>1, <3>2
      <4>2. "todo" \in DOMAIN pass'[p] /\ pass'[p].todo = pass[p].todo
        BY <1>3, <1>4, <4>1
      <4>3. DOMAIN pass' = DOMAIN pass /\ \A q \in DOMAIN pass : q # p => pass'[q] = pass[q]
        BY <4>1
      <4> QED
        BY <1>1, <1>4, <4>2, <4>3 DEF Kept
    <3> QED
      BY <3>1, <3>2
  <2>3. PICK label \in {"unlink", "raised"} : GoTo(p, label)
    BY <2>1 DEF Raise
  <2>4. UNCHANGED <<directory, loaded, call, case, run>>
    BY <1>14 DEF ListDoomed, UnchangedByPass
  <2>5. Bound(p)'
    BY <1>6, <1>8, <2>3
  <2>6. \A q \in DOMAIN loaded : DOMAIN loaded'[q] = {"manifest", "input"}
    BY <1>1, <2>4 DEF Kept
  <2> QED
    BY <1>3, <1>5, <2>1, <2>2, <2>3, <2>4, <2>5, <2>6, ReaderStep
<1>15. CASE UnlinkDoomed(p)
  <2>1. /\ UNCHANGED <<call, case, run, reading>> /\ pc[p] = "unlink"
        /\ pc' = pc \/ GoTo(p, "raised")
    BY <1>15 DEF UnlinkDoomed, UnchangedByPass, Raise
  <2>2. PICK m \in pass[p].entries :
          /\ \/ pass' = pass
             \/ pass' = [pass EXCEPT ![p].entries = @ \ {m}]
          /\ \/ UNCHANGED directory
             \/ Exists(path[p]) /\ Put(path[p], m, Absent)
    BY <1>15 DEF UnlinkDoomed, File
  <2>3. \/ pass' = pass
        \/ \E v : pass' = [pass EXCEPT ![p] = [pass[p] EXCEPT !["entries"] = v]]
    BY <2>2
  <2>4. /\ DOMAIN pass' = DOMAIN pass
        /\ \A q \in DOMAIN pass : "todo" \in DOMAIN pass'[q] /\ pass'[q].todo \subseteq Name
    BY <1>7, <2>3
  <2>5. DOMAIN directory' = Name /\ BundlesAreTrusted'
    BY <1>1, <1>5, <2>1, <2>2, PuttingKeepsTrust, PartsAreTrusted
  <2> QED
    BY <1>9, <2>1, <2>4, <2>5
<1>16. CASE RemoveDoomed(p)
  <2>1. PICK label \in {"remove", "raised"} : GoTo(p, label)
    BY <1>16 DEF RemoveDoomed, Raise
  <2>2. UNCHANGED <<call, case, run, reading, pass>>
    BY <1>16 DEF RemoveDoomed, UnchangedByPass
  <2>3. UNCHANGED directory \/ Drop(path[p])
    BY <1>16 DEF RemoveDoomed
  <2>4. DOMAIN directory' = Name /\ BundlesAreTrusted'
    BY <1>1, <1>5, <2>2, <2>3, DroppingKeepsTrust
  <2> QED
    BY <1>7, <1>9, <2>1, <2>2, <2>4
<1>17. CASE EndPass(p)
  BY <1>1, <1>5, <1>7, <1>9, <1>17 DEF EndPass, UnchangedByPass
<1>18. CASE KillPass(p)
  BY <1>1, <1>5, <1>7, <1>9, <1>18 DEF KillPass, UnchangedByPass
<1> QED
  BY <1>10, <1>11, <1>12, <1>13, <1>14, <1>15, <1>16, <1>17, <1>18 DEF Retain

----------------------------------------------------------------------------
(* The theorems.                                                           *)

LEMMA BundlesStayTrusted == Spec => []IInv
<1>1. Init => IInv
  <2> SUFFICES ASSUME Init PROVE IInv
    OBVIOUS
  <2>1. call \in Scenarios /\ directory \in Earlier
    BY DEF Init
  <2>2. \A p \in Process :
          pc[p] \in {"start", "absent"} /\ (pc[p] # "absent" => p \in DOMAIN call)
    BY DEF Init
  <2>3. DOMAIN call \subseteq Process
    BY <2>1, ScenariosAssumption
  <2>4. \A w \in DOMAIN case : case[w] \in Input
    BY <2>1, ScenariosAssumption DEF Init
  <2>5. \A r \in DOMAIN loaded : DOMAIN loaded[r] = {"manifest", "input"}
    BY DEF Init, NotRead
  <2>6. \A p \in DOMAIN pass : "todo" \in DOMAIN pass[p] /\ pass[p].todo \subseteq Name
    <3>1. "todo" \in DOMAIN Idle /\ Idle.todo \subseteq Name
      BY DEF Idle
    <3> QED
      BY <3>1 DEF Init
  <2>7. Kept
    BY <2>1, <2>2, <2>3, <2>4, <2>5, <2>6, EarlierAssumption DEF Init, Kept
  <2>8. BundlesAreTrusted
    BY <2>1, EarlierAssumption DEF BundlesAreTrusted, Trusted, Exists, Members
  <2>9. \A w \in Writer \cap DOMAIN call : Holds(w)
    BY <2>2 DEF Holds, Evaluated, Process
  <2>10. ASSUME NEW r \in Reader \cap DOMAIN call PROVE Bound(r)
    <3>1. pc[r] \in {"start", "absent"}
      BY <2>2 DEF Process
    <3>2. r \in Replayer => path[r] \in Name
      BY <2>1, ScenariosAssumption, ProcessesAssumption DEF Init
    <3> QED
      BY <3>1, <3>2 DEF Bound, Loading, Accepted
  <2> QED
    BY <2>7, <2>8, <2>9, <2>10 DEF IInv
<1>2. IInv /\ [Next]_vars => IInv'
  <2> SUFFICES ASSUME IInv, [Next]_vars PROVE IInv'
    OBVIOUS
  <2>1. CASE UNCHANGED vars
    <3>1. UNCHANGED <<call, pc, directory, case, run, path, loaded, pass>>
      BY <2>1 DEF vars, root, reading
    <3>2. BundlesAreTrusted'
      BY <3>1, SameFilesKeepTrust DEF IInv
    <3>3. Kept'
      BY <3>1 DEF IInv, Kept
    <3>4. \A w \in Writer \cap DOMAIN call : Holds(w)'
      BY <3>1, HoldsStays DEF IInv
    <3>5. \A r \in Reader \cap DOMAIN call : Bound(r)'
      BY <3>1, BoundStays DEF IInv
    <3> QED
      BY <3>1, <3>2, <3>3, <3>4, <3>5 DEF IInv
  <2>2. CASE Next
    BY <2>2, Writing, Reading, Retaining DEF Next, Reader
  <2> QED
    BY <2>1, <2>2
<1> QED
  BY <1>1, <1>2, PTL DEF Spec

\* What write_repro publishes is evidence of one evaluation of the very input it stores, in
\* the writer's own context; and a triage publishes nothing but the failure it was given.
THEOREM PublishedIsEvidence == Spec => []PublishedKeepsItsIdentity
<1>1. IInv => PublishedKeepsItsIdentity
  BY DEF IInv, BundlesAreTrusted, Trusted, Published, PublishedKeepsItsIdentity, WholeManifest
<1> QED
  BY <1>1, BundlesStayTrusted, PTL

\* What a loader accepts, file by file, is one bundle: the input its manifest is about,
\* showing the failure it records.
THEOREM AcceptedIsOneBundle == Spec => []LoadedIsOneBundle
<1>1. ASSUME IInv PROVE LoadedIsOneBundle
  <2>1. ASSUME NEW r \in Reader, Accepted(r), "sha256" \in DOMAIN Declared(r).input
        PROVE  /\ loaded[r].input.content = Declared(r).input.sha256
               /\ \E c \in Context :
                    Evaluation(Declared(r)) \in Evaluations[c][loaded[r].input.content]
    <3>1. r \in DOMAIN call
      BY <1>1, <2>1 DEF IInv, Kept, Accepted, Process
    <3>2. Bound(r)
      BY <1>1, <3>1 DEF IInv
    <3>3. Sound(Declared(r))
      BY <2>1, <3>2 DEF Bound, Genuine, Declared
    <3>4. loaded[r].input.content = Declared(r).input.sha256
      BY <2>1, <3>2 DEF Bound
    <3> QED
      BY <2>1, <3>3, <3>4 DEF Sound
  <2> QED
    BY <2>1 DEF LoadedIsOneBundle
<1> QED
  BY <1>1, BundlesStayTrusted, PTL

\* A replay that ran and did not reproduce is never the evidence's fault: the target is
\* flaky on this input, or the harness is another one and the caller let it run, or the
\* bundle does not say which harness it is of.
THEOREM OnlyTheTargetOrTheHarnessDiffers == Spec => []FailedReplaysAreExplained
<1>1. ASSUME IInv PROVE FailedReplaysAreExplained
  <2>1. SUFFICES
          ASSUME NEW r \in Replayer, pc[r] = "replayed",
                 Steady(call[r].context, loaded[r].input.content),
                 "replay_context_sha256" \in DOMAIN Declared(r),
                 ~(/\ ~call[r].require_same_context
                   /\ Declared(r).replay_context_sha256 # call[r].context)
          PROVE  reproduced(r)
    BY DEF FailedReplaysAreExplained
  <2> DEFINE m == Declared(r)
             input == loaded[r].input.content
             context == call[r].context
  <2>2. r \in Reader /\ r \in DOMAIN call /\ call \in Scenarios
    BY <1>1, <2>1 DEF IInv, Kept, Process, Reader
  <2>3. Bound(r)
    BY <1>1, <2>2 DEF IInv
  <2>4. m.replay_context_sha256 = context
    BY <2>1, <2>3 DEF Bound, ContextAllows
  <2>5. Accepted(r) /\ Sound(m)
    BY <2>1, <2>3 DEF Bound, Accepted, Genuine, Declared
  <2>6. /\ "sha256" \in DOMAIN m.input /\ m.input.sha256 \in Input
        /\ Evaluation(m) \in Evaluations[m.replay_context_sha256][m.input.sha256]
        /\ m.failure_signature = Signature(Evaluation(m))
    BY <2>1, <2>5 DEF Sound
  <2>7. input = m.input.sha256
    BY <2>3, <2>5, <2>6 DEF Bound
  <2>8. run[r] \in Evaluations[context][input] /\ Evaluation(m) \in Evaluations[context][input]
    BY <2>1, <2>3, <2>4, <2>6, <2>7 DEF Bound
  <2>9. run[r] = Evaluation(m)
    <3>1. context \in Context /\ input \in Input
      BY <2>1, <2>2, <2>6, <2>7, ScenariosAssumption
    <3>2. IsFiniteSet(Evaluations[context][input]) /\ Cardinality(Evaluations[context][input]) = 1
      BY <2>1, <3>1, EvaluationsAssumption DEF Steady
    <3> HIDE DEF m, input, context
    <3>3. \E e : Evaluations[context][input] = {e}
      BY <3>2, FS_Singleton
    <3> QED
      BY <2>8, <3>3
  <2> QED
    BY <2>6, <2>9 DEF reproduced
<1> QED
  BY <1>1, BundlesStayTrusted, PTL

(***************************************************************************)
(* Whose a directory is.  A writer is inside its directory from the mkdir  *)
(* to the end of its call or of its cleanup.                               *)
(***************************************************************************)
Making == {"create input", "fill input", "create manifest", "fill manifest"}
Leaving == {"clean manifest", "unlink manifest", "clean input", "unlink input",
            "clean directory"}
Inside == Making \cup {"written"} \cup Leaving
Within(w, n) == Destination(w) = n /\ pc[w] \in Inside

At(n, m) == IF Exists(n) THEN directory[n][m] ELSE Absent
Has(w, m) == At(Destination(w), m).by = w
HasWhole(w, m) == Has(w, m) /\ At(Destination(w), m).state = "whole"
Belongs(n, w) == Exists(n) /\ \A m \in Members : At(n, m) # Absent => At(n, m).by = w

\* A writer's files are where it writes, and it fills them in order.
FilesHaveTheirWriters ==
  \A n \in Name, m \in Members, w \in Writer :
    At(n, m).by = w =>
      /\ Destination(w) = n /\ At(n, m).state \in {"cut", "whole"}
      /\ pc[w] \in Inside \cup {"returned", "raised", "killed"}
      /\ m = "manifest.json" /\ At(n, m).state = "whole" => pc[w] \notin Making

\* A pass accepted the bundle of a writer that failed after all.
Betrayed(n) ==
  \E v \in Writer \cap validated :
    Destination(v) = n /\ pc[v] \in Leaving \cup {"raised", "killed"}

\* What a writer has in its directory by how far it is, unless a pass took a file of it.
Conduct(w) ==
  \/ w \in removed \/ Betrayed(Destination(w))
  \/ /\ pc[w] = "fill input" => At(Destination(w), "input.bin") = Cut(w)
     /\ pc[w] \in {"create manifest", "fill manifest", "written", "returned"} =>
          HasWhole(w, "input.bin")
     /\ pc[w] = "fill manifest" => At(Destination(w), "manifest.json") = Cut(w)
     /\ pc[w] \in {"written", "returned"} => HasWhole(w, "manifest.json")
     /\ pc[w] = "unlink manifest" => Has(w, "manifest.json")
     /\ pc[w] \in {"clean input", "unlink input", "clean directory", "raised"} =>
          ~Has(w, "manifest.json")
     /\ pc[w] = "unlink input" => Has(w, "input.bin")
     /\ pc[w] \in {"clean directory", "raised"} => ~Has(w, "input.bin")

\* A pass has still to come to a directory, or is at it.
Chosen(p, n) == \E item \in pass[p].eligible : item.name = n
Doomed(p, n) == \E item \in pass[p].doomed : item.name = n
Ahead(p, n) ==
  \/ pc[p] = "start" \/ n \in pass[p].todo
  \/ pc[p] \in Loading \cup {"unlink"} /\ path[p] = n
  \/ pc[p] \in Loading \cup {"next"} /\ Chosen(p, n)
  \/ Doomed(p, n)
Pending(n) == \E p \in Pass \cap DOMAIN call : Ahead(p, n)

\* Whoever is inside a directory made it, and is alone; but for a writer that has written all
\* and whose directory a pass removed.
Displaced(w) == pc[w] = "written" /\ w \in validated /\ ~Pending(Destination(w))
Owned(n) ==
  \A w \in Writer :
    Within(w, n) =>
      \/ Displaced(w)
      \/ Belongs(n, w) /\ \A v \in Writer \ {w} : Within(v, n) => Displaced(v)
DirectoriesAreOwned == \A n \in Name : Owned(n) \/ (Betrayed(n) /\ ~Pending(n))

\* The lists of a pass.
Listed(p) ==
  /\ DOMAIN pass[p] = DOMAIN Idle /\ pass[p].doomed \subseteq pass[p].eligible
  /\ pass[p].entries \subseteq Members
  /\ \A item \in pass[p].eligible : item.name \in Name
  /\ \A i, j \in pass[p].eligible : i.name = j.name => i = j
  /\ pc[p] = "start" => pass[p] = Idle
  /\ pc[p] \in Loading \cup {"next"} =>
       pass[p].doomed = {} /\ \A n \in pass[p].todo : ~Chosen(p, n)
  /\ pc[p] \in Loading => path[p] \in Name \ pass[p].todo /\ ~Chosen(p, path[p])
  /\ pc[p] \notin Loading \cup {"next"} => pass[p].todo = {}
  /\ pc[p] = "unlink" => path[p] \in Name /\ Chosen(p, path[p]) /\ ~Doomed(p, path[p])

Gone(n, v) == v \in Writer /\ Destination(v) = n /\ pc[v] = "raised"

\* What a pass holds of the bundle it reads is there, or its writer cleaned it up.
Sight(p) ==
  LET n == path[p]
      b == loaded[p].manifest.by
  IN  pc[p] \in {"stat input", "read input", "stat manifest"} =>
        \/ Gone(n, b)
        \/ /\ Exists(n) /\ At(n, "manifest.json") \in {Absent, loaded[p].manifest}
           /\ pc[p] = "stat manifest" => At(n, "input.bin") \in {Absent, loaded[p].input}
           /\ \A w \in Writer : Within(w, n) => w = b /\ pc[w] \notin Making

\* What a pass accepted and has not removed yet is what is there, or its writer cleaned it up.
Accounted(n) ==
  \/ \E v \in validated : Gone(n, v)
  \/ /\ Exists(n) /\ \A m \in Members : At(n, m) # Absent => At(n, m).by \in validated
     /\ \A w \in Writer : Within(w, n) => w \in validated /\ pc[w] \notin Making
Vouched(p) == \A n \in Name : Chosen(p, n) /\ Ahead(p, n) => Accounted(n)

CInv ==
  /\ FilesHaveTheirWriters /\ DirectoriesAreOwned /\ RemovesOnlyWhatItAccepted
  /\ \A w \in Writer \cap DOMAIN call : Conduct(w)
  /\ \A p \in Pass \cap DOMAIN call : Listed(p) /\ Sight(p) /\ Vouched(p)

\* The files of a writer are never Absent, and nobody's files are Absent.
LEMMA WritersFiles ==
  /\ Absent.by \notin Writer /\ Absent.state = "absent"
  /\ \A w : Cut(w).by = w /\ Cut(w).state = "cut" /\ Cut(w) # Absent
  /\ \A w, c : Whole(w, c).by = w /\ Whole(w, c).state = "whole" /\ Whole(w, c) # Absent
BY ProcessesAssumption DEF Absent, Cut, Whole

LEMMA Putting ==
  ASSUME IInv, NEW n \in Name, NEW m \in Members, NEW file, Exists(n), Put(n, m, file)
  PROVE  /\ \A q \in Name : Exists(q)' <=> Exists(q)
         /\ \A q \in Name \ {n} : \A k \in Members : At(q, k)' = At(q, k)
         /\ \A k \in Members \ {m} : At(n, k)' = At(n, k)
         /\ At(n, m)' = file
<1>1. DOMAIN directory = Name /\ DOMAIN directory[n] = Members
  BY DEF IInv, Kept, BundlesAreTrusted
<1>2. /\ directory'[n] = [directory[n] EXCEPT ![m] = file]
      /\ \A q \in Name : q # n => directory'[q] = directory[q]
  BY <1>1 DEF Put
<1>3. DOMAIN directory'[n] = Members /\ DOMAIN NoDirectory = {} /\ Members # {}
  BY <1>1, <1>2 DEF NoDirectory, Members
<1>4. directory'[n] # NoDirectory
  BY <1>3
<1> QED
  BY <1>1, <1>2, <1>4 DEF At, Exists

LEMMA Dropping ==
  ASSUME IInv, NEW n \in Name, Drop(n)
  PROVE  /\ \A q \in Name \ {n} : Exists(q)' <=> Exists(q)
         /\ \A q \in Name \ {n} : \A k \in Members : At(q, k)' = At(q, k)
         /\ ~Exists(n)' /\ \A k \in Members : At(n, k)' = Absent
<1>1. DOMAIN directory = Name
  BY DEF IInv, Kept
<1>2. /\ directory'[n] = NoDirectory
      /\ \A q \in Name : q # n => directory'[q] = directory[q]
  BY <1>1 DEF Drop
<1> QED
  BY <1>2 DEF At, Exists

LEMMA MakingOne ==
  ASSUME IInv, NEW n \in Name, ~Exists(n),
         directory' = [directory EXCEPT ![n] = [m \in Members |-> Absent]]
  PROVE  /\ \A q \in Name \ {n} : Exists(q)' <=> Exists(q)
         /\ \A q \in Name : \A k \in Members : At(q, k)' = At(q, k)
         /\ Exists(n)' /\ \A k \in Members : At(n, k)' = Absent
<1>1. DOMAIN directory = Name
  BY DEF IInv, Kept
<1> DEFINE made == [m \in Members |-> Absent]
<1>2. /\ directory'[n] = made
      /\ \A q \in Name : q # n => directory'[q] = directory[q]
  BY <1>1
<1>3. DOMAIN made = Members /\ DOMAIN NoDirectory = {} /\ Members # {}
      /\ \A k \in Members : made[k] = Absent
  BY DEF NoDirectory, Members
<1> HIDE DEF made
<1>4. made # NoDirectory
  BY <1>3
<1> QED
  BY <1>2, <1>3, <1>4 DEF At, Exists

----------------------------------------------------------------------------
(* What a step of a writer does: where it goes, and what becomes of its    *)
(* directory.                                                              *)
Follows(w) ==
  /\ pc[w] \notin {"absent", "returned", "raised", "killed"}
  /\ pc'[w] = "written" => pc[w] = "fill manifest"
  /\ pc[w] = "written" => pc'[w] \in {"clean manifest", "returned", "killed"}
  /\ pc[w] \in Leaving => pc'[w] \in Leaving \cup {"raised", "killed"}
  /\ pc'[w] \in Making => pc[w] \in Making \cup {"make"}
  /\ pc'[w] \in Inside => pc[w] \in Inside \cup {"make"}
  /\ pc[w] \in Inside => pc'[w] \in Inside \cup {"returned", "raised", "killed"}
Stays(w) ==
  /\ UNCHANGED directory
  /\ pc'[w] \in Inside => pc[w] \in Inside
Makes(w) ==
  LET n == Destination(w)
  IN  /\ ~Exists(n) /\ directory' = [directory EXCEPT ![n] = [m \in Members |-> Absent]]
      /\ pc[w] = "make" /\ pc'[w] = "create input"
Puts(w) ==
  \E m, file :
    /\ m \in Members /\ Exists(Destination(w)) /\ Put(Destination(w), m, file)
    /\ pc[w] \in Making \cup Leaving /\ pc'[w] \in Inside
    /\ \/ file = Absent
       \/ file.by = w /\ file.state = "cut" /\ pc[w] \in Making
       \/ /\ file.by = w /\ file.state = "whole" /\ pc[w] \in Making
          /\ m = "manifest.json" => pc'[w] = "written"
Drops(w) ==
  LET n == Destination(w)
  IN  /\ Exists(n) /\ Empty(n) /\ Drop(n) /\ pc[w] = "clean directory" /\ pc'[w] = "raised"
Acts(w) ==
  /\ UnchangedByWriter /\ \A q \in Process : q # w => pc'[q] = pc[q]
  /\ Follows(w) /\ (Stays(w) \/ Makes(w) \/ Puts(w) \/ Drops(w))

LEMMA WritersAct ==
  ASSUME IInv, NEW w \in Writer, Write(w)
  PROVE  Acts(w) /\ w \in DOMAIN call /\ Destination(w) \in Name
<1>1. w \in Process /\ Kept
  BY DEF Process, IInv
<1>2. w \in DOMAIN call /\ Destination(w) \in Name
  <2>1. pc[w] # "absent"
    BY StepNames DEF Write, RejectCaptured, Reduce, Reevaluate, CheckDestination, MakeDirectory,
       ReturnBundle, WriteFails, CleanDirectory, Kill, CreateFile, FillFile, LookBeforeUnlink,
       UnlinkOwn, Members
  <2> QED
    BY <1>1, <2>1, ScenariosAssumption DEF Kept, Destination
<1>3. ASSUME NEW label, GoTo(w, label)
      PROVE  pc'[w] = label /\ \A q \in Process : q # w => pc'[q] = pc[q]
  BY <1>1, <1>3, Moves DEF Kept
<1>4. UnchangedByWriter
  BY DEF Write, RejectCaptured, Reduce, Reevaluate, CheckDestination, MakeDirectory,
     ReturnBundle, WriteFails, CleanDirectory, Kill, CreateFile, FillFile, LookBeforeUnlink,
     UnlinkOwn
<1> USE StepNames DEF Follows, Making, Leaving, Inside, Members
<1>5. CASE RejectCaptured(w)
  <2>1. GoTo(w, "raised") /\ UNCHANGED directory
    BY <1>5 DEF RejectCaptured, root, Raise
  <2>2. pc[w] = "start"
    BY <1>5 DEF RejectCaptured
  <2>3. pc'[w] = "raised" /\ \A q \in Process : q # w => pc'[q] = pc[q]
    BY <1>3, <2>1
  <2> QED
    BY <1>2, <1>4, <2>1, <2>2, <2>3 DEF Acts, Stays
<1>6. CASE Reduce(w)
  <2>1. PICK label \in {"raised", "write"} : GoTo(w, label)
    BY <1>6 DEF Reduce, Raise
  <2>2. pc'[w] = label /\ pc[w] = "start" /\ UNCHANGED directory
    BY <1>3, <1>6, <2>1 DEF Reduce, root
  <2> QED
    BY <1>2, <1>3, <1>4, <2>1, <2>2 DEF Acts, Stays
<1>7. CASE Reevaluate(w)
  <2>1. PICK label \in {"raised", "check"} : GoTo(w, label)
    BY <1>7 DEF Reevaluate, Raise
  <2>2. pc'[w] = label /\ pc[w] \in {"start", "write"} /\ UNCHANGED directory
    BY <1>3, <1>7, <2>1 DEF Reevaluate, root
  <2> QED
    BY <1>2, <1>3, <1>4, <2>1, <2>2 DEF Acts, Stays
<1>8. CASE CheckDestination(w)
  <2>1. PICK label \in {"raised", "make"} : GoTo(w, label)
    BY <1>8 DEF CheckDestination, Raise
  <2>2. pc'[w] = label /\ pc[w] = "check" /\ UNCHANGED directory
    BY <1>3, <1>8, <2>1 DEF CheckDestination, root
  <2> QED
    BY <1>2, <1>3, <1>4, <2>1, <2>2 DEF Acts, Stays
<1>9. CASE MakeDirectory(w)
  <2>1. CASE Exists(Destination(w))
    <3>1. pc[w] = "make" /\ Raise(w) /\ UNCHANGED directory
      BY <1>9, <2>1 DEF MakeDirectory
    <3>2. pc'[w] = "raised" /\ \A q \in Process : q # w => pc'[q] = pc[q]
      BY <1>3, <3>1 DEF Raise
    <3> QED
      BY <1>2, <1>4, <3>1, <3>2 DEF Acts, Stays
  <2>2. CASE ~Exists(Destination(w))
    BY <1>2, <1>3, <1>4, <1>9, <2>2 DEF MakeDirectory, Acts, Makes
  <2> QED
    BY <2>1, <2>2
<1>10. ASSUME NEW m \in Members, CreateFile(w, m)
       PROVE  Acts(w)
  <2>1. CASE Exists(Destination(w))
    <3>1. Put(Destination(w), m, Cut(w)) /\ pc[w] = Create[m] /\ pc'[w] = Fill[m]
      BY <1>3, <1>10, <2>1 DEF CreateFile
    <3>2. Cut(w).by = w /\ Cut(w).state = "cut" /\ pc[w] \in Making /\ pc'[w] \in Inside
      BY <3>1 DEF Cut
    <3>3. Puts(w)
      BY <2>1, <3>1, <3>2 DEF Puts
    <3> QED
      BY <1>3, <1>4, <1>10, <2>1, <3>1, <3>3 DEF CreateFile, Acts
  <2>2. CASE ~Exists(Destination(w))
    BY <1>3, <1>4, <1>10, <2>2 DEF CreateFile, Acts, Stays
  <2> QED
    BY <2>1, <2>2
<1>11. ASSUME NEW m \in Members, FillFile(w, m)
       PROVE  Acts(w)
  <2>1. PICK label \in {"create manifest", "written"} :
          /\ GoTo(w, label) /\ label = IF m = "input.bin" THEN "create manifest" ELSE "written"
    BY <1>11 DEF FillFile
  <2>2. pc[w] = Fill[m] /\ pc'[w] = label /\ \A q \in Process : q # w => pc'[q] = pc[q]
    BY <1>3, <1>11, <2>1 DEF FillFile
  <2>3. CASE UNCHANGED directory
    BY <1>4, <2>1, <2>2, <2>3 DEF Acts, Stays
  <2>4. CASE directory' # directory
    <3>1. Exists(Destination(w)) /\ Put(Destination(w), m, Whole(w, Contents(w, m)))
      BY <1>11, <2>4 DEF FillFile
    <3> DEFINE file == Whole(w, Contents(w, m))
    <3>2. file.by = w /\ file.state = "whole"
      BY DEF Whole
    <3>3. pc[w] \in Making /\ pc'[w] \in Inside /\ (m = "manifest.json" => pc'[w] = "written")
      BY <2>1, <2>2
    <3> HIDE DEF file
    <3>4. Put(Destination(w), m, file)
      BY <3>1 DEF file
    <3>5. Puts(w)
      BY <3>1, <3>2, <3>3, <3>4 DEF Puts
    <3> QED
      BY <1>4, <2>1, <2>2, <3>5 DEF Acts
  <2> QED
    BY <2>3, <2>4
<1>12. CASE ReturnBundle(w)
  <2>1. GoTo(w, "returned") /\ UNCHANGED directory
    BY <1>12 DEF ReturnBundle, root, Raise
  <2>2. pc[w] = "written"
    BY <1>12 DEF ReturnBundle
  <2>3. pc'[w] = "returned" /\ \A q \in Process : q # w => pc'[q] = pc[q]
    BY <1>3, <2>1
  <2> QED
    BY <1>2, <1>4, <2>1, <2>2, <2>3 DEF Acts, Stays
<1>13. CASE WriteFails(w)
  <2>1. GoTo(w, "clean manifest") /\ UNCHANGED directory
    BY <1>13 DEF WriteFails, root, Raise
  <2>2. pc[w] \in Making \cup {"written"}
    BY <1>13 DEF WriteFails
  <2>3. pc'[w] = "clean manifest" /\ \A q \in Process : q # w => pc'[q] = pc[q]
    BY <1>3, <2>1
  <2> QED
    BY <1>2, <1>4, <2>1, <2>2, <2>3 DEF Acts, Stays
<1>14. ASSUME NEW m \in Members, LookBeforeUnlink(w, m)
       PROVE  Acts(w)
  <2>1. PICK label \in {"unlink manifest", "unlink input", "clean input", "clean directory"} :
          GoTo(w, label)
    BY <1>14 DEF LookBeforeUnlink, AfterCleaning
  <2>2. pc'[w] = label /\ pc[w] = Clean[m] /\ UNCHANGED directory
    BY <1>3, <1>14, <2>1 DEF LookBeforeUnlink, root
  <2> QED
    BY <1>2, <1>3, <1>4, <2>1, <2>2 DEF Acts, Stays
<1>15. ASSUME NEW m \in Members, UnlinkOwn(w, m)
       PROVE  Acts(w)
  <2>1. pc[w] = Unlink[m]
    BY <1>15 DEF UnlinkOwn
  <2>2. CASE Exists(Destination(w)) /\ directory[Destination(w)][m] # Absent
    <3>1. PICK label \in {"clean input", "clean directory"} : GoTo(w, label)
      BY <1>15, <2>2 DEF UnlinkOwn, AfterCleaning
    <3>2. Put(Destination(w), m, Absent) /\ pc'[w] = label
      BY <1>3, <1>15, <2>2, <3>1 DEF UnlinkOwn
    <3>3. Puts(w)
      BY <2>1, <2>2, <3>1, <3>2 DEF Puts
    <3> QED
      BY <1>3, <1>4, <2>1, <3>1, <3>2, <3>3 DEF Acts
  <2>3. CASE ~(Exists(Destination(w)) /\ directory[Destination(w)][m] # Absent)
    <3>1. Raise(w) /\ UNCHANGED directory
      BY <1>15, <2>3 DEF UnlinkOwn
    <3>2. pc'[w] = "raised" /\ \A q \in Process : q # w => pc'[q] = pc[q]
      BY <1>3, <3>1 DEF Raise
    <3> QED
      BY <1>4, <2>1, <3>1, <3>2 DEF Acts, Stays
  <2> QED
    BY <2>2, <2>3
<1>16. CASE CleanDirectory(w)
  <2>1. pc[w] = "clean directory" /\ pc'[w] = "raised"
        /\ \A q \in Process : q # w => pc'[q] = pc[q]
    BY <1>3, <1>16 DEF CleanDirectory, Raise
  <2>2. Stays(w) \/ Drops(w)
    BY <1>16, <2>1 DEF CleanDirectory, Stays, Drops
  <2> QED
    <3>1. Follows(w)
      BY <2>1
    <3> QED
      BY <1>2, <1>4, <2>1, <2>2, <3>1 DEF Acts
<1>17. CASE Kill(w)
  <2>1. GoTo(w, "killed") /\ UNCHANGED directory
    BY <1>17 DEF Kill, root, Raise
  <2>2. pc[w] \notin {"start", "write", "check", "make", "returned", "raised", "killed", "absent"}
    BY <1>17 DEF Kill
  <2>3. pc'[w] = "killed" /\ \A q \in Process : q # w => pc'[q] = pc[q]
    BY <1>3, <2>1
  <2> QED
    BY <1>2, <1>4, <2>1, <2>2, <2>3 DEF Acts, Stays
<1> QED
  BY <1>2, <1>5, <1>6, <1>7, <1>8, <1>9, <1>10, <1>11, <1>12, <1>13, <1>14, <1>15, <1>16, <1>17
     DEF Write

\* The same, told of the files under each name.
Untouched(q) == (Exists(q)' <=> Exists(q)) /\ \A k \in Members : At(q, k)' = At(q, k)
Sees(w, n) ==
  /\ \A q \in Name \ {n} : Untouched(q)
  /\ \/ Untouched(n) /\ (pc'[w] \in Inside => pc[w] \in Inside)
     \/ /\ ~Exists(n) /\ Exists(n)' /\ \A k \in Members : At(n, k)' = Absent
        /\ pc[w] = "make" /\ pc'[w] = "create input"
     \/ /\ Exists(n) /\ Exists(n)' /\ pc[w] \in Making \cup Leaving /\ pc'[w] \in Inside
        /\ \A k \in Members :
             \/ At(n, k)' = At(n, k) \/ At(n, k)' = Absent
             \/ /\ At(n, k)'.by = w /\ pc[w] \in Making
                /\ \/ At(n, k)'.state = "cut"
                   \/ /\ At(n, k)'.state = "whole"
                      /\ k = "manifest.json" => pc'[w] = "written"
     \/ /\ ~Exists(n)' /\ \A k \in Members : At(n, k)' = Absent /\ At(n, k).state = "absent"
        /\ pc[w] = "clean directory" /\ pc'[w] = "raised"
WriterSteps(w) ==
  /\ w \in DOMAIN call
  /\ UNCHANGED <<call, path, loaded, pass, validated, removed>>
  /\ \A q \in Process : q # w => pc'[q] = pc[q]
  /\ Follows(w) /\ \E n \in Name : Destination(w) = n /\ Sees(w, n)

LEMMA WritersStep ==
  ASSUME IInv, NEW w \in Writer, Write(w)
  PROVE  WriterSteps(w)
<1>1. Acts(w) /\ w \in DOMAIN call /\ Destination(w) \in Name
  BY WritersAct
<1>0. PICK n \in Name : n = Destination(w)
  BY <1>1
<1>2. UNCHANGED <<call, path, loaded, pass, validated, removed>>
  BY <1>1 DEF Acts, UnchangedByWriter, reading, history
<1>3. Sees(w, n)
  <2>1. CASE Stays(w)
    <3>1. UNCHANGED directory /\ (pc'[w] \in Inside => pc[w] \in Inside)
      BY <2>1 DEF Stays
    <3>2. \A q : Untouched(q)
      BY <3>1 DEF Untouched, At, Exists
    <3> QED
      BY <1>0, <3>1, <3>2 DEF Sees
  <2>2. CASE Makes(w)
    <3>1. /\ ~Exists(n) /\ directory' = [directory EXCEPT ![n] = [m \in Members |-> Absent]]
          /\ pc[w] = "make" /\ pc'[w] = "create input"
      BY <1>0, <2>2 DEF Makes
    <3>2. /\ \A q \in Name \ {n} : Untouched(q)
          /\ Exists(n)' /\ \A k \in Members : At(n, k)' = Absent
      BY <1>1, <3>1, MakingOne DEF Untouched
    <3> QED
      BY <1>0, <3>1, <3>2 DEF Sees
  <2>3. CASE Puts(w)
    <3>1. PICK m, file :
            /\ m \in Members /\ Exists(n) /\ Put(n, m, file)
            /\ pc[w] \in Making \cup Leaving /\ pc'[w] \in Inside
            /\ \/ file = Absent
               \/ file.by = w /\ file.state = "cut" /\ pc[w] \in Making
               \/ /\ file.by = w /\ file.state = "whole" /\ pc[w] \in Making
                  /\ m = "manifest.json" => pc'[w] = "written"
      BY <1>0, <2>3 DEF Puts
    <3>2. /\ \A q \in Name \ {n} : Untouched(q)
          /\ Exists(n)' /\ \A k \in Members \ {m} : At(n, k)' = At(n, k)
          /\ At(n, m)' = file
      BY <1>1, <3>1, Putting DEF Untouched
    <3> QED
      BY <1>0, <3>1, <3>2 DEF Sees
  <2>4. CASE Drops(w)
    <3>1. /\ Exists(n) /\ Empty(n) /\ Drop(n) /\ pc[w] = "clean directory" /\ pc'[w] = "raised"
      BY <1>0, <2>4 DEF Drops
    <3>2. \A k \in Members : At(n, k).state = "absent"
      BY <3>1 DEF Empty, Files, At
    <3>3. /\ \A q \in Name \ {n} : Untouched(q)
          /\ ~Exists(n)' /\ \A k \in Members : At(n, k)' = Absent
      BY <1>1, <3>1, Dropping DEF Untouched
    <3> QED
      BY <1>0, <3>1, <3>2, <3>3 DEF Sees
  <2> QED
    BY <1>1, <2>1, <2>2, <2>3, <2>4 DEF Acts
<1> QED
  BY <1>0, <1>1, <1>2, <1>3 DEF Acts, WriterSteps

LEMMA WritersLeavePasses ==
  ASSUME NEW w \in Writer, WriterSteps(w)
  PROVE  /\ \A p \in Pass : pc'[p] = pc[p]
         /\ \A v \in Writer : v # w => pc'[v] = pc[v]
         /\ \A v : Destination(v)' = Destination(v)
         /\ \A n : Pending(n)' <=> Pending(n)
<1>1. \A p \in Pass : p # w /\ p \in Process
  BY ProcessesAssumption DEF Reader, Process
<1>2. \A v \in Writer : v \in Process
  BY DEF Process
<1>3. UNCHANGED <<call, path, pass>> /\ \A p \in Pass : pc'[p] = pc[p]
  BY <1>1 DEF WriterSteps
<1>4. ASSUME NEW n, NEW p \in Pass PROVE Ahead(p, n)' <=> Ahead(p, n)
  BY <1>3 DEF Ahead, Chosen, Doomed
<1>5. \A n : Pending(n)' <=> Pending(n)
  BY <1>3, <1>4 DEF Pending
<1> QED
  BY <1>2, <1>3, <1>5 DEF WriterSteps, Destination

LEMMA WritersStayBetrayed ==
  ASSUME NEW w \in Writer, WriterSteps(w)
  PROVE  /\ \A n : Betrayed(n) => Betrayed(n)'
         /\ w \in validated /\ pc[w] = "written" /\ pc'[w] # "returned"
              => \A n : Destination(w) = n => Betrayed(n)'
         /\ \A n, v : Gone(n, v) => Gone(n, v)'
<1>1. UNCHANGED validated /\ Follows(w)
  BY DEF WriterSteps
<1> DEFINE Failed == Leaving \cup {"raised", "killed"}
<1>2. \A v \in Writer : pc[v] \in Failed => pc'[v] \in Failed
  BY <1>1, WritersLeavePasses DEF Follows
<1>3. \A v \in Writer : pc[v] = "raised" => pc'[v] = "raised"
  BY <1>1, WritersLeavePasses DEF Follows
<1>4. pc[w] = "written" /\ pc'[w] # "returned" => pc'[w] \in Failed
  BY <1>1 DEF Follows, Leaving
<1>5. \A n : Betrayed(n) => Betrayed(n)'
  <2> HIDE DEF Failed
  <2>1. ASSUME NEW n, Betrayed(n) PROVE Betrayed(n)'
    <3>1. PICK v \in Writer \cap validated : Destination(v) = n /\ pc[v] \in Failed
      BY <2>1 DEF Betrayed, Failed
    <3>2. Destination(v)' = n /\ pc'[v] \in Failed /\ v \in validated'
      BY <1>1, <1>2, <3>1, WritersLeavePasses
    <3> QED
      BY <3>2 DEF Betrayed, Failed
  <2> QED
    BY <2>1
<1>6. ASSUME w \in validated, pc[w] = "written", pc'[w] # "returned", NEW n, Destination(w) = n
      PROVE  Betrayed(n)'
  BY <1>1, <1>4, <1>6, WritersLeavePasses DEF Betrayed
<1> QED
  BY <1>3, <1>5, <1>6, WritersLeavePasses DEF Gone

LEMMA WritersKeepFiles ==
  ASSUME FilesHaveTheirWriters, NEW w \in Writer, WriterSteps(w)
  PROVE  FilesHaveTheirWriters'
<1>1. PICK n \in Name : Destination(w) = n /\ Sees(w, n)
  BY DEF WriterSteps
<1>2. Follows(w)
  BY DEF WriterSteps
<1> SUFFICES ASSUME NEW q \in Name, NEW m \in Members, NEW v \in Writer, At(q, m)'.by = v
             PROVE  /\ Destination(v)' = q /\ At(q, m)'.state \in {"cut", "whole"}
                    /\ pc'[v] \in Inside \cup {"returned", "raised", "killed"}
                    /\ m = "manifest.json" /\ At(q, m)'.state = "whole" => pc'[v] \notin Making
  BY DEF FilesHaveTheirWriters
<1>3. CASE At(q, m)' = At(q, m)
  <2>1. /\ Destination(v) = q /\ At(q, m).state \in {"cut", "whole"}
        /\ pc[v] \in Inside \cup {"returned", "raised", "killed"}
        /\ m = "manifest.json" /\ At(q, m).state = "whole" => pc[v] \notin Making
    BY <1>3 DEF FilesHaveTheirWriters
  <2>2. CASE v # w
    BY <1>3, <2>1, <2>2, WritersLeavePasses
  <2>3. CASE v = w
    <3>1. pc'[w] \in Inside \cup {"returned", "raised", "killed"}
      BY <1>2, <2>1, <2>3 DEF Follows
    <3>2. pc[w] # "make"
      BY <2>1, <2>3 DEF Inside, Making, Leaving
    <3>3. m = "manifest.json" /\ At(q, m).state = "whole" => pc'[w] \notin Making
      BY <1>2, <2>1, <2>3, <3>2 DEF Follows
    <3> QED
      BY <1>3, <2>1, <2>3, <3>1, <3>3, WritersLeavePasses
  <2> QED
    BY <2>2, <2>3
<1>4. CASE At(q, m)' # At(q, m)
  <2>1. q = n
    BY <1>1, <1>4 DEF Sees, Untouched
  <2>2. At(n, m)' # Absent
    BY <2>1, WritersFiles
  <2>3. /\ At(n, m)'.by = w /\ pc'[w] \in Inside
        /\ \/ At(n, m)'.state = "cut"
           \/ At(n, m)'.state = "whole" /\ (m = "manifest.json" => pc'[w] = "written")
    BY <1>1, <1>4, <2>1, <2>2 DEF Sees, Untouched
  <2>4. "written" \notin Making
    BY DEF Making
  <2> QED
    BY <1>1, <2>1, <2>3, <2>4, WritersLeavePasses
<1> QED
  BY <1>3, <1>4

\* Who is inside a directory after a step of a writer was so before, or made it.
LEMMA WritersEnter ==
  ASSUME NEW w \in Writer, WriterSteps(w), NEW v \in Writer, NEW q, Within(v, q)'
  PROVE  /\ Destination(v) = q
         /\ Within(v, q) \/ (v = w /\ pc[w] = "make" /\ pc'[w] = "create input")
         /\ v # w => pc'[v] = pc[v]
<1>1. PICK n \in Name : Destination(w) = n /\ Sees(w, n)
  BY DEF WriterSteps
<1>2. Destination(v) = q /\ pc'[v] \in Inside /\ (v # w => pc'[v] = pc[v])
  BY WritersLeavePasses DEF Within
<1>3. v = w => pc[w] \in Inside \/ (pc[w] = "make" /\ pc'[w] = "create input")
  BY <1>1, <1>2 DEF Sees, Inside, Making, Leaving
<1> QED
  BY <1>2, <1>3 DEF Within

LEMMA WritersKeepOwners ==
  ASSUME DirectoriesAreOwned, NEW w \in Writer, WriterSteps(w)
  PROVE  DirectoriesAreOwned'
<1>1. PICK n \in Name : Destination(w) = n /\ Sees(w, n)
  BY DEF WriterSteps
<1>2. Follows(w) /\ UNCHANGED validated
  BY DEF WriterSteps
<1> SUFFICES ASSUME NEW q \in Name, ~(Betrayed(q)' /\ ~Pending(q)') PROVE Owned(q)'
  BY DEF DirectoriesAreOwned
<1>3. Owned(q)
  BY WritersStayBetrayed, WritersLeavePasses DEF DirectoriesAreOwned
\* A displaced writer stays so: its failure would be a betrayal.
<1>4. ASSUME NEW v \in Writer, Within(v, q)', Displaced(v)
      PROVE  Displaced(v)'
  <2>1. Destination(v) = q /\ pc'[v] # "returned"
    BY <1>4, WritersEnter DEF Within, Inside, Making, Leaving
  <2>2. ~Pending(q) /\ ~Pending(q)'
    BY <1>4, <2>1, WritersLeavePasses DEF Displaced
  <2>3. v # w
    BY <1>4, <2>1, <2>2, WritersStayBetrayed DEF Displaced
  <2>4. pc'[v] = "written" /\ v \in validated' /\ Destination(v)' = q
    BY <1>2, <1>4, <2>1, <2>3, WritersLeavePasses DEF Displaced
  <2>5. ~Pending(Destination(v))'
    BY <2>1, <2>2, WritersLeavePasses DEF Destination, WriterSteps
  <2> QED
    BY <2>4, <2>5 DEF Displaced
<1>5. ASSUME NEW v \in Writer, Within(v, q)', ~Displaced(v)'
      PROVE  Belongs(q, v)' /\ \A u \in Writer \ {v} : Within(u, q)' => Displaced(u)'
  <2>1. ~Displaced(v)
    BY <1>4, <1>5
  <2>2. CASE v = w /\ pc[w] = "make" /\ pc'[w] = "create input"
    <3>1. q = n /\ ~Exists(n) /\ Exists(n)' /\ \A k \in Members : At(n, k)' = Absent
      BY <1>1, <1>5, <2>2, WritersEnter DEF Sees, Inside, Making, Leaving
    <3>2. ASSUME NEW u \in Writer \ {v}, Within(u, q)' PROVE Displaced(u)'
      <4>1. Within(u, q)
        BY <2>2, <3>2, WritersEnter
      <4>2. Displaced(u)
        BY <1>3, <3>1, <4>1 DEF Owned, Belongs
      <4> QED
        BY <1>4, <3>2, <4>2
    <3> QED
      BY <3>1, <3>2 DEF Belongs
  <2>3. CASE Within(v, q)
    <3>1. Belongs(q, v) /\ \A u \in Writer \ {v} : Within(u, q) => Displaced(u)
      BY <1>3, <2>1, <2>3 DEF Owned
    <3>2. ASSUME NEW u \in Writer \ {v}, Within(u, q)' PROVE Displaced(u)'
      <4>1. Within(u, q)
        <5>1. CASE u = w /\ pc[w] = "make" /\ pc'[w] = "create input"
          <6>1. q = n
            BY <1>1, <3>2, <5>1, WritersEnter
          <6> QED
            BY <1>1, <3>1, <5>1, <6>1 DEF Sees, Belongs, Inside, Making, Leaving
        <5> QED
          BY <3>2, <5>1, WritersEnter
      <4> QED
        BY <1>4, <3>1, <3>2, <4>1
    <3>3. Belongs(q, v)'
      <4>1. CASE Untouched(q)
        BY <3>1, <4>1 DEF Belongs, Untouched
      <4>2. CASE ~Untouched(q)
        <5>1. q = n
          BY <1>1, <4>2 DEF Sees
        <5>2. v = w
          <6>1. pc[w] \in Making \cup Leaving \/ pc[w] = "make"
            BY <1>1, <4>2, <5>1 DEF Sees, Leaving
          <6>2. pc[w] # "make"
            BY <1>1, <3>1, <4>2, <5>1 DEF Sees, Belongs, Leaving, Making
          <6>3. Within(w, q) /\ ~Displaced(w)
            BY <1>1, <5>1, <6>1, <6>2 DEF Within, Displaced, Inside, Making, Leaving
          <6> QED
            BY <3>1, <6>3
        <5>3. pc'[w] # "raised"
          BY <1>5, <5>2 DEF Within, Inside, Making, Leaving
        <5>4. /\ Exists(n)'
              /\ \A k \in Members : \/ At(n, k)' = At(n, k) \/ At(n, k)' = Absent
                                    \/ At(n, k)'.by = w
          BY <1>1, <3>1, <4>2, <5>1, <5>3 DEF Sees, Belongs
        <5> QED
          BY <3>1, <5>1, <5>2, <5>4 DEF Belongs
      <4> QED
        BY <4>1, <4>2
    <3> QED
      BY <3>2, <3>3
  <2> QED
    BY <1>5, <2>2, <2>3, WritersEnter
<1> QED
  BY <1>5 DEF Owned

\* What a writer is held to by how far it is.
Table(w, n) ==
  /\ pc[w] = "fill input" => At(n, "input.bin") = Cut(w)
  /\ pc[w] \in {"create manifest", "fill manifest", "written", "returned"} =>
       At(n, "input.bin").by = w /\ At(n, "input.bin").state = "whole"
  /\ pc[w] = "fill manifest" => At(n, "manifest.json") = Cut(w)
  /\ pc[w] \in {"written", "returned"} =>
       At(n, "manifest.json").by = w /\ At(n, "manifest.json").state = "whole"
  /\ pc[w] = "unlink manifest" => At(n, "manifest.json").by = w
  /\ pc[w] \in {"clean input", "unlink input", "clean directory", "raised"} =>
       At(n, "manifest.json").by # w
  /\ pc[w] = "unlink input" => At(n, "input.bin").by = w
  /\ pc[w] \in {"clean directory", "raised"} => At(n, "input.bin").by # w

LEMMA Tables ==
  ASSUME NEW w, NEW n, Destination(w) = n
  PROVE  Conduct(w) <=> w \in removed \/ Betrayed(n) \/ Table(w, n)
BY DEF Conduct, Table, Has, HasWhole

LEMMA ConductStays ==
  ASSUME NEW w \in Writer, NEW n, Destination(w) = n, UNCHANGED call, Conduct(w),
         pc'[w] = pc[w], w \in removed => w \in removed', Betrayed(n) => Betrayed(n)',
         \A k \in Members : \/ w \in removed' \/ Betrayed(n)' \/ At(n, k)' = At(n, k)
                            \/ At(n, k).by # w /\ At(n, k)'.by # w
  PROVE  Conduct(w)'
<1>1. Destination(w)' = n /\ "input.bin" \in Members /\ "manifest.json" \in Members
  BY DEF Destination, Members
<1>2. CASE w \in removed' \/ Betrayed(n)'
  BY <1>1, <1>2 DEF Conduct
<1>3. CASE ~(w \in removed' \/ Betrayed(n)')
  <2>1. Table(w, n)
    BY <1>3, Tables
  <2>2. \A k \in Members : \/ At(n, k)' = At(n, k)
                           \/ At(n, k).by # w /\ At(n, k)'.by # w
    BY <1>3
  <2>3. Cut(w).by = w
    BY WritersFiles
  <2>4. Table(w, n)'
    BY <1>1, <2>1, <2>2, <2>3 DEF Table
  <2> QED
    BY <1>1, <2>4 DEF Conduct, Table, Has, HasWhole
<1> QED
  BY <1>2, <1>3

\* A writer that acts on its directory has it to itself.
LEMMA OwnersActAlone ==
  ASSUME DirectoriesAreOwned, NEW w \in Writer, NEW n \in Name, Within(w, n),
         pc[w] # "written", ~Betrayed(n)
  PROVE  Belongs(n, w)
BY DEF DirectoriesAreOwned, Owned, Displaced

LEMMA OthersConduct ==
  ASSUME FilesHaveTheirWriters, DirectoriesAreOwned, NEW w \in Writer, WriterSteps(w),
         NEW v \in Writer, v # w, Destination(v) \in Name, Conduct(v)
  PROVE  Conduct(v)'
<1>1. PICK n \in Name : Destination(w) = n /\ Sees(w, n)
  BY DEF WriterSteps
<1>2. PICK d \in Name : Destination(v) = d
  OBVIOUS
<1>3. ASSUME NEW k \in Members, At(d, k)' # At(d, k), ~Betrayed(d)
      PROVE  At(d, k).by # v /\ At(d, k)'.by # v
  <2>1. d = n /\ ~Untouched(n)
    BY <1>1, <1>3 DEF Sees, Untouched
  <2>2. Absent.by # v /\ Absent.state = "absent"
    BY WritersFiles
  <2>3. CASE ~Exists(n)
    BY <1>1, <2>1, <2>2, <2>3 DEF Sees, At, Making, Leaving
  <2>4. CASE ~Exists(n)'
    <3>1. At(n, k)' = Absent /\ At(n, k).state = "absent"
      BY <1>1, <2>1, <2>4 DEF Sees
    <3>2. At(n, k).by # v
      BY <3>1 DEF FilesHaveTheirWriters
    <3> QED
      BY <2>1, <2>2, <3>1, <3>2
  <2>5. CASE Exists(n) /\ Exists(n)'
    <3>1. /\ pc[w] \in Making \cup Leaving
          /\ At(n, k)' = At(n, k) \/ At(n, k)' = Absent \/ At(n, k)'.by = w
      BY <1>1, <2>1, <2>5 DEF Sees
    <3>2. Belongs(n, w)
      BY <1>1, <1>3, <2>1, <3>1, OwnersActAlone DEF Within, Inside, Making, Leaving
    <3> QED
      BY <1>3, <2>1, <2>2, <3>1, <3>2 DEF Belongs
  <2> QED
    BY <2>3, <2>4, <2>5
<1>4. /\ pc'[v] = pc[v] /\ (Betrayed(d) => Betrayed(d)') /\ UNCHANGED <<call, removed>>
  BY WritersLeavePasses, WritersStayBetrayed DEF WriterSteps
<1>5. \A k \in Members : \/ Betrayed(d)' \/ At(d, k)' = At(d, k)
                         \/ At(d, k).by # v /\ At(d, k)'.by # v
  BY <1>3, <1>4
<1> QED
  BY <1>2, <1>4, <1>5, ConductStays

\* What a writer finds of its own before it starts: nothing.
LEMMA NothingYet ==
  ASSUME FilesHaveTheirWriters, NEW w \in Writer, NEW n \in Name, NEW k \in Members,
         pc[w] \in {"start", "write", "check", "make"}
  PROVE  At(n, k).by # w
BY DEF FilesHaveTheirWriters, Inside, Making, Leaving

LEMMA OwnConduct ==
  ASSUME IInv, FilesHaveTheirWriters, DirectoriesAreOwned, NEW w \in Writer, Write(w), Conduct(w)
  PROVE  Conduct(w)'
<1>1. WriterSteps(w)
  BY WritersStep
<1>2. PICK n \in Name : Destination(w) = n /\ Sees(w, n)
  BY <1>1 DEF WriterSteps
<1>3. /\ Destination(w)' = n /\ UNCHANGED <<call, removed>>
      /\ Betrayed(n) => Betrayed(n)'
  BY <1>1, <1>2, WritersLeavePasses, WritersStayBetrayed DEF WriterSteps
<1>4. SUFFICES ASSUME w \notin removed, ~Betrayed(n) PROVE Table(w, n)'
  <2>1. CASE w \in removed \/ Betrayed(n)
    BY <1>3, <2>1 DEF Conduct
  <2> QED
    BY <1>3, <2>1 DEF Conduct, Table, Has, HasWhole
<1>5. Table(w, n)
  BY <1>2, <1>4, Tables
<1>6. ASSUME NEW label, GoTo(w, label) PROVE pc'[w] = label
  BY <1>6, Moves DEF IInv, Kept, Process
<1>7. /\ Absent.by # w /\ Absent # Cut(w) /\ Cut(w).by = w
      /\ "input.bin" \in Members /\ "manifest.json" \in Members
  BY WritersFiles DEF Members
<1>8. ASSUME UNCHANGED directory
      PROVE  \A k \in Members : At(n, k)' = At(n, k)
  BY <1>8 DEF At, Exists
\* Where nothing is asked.
<1>9. ASSUME pc'[w] \in {"write", "check", "make", "create input", "clean manifest", "killed"}
      PROVE  Table(w, n)'
  BY <1>9 DEF Table
<1>10. ASSUME UNCHANGED directory, pc[w] \in {"start", "write", "check", "make"}, pc'[w] = "raised"
       PROVE  Table(w, n)'
  BY <1>7, <1>8, <1>10, NothingYet DEF Table
<1>11. CASE RejectCaptured(w)
  <2>1. GoTo(w, "raised") /\ UNCHANGED directory /\ pc[w] = "start"
    BY <1>11 DEF RejectCaptured, Raise, root
  <2> QED
    BY <1>6, <1>10, <2>1
<1>12. CASE Reduce(w) \/ Reevaluate(w) \/ CheckDestination(w)
  <2>1. PICK label \in {"raised", "write", "check", "make"} : GoTo(w, label)
    BY <1>12 DEF Reduce, Reevaluate, CheckDestination, Raise
  <2>2. UNCHANGED directory /\ pc[w] \in {"start", "write", "check"}
    BY <1>12 DEF Reduce, Reevaluate, CheckDestination, root
  <2> QED
    BY <1>6, <1>9, <1>10, <2>1, <2>2
<1>13. CASE MakeDirectory(w)
  <2>1. pc[w] = "make" /\ (GoTo(w, "create input") \/ (GoTo(w, "raised") /\ UNCHANGED directory))
    BY <1>13, StepNames DEF MakeDirectory, Raise
  <2> QED
    BY <1>6, <1>9, <1>10, <2>1
<1>14. CASE ReturnBundle(w)
  <2>1. GoTo(w, "returned") /\ UNCHANGED directory /\ pc[w] = "written"
    BY <1>14 DEF ReturnBundle, root
  <2>2. pc'[w] = "returned" /\ \A k \in Members : At(n, k)' = At(n, k)
    BY <1>6, <1>8, <2>1
  <2> QED
    BY <1>5, <1>7, <2>1, <2>2 DEF Table
<1>15. CASE WriteFails(w) \/ Kill(w)
  <2>1. GoTo(w, "clean manifest") \/ GoTo(w, "killed")
    BY <1>15, StepNames DEF WriteFails, Kill
  <2> QED
    BY <1>6, <1>9, <2>1
<1>16. ASSUME NEW m \in Members, CreateFile(w, m)
       PROVE  Table(w, n)'
  <2>1. CASE ~Exists(n)
    <3>1. GoTo(w, "clean manifest")
      BY <1>2, <1>16, <2>1, StepNames DEF CreateFile
    <3> QED
      BY <1>6, <1>9, <3>1
  <2>2. CASE Exists(n)
    <3>1. Put(n, m, Cut(w)) /\ pc[w] = Create[m] /\ GoTo(w, Fill[m])
      BY <1>2, <1>16, <2>2 DEF CreateFile
    <3>2. At(n, m)' = Cut(w) /\ \A k \in Members \ {m} : At(n, k)' = At(n, k)
      BY <2>2, <3>1, Putting
    <3>3. PICK label : label = Fill[m] /\ pc'[w] = label
      BY <1>6, <3>1
    <3> QED
      BY <1>5, <1>7, <3>1, <3>2, <3>3, StepNames DEF Table, Members
  <2> QED
    BY <2>1, <2>2
<1>17. ASSUME NEW m \in Members, FillFile(w, m)
       PROVE  Table(w, n)'
  <2>1. pc[w] = Fill[m] /\ At(n, m) = Cut(w)
    BY <1>5, <1>17, StepNames DEF FillFile, Table, Members
  <2>2. Exists(n) /\ directory[n][m] = Cut(w)
    BY <1>7, <2>1 DEF At
  <2>3. PICK file : file = Whole(w, Contents(w, m)) /\ Put(n, m, file)
    BY <1>2, <1>17, <2>2 DEF FillFile
  <2>4. At(n, m)' = file /\ \A k \in Members \ {m} : At(n, k)' = At(n, k)
    BY <2>2, <2>3, Putting
  <2>5. file.by = w /\ file.state = "whole"
    BY <2>3 DEF Whole
  <2>6. PICK label : /\ label = IF m = "input.bin" THEN "create manifest" ELSE "written"
                     /\ GoTo(w, label)
    BY <1>17, StepNames DEF FillFile
  <2>7. pc'[w] = label
    BY <1>6, <2>6
  <2> QED
    BY <1>5, <1>7, <2>1, <2>4, <2>5, <2>6, <2>7, StepNames DEF Table, Members
<1>18. ASSUME NEW m \in Members, LookBeforeUnlink(w, m)
       PROVE  Table(w, n)'
  <2>1. /\ pc[w] = Clean[m] /\ UNCHANGED directory
        /\ GoTo(w, IF At(n, m) # Absent THEN Unlink[m] ELSE AfterCleaning(m))
    BY <1>2, <1>18 DEF LookBeforeUnlink, root, At
  <2>2. PICK label : /\ label = IF At(n, m) # Absent THEN Unlink[m] ELSE AfterCleaning(m)
                     /\ pc'[w] = label
    BY <1>6, <2>1
  <2>3. At(n, m) # Absent => At(n, m).by = w
    <3>1. Within(w, n) /\ pc[w] # "written"
      BY <1>2, <2>1, StepNames DEF Within, Inside, Leaving, Members
    <3> QED
      BY <1>4, <3>1, OwnersActAlone DEF Belongs
  <2>4. \A k \in Members : At(n, k)' = At(n, k)
    BY <1>8, <2>1
  <2> QED
    BY <1>5, <1>7, <2>1, <2>2, <2>3, <2>4, StepNames DEF Table, Members, AfterCleaning
<1>19. ASSUME NEW m \in Members, UnlinkOwn(w, m)
       PROVE  Table(w, n)'
  <2>1. pc[w] = Unlink[m] /\ At(n, m).by = w
    BY <1>5, <1>19, StepNames DEF UnlinkOwn, Table, Members
  <2>2. Exists(n) /\ directory[n][m] # Absent
    BY <1>7, <2>1 DEF At
  <2>3. Put(n, m, Absent) /\ GoTo(w, AfterCleaning(m))
    BY <1>2, <1>19, <2>2 DEF UnlinkOwn
  <2>4. At(n, m)' = Absent /\ \A k \in Members \ {m} : At(n, k)' = At(n, k)
    BY <2>2, <2>3, Putting
  <2>5. PICK label : label = AfterCleaning(m) /\ pc'[w] = label
    BY <1>6, <2>3
  <2> QED
    BY <1>5, <1>7, <2>1, <2>4, <2>5, StepNames DEF Table, Members, AfterCleaning
<1>20. CASE CleanDirectory(w)
  <2>1. pc[w] = "clean directory" /\ pc'[w] = "raised"
    BY <1>6, <1>20 DEF CleanDirectory, Raise
  <2>2. \A k \in Members : At(n, k)' = At(n, k) \/ At(n, k)' = Absent
    <3>1. CASE UNCHANGED directory
      BY <1>8, <3>1
    <3>2. CASE directory' # directory
      <4>1. Drop(n)
        BY <1>2, <1>20, <3>2 DEF CleanDirectory
      <4> QED
        BY <4>1, Dropping
    <3> QED
      BY <3>1, <3>2
  <2> QED
    BY <1>5, <1>7, <2>1, <2>2 DEF Table
<1> QED
  BY <1>11, <1>12, <1>13, <1>14, <1>15, <1>16, <1>17, <1>18, <1>19, <1>20 DEF Write

\* While nobody writes in a directory that is there, a writer's step leaves what is in it or
\* unlinks it, and lets nobody in; or the writer is the one inside, and cleaned it up.
LEMMA WritersLeaveFinished ==
  ASSUME NEW w \in Writer, WriterSteps(w), NEW n \in Name, Exists(n),
         \A v \in Writer : Within(v, n) => pc[v] \notin Making
  PROVE  \/ Within(w, n) /\ pc'[w] = "raised"
         \/ /\ Exists(n)' /\ \A k \in Members : At(n, k)' = At(n, k) \/ At(n, k)' = Absent
            /\ \A v \in Writer : Within(v, n)' => Within(v, n) /\ pc'[v] \notin Making
<1>1. PICK d \in Name : Destination(w) = d /\ Sees(w, d)
  BY DEF WriterSteps
<1>2. Follows(w)
  BY DEF WriterSteps
<1>3. ASSUME NEW v \in Writer, Within(v, n)', ~(v = w /\ ~Exists(d))
      PROVE  Within(v, n) /\ pc'[v] \notin Making
  <2>1. Within(v, n) \/ (v = w /\ pc[w] = "make" /\ pc'[w] = "create input")
    BY <1>3, WritersEnter
  <2>2. v = w => pc[w] # "make"
    <3>1. v = w => d = n
      BY <1>1, <1>3, WritersEnter
    <3> QED
      BY <1>1, <1>3, <3>1 DEF Sees, Within, Inside, Making, Leaving, Untouched
  <2>3. pc'[v] \notin Making
    BY <1>2, <1>3, <2>1, <2>2, WritersEnter DEF Follows
  <2> QED
    BY <2>1, <2>2, <2>3
<1>4. CASE d # n
  <2>1. Untouched(n)
    BY <1>1, <1>4 DEF Sees
  <2>2. \A v \in Writer : Within(v, n)' => v # w
    BY <1>1, <1>4, WritersEnter
  <2> QED
    BY <1>3, <2>1, <2>2 DEF Untouched
<1>5. CASE d = n /\ Untouched(n)
  BY <1>3, <1>5 DEF Untouched
<1>6. CASE d = n /\ ~Untouched(n)
  <2>1. Within(w, n)
    BY <1>1, <1>6 DEF Sees, Within, Inside, Leaving
  <2>2. pc[w] \notin Making
    BY <2>1
  <2>3. CASE pc'[w] = "raised"
    BY <2>1, <2>3
  <2>4. CASE pc'[w] # "raised"
    <3>1. Exists(n)' /\ \A k \in Members : At(n, k)' = At(n, k) \/ At(n, k)' = Absent
      BY <1>1, <1>6, <2>2, <2>4 DEF Sees
    <3> QED
      BY <1>3, <1>6, <3>1
  <2> QED
    BY <2>3, <2>4
<1> QED
  BY <1>4, <1>5, <1>6

LEMMA WritersKeepSight ==
  ASSUME NEW w \in Writer, WriterSteps(w), NEW p \in Pass, Sight(p), Listed(p)
  PROVE  Sight(p)'
<1>1. PICK n, manifest, input, b :
        n = path[p] /\ manifest = loaded[p].manifest /\ input = loaded[p].input /\ b = manifest.by
  OBVIOUS
<1>2. UNCHANGED <<path, loaded>> /\ pc'[p] = pc[p]
  BY WritersLeavePasses DEF WriterSteps
<1> SUFFICES ASSUME pc[p] \in {"stat input", "read input", "stat manifest"}, ~Gone(n, b)'
             PROVE  /\ Exists(n)' /\ At(n, "manifest.json")' \in {Absent, manifest}
                    /\ pc[p] = "stat manifest" => At(n, "input.bin")' \in {Absent, input}
                    /\ \A v \in Writer : Within(v, n)' => v = b /\ pc'[v] \notin Making
  BY <1>1, <1>2 DEF Sight
<1>3. n \in Name
  BY <1>1 DEF Listed, Loading
<1>4. ~Gone(n, b)
  BY WritersStayBetrayed
<1>5. /\ Exists(n) /\ At(n, "manifest.json") \in {Absent, manifest}
      /\ pc[p] = "stat manifest" => At(n, "input.bin") \in {Absent, input}
      /\ \A v \in Writer : Within(v, n) => v = b /\ pc[v] \notin Making
  BY <1>1, <1>4 DEF Sight
<1>6. CASE Within(w, n) /\ pc'[w] = "raised"
  BY <1>5, <1>6, WritersLeavePasses DEF Gone, Within
<1>7. CASE /\ Exists(n)' /\ \A k \in Members : At(n, k)' = At(n, k) \/ At(n, k)' = Absent
           /\ \A v \in Writer : Within(v, n)' => Within(v, n) /\ pc'[v] \notin Making
  BY <1>5, <1>7 DEF Members
<1> QED
  BY <1>3, <1>5, <1>6, <1>7, WritersLeaveFinished

LEMMA WritersKeepAccounts ==
  ASSUME NEW w \in Writer, WriterSteps(w), NEW n \in Name, Accounted(n)
  PROVE  Accounted(n)'
<1>1. UNCHANGED validated
  BY DEF WriterSteps
<1>2. CASE \E v \in validated : Gone(n, v)
  BY <1>1, <1>2, WritersStayBetrayed DEF Accounted
<1>3. CASE /\ Exists(n) /\ \A m \in Members : At(n, m) # Absent => At(n, m).by \in validated
           /\ \A v \in Writer : Within(v, n) => v \in validated /\ pc[v] \notin Making
  <2>1. CASE Within(w, n) /\ pc'[w] = "raised"
    BY <1>1, <1>3, <2>1, WritersLeavePasses DEF Accounted, Gone, Within
  <2>2. CASE /\ Exists(n)' /\ \A k \in Members : At(n, k)' = At(n, k) \/ At(n, k)' = Absent
             /\ \A v \in Writer : Within(v, n)' => Within(v, n) /\ pc'[v] \notin Making
    BY <1>1, <1>3, <2>2 DEF Accounted
  <2> QED
    BY <1>3, <2>1, <2>2, WritersLeaveFinished
<1> QED
  BY <1>2, <1>3 DEF Accounted

LEMMA WritersKeepCustody ==
  ASSUME IInv, CInv, NEW w \in Writer, Write(w)
  PROVE  CInv'
<1>1. WriterSteps(w)
  BY WritersStep
<1>2. UNCHANGED <<call, path, pass, validated, removed>> /\ call \in Scenarios
  BY <1>1 DEF WriterSteps, IInv, Kept
<1>3. FilesHaveTheirWriters' /\ DirectoriesAreOwned'
  BY <1>1, WritersKeepFiles, WritersKeepOwners DEF CInv
<1>4. RemovesOnlyWhatItAccepted'
  <2>1. \A v \in Writer : pc[v] \in {"raised", "killed"} => pc'[v] = pc[v]
    BY <1>1, WritersLeavePasses DEF WriterSteps, Follows
  <2> QED
    BY <1>2, <2>1 DEF CInv, RemovesOnlyWhatItAccepted
<1>5. ASSUME NEW v \in Writer \cap DOMAIN call PROVE Conduct(v)'
  <2>1. Destination(v) \in Name
    BY <1>2, ScenariosAssumption DEF Destination
  <2> QED
    BY <1>1, <2>1, OwnConduct, OthersConduct DEF CInv
<1>6. ASSUME NEW p \in Pass \cap DOMAIN call PROVE Listed(p)' /\ Sight(p)' /\ Vouched(p)'
  <2>1. pc'[p] = pc[p]
    BY <1>1, WritersLeavePasses
  <2>2. Listed(p) /\ Sight(p) /\ Vouched(p)
    BY DEF CInv
  <2>3. Listed(p)'
    BY <1>2, <2>1, <2>2 DEF Listed, Chosen, Doomed
  <2>4. \A n : (Chosen(p, n) /\ Ahead(p, n))' => Chosen(p, n) /\ Ahead(p, n)
    BY <1>2, <2>1 DEF Chosen, Ahead, Doomed
  <2>5. Vouched(p)'
    BY <1>1, <2>2, <2>4, WritersKeepAccounts DEF Vouched
  <2> QED
    BY <1>1, <2>2, <2>3, <2>5, WritersKeepSight
<1> QED
  BY <1>2, <1>3, <1>4, <1>5, <1>6 DEF CInv

(***************************************************************************)
(* A step of the pass: where it goes, and what becomes of its lists.       *)
(***************************************************************************)
Shrinks(p) == \A n \in Name : Ahead(p, n)' => Ahead(p, n)

LEMMA PassMoves ==
  ASSUME IInv, NEW p \in Pass, pc[p] # "absent"
  PROVE  /\ p \in DOMAIN call /\ p \in DOMAIN pass /\ p \in DOMAIN path /\ p \notin Replayer
         /\ \A label : GoTo(p, label) => pc'[p] = label /\ \A v \in Writer : pc'[v] = pc[v]
<1>1. p \in Process /\ p \in Reader /\ p \notin Replayer /\ DOMAIN pc = Process
      /\ \A v \in Writer : v # p /\ v \in Process
  BY ProcessesAssumption DEF Process, Reader, IInv, Kept
<1>2. p \in DOMAIN call /\ p \in DOMAIN pass /\ p \in DOMAIN path
  BY <1>1 DEF IInv, Kept
<1> QED
  BY <1>1, <1>2 DEF GoTo

LEMMA ListsStay ==
  ASSUME IInv, NEW p \in Pass, Listed(p), Retain(p) \/ Load(p)
  PROVE  Listed(p)' /\ Shrinks(p)
<1>1. pc[p] # "absent"
  <2>1. CASE Load(p)
    BY <2>1 DEF Load, ListMembers, ReadManifest, StatInput, ReadInput
  <2>2. CASE Retain(p)
    BY <2>2 DEF Retain, StartPass, NextChild, StatManifest, Choose, ListDoomed, UnlinkDoomed,
       RemoveDoomed, EndPass, KillPass
  <2> QED
    BY <2>1, <2>2
<1>2. p \in DOMAIN call /\ p \in DOMAIN pass /\ p \in DOMAIN path /\ p \notin Replayer
  BY <1>1, PassMoves
<1>3. ASSUME NEW label, GoTo(p, label) PROVE pc'[p] = label
  BY <1>1, <1>3, PassMoves
<1>4. /\ DOMAIN pass[p] = {"todo", "eligible", "doomed", "entries"}
      /\ DOMAIN Idle = {"todo", "eligible", "doomed", "entries"}
  BY DEF Listed, Idle
<1>5. pass[p].todo \subseteq Name /\ pass[p].entries \subseteq Members
  BY <1>2 DEF IInv, Kept, Listed
<1> USE DEF Loading
\* Steps that leave the lists alone, and go on, give up or end.
<1>6. ASSUME NEW label, pc'[p] = label, path'[p] = path[p], DOMAIN pass'[p] = DOMAIN pass[p],
             pass'[p].todo = pass[p].todo, pass'[p].eligible = pass[p].eligible,
             pass'[p].doomed = pass[p].doomed, pass'[p].entries \subseteq Members,
             \/ pc[p] \in Loading /\ label \in Loading \cup {"next"}
             \/ /\ pc[p] \in {"remove", "unlink"}
                /\ label \in {"remove", "returned", "raised", "killed"}
             \/ pc[p] = "unlink" /\ label = "unlink"
      PROVE  Listed(p)' /\ Shrinks(p)
  BY <1>4, <1>6 DEF Listed, Chosen, Doomed, Shrinks, Ahead
<1>7. CASE Load(p)
  <2>1. /\ pc[p] \in Loading /\ UNCHANGED <<path, pass>>
        /\ \E label \in Loading \cup {"next"} : GoTo(p, label)
    BY <1>2, <1>7 DEF Load, ListMembers, ReadManifest, StatInput, ReadInput, Read, Reject,
       UnchangedByLoading, reading
  <2> QED
    BY <1>3, <1>5, <1>6, <2>1
<1>8. CASE StartPass(p)
  <2>1. PICK S : S = {n \in Name : Exists(n)}
    OBVIOUS
  <2>2. /\ pc[p] = "start" /\ pass' = [pass EXCEPT ![p].todo = S] /\ GoTo(p, "next")
    BY <1>8, <2>1 DEF StartPass
  <2>3. pass[p].eligible = {} /\ pass[p].doomed = {}
    BY <2>2 DEF Listed, Idle
  <2>4. /\ DOMAIN pass'[p] = DOMAIN pass[p] /\ pass'[p].eligible = {} /\ pass'[p].doomed = {}
        /\ pc'[p] = "next" /\ pass'[p].entries = pass[p].entries
    BY <1>2, <1>3, <1>4, <2>2, <2>3
  <2> QED
    BY <1>4, <1>5, <2>2, <2>4 DEF Listed, Chosen, Doomed, Shrinks, Ahead
<1>9. CASE NextChild(p)
  <2>1. PICK n \in pass[p].todo : /\ path' = [path EXCEPT ![p] = n]
                                  /\ pass' = [pass EXCEPT ![p].todo = @ \ {n}]
    BY <1>9 DEF NextChild
  <2>2. pc[p] = "next" /\ pc'[p] = "list" /\ n \in Name /\ path'[p] = n
    BY <1>2, <1>3, <1>5, <1>9, <2>1 DEF NextChild
  <2>3. /\ DOMAIN pass'[p] = DOMAIN pass[p] /\ pass'[p].todo = pass[p].todo \ {n}
        /\ pass'[p].eligible = pass[p].eligible /\ pass'[p].doomed = pass[p].doomed
        /\ pass'[p].entries = pass[p].entries
    BY <1>2, <1>4, <2>1
  <2> QED
    BY <1>4, <1>5, <2>2, <2>3 DEF Listed, Chosen, Doomed, Shrinks, Ahead
<1>10. CASE StatManifest(p)
  <2>1. pc[p] = "stat manifest" /\ pc'[p] = "next" /\ UNCHANGED path
    BY <1>3, <1>10 DEF StatManifest, reading
  <2>2. CASE pass' = pass
    BY <1>5, <1>6, <2>1, <2>2
  <2>3. CASE pass' # pass
    <3>1. PICK item : /\ item.name = path[p]
                      /\ pass' = [pass EXCEPT ![p].eligible = @ \cup {item}]
      <4> DEFINE item == [mtime |-> mtime[path[p]], name |-> path[p],
                          metadata |-> Declared(p).metadata]
      <4>1. item.name = path[p]
        OBVIOUS
      <4>2. pass' = [pass EXCEPT ![p].eligible = @ \cup {item}]
        BY <1>10, <2>3 DEF StatManifest
      <4> HIDE DEF item
      <4> QED
        BY <4>1, <4>2
    <3>2. /\ DOMAIN pass'[p] = DOMAIN pass[p] /\ pass'[p].todo = pass[p].todo
          /\ pass'[p].eligible = pass[p].eligible \cup {item} /\ pass'[p].doomed = pass[p].doomed
          /\ pass'[p].entries = pass[p].entries
      BY <1>2, <1>4, <3>1
    <3>3. PICK n : n = path[p]
      OBVIOUS
    <3>4. /\ n \in Name \ pass[p].todo /\ ~Chosen(p, n) /\ pass[p].doomed = {}
          /\ pc'[p] = "next" /\ path'[p] = n
      BY <2>1, <3>3 DEF Listed
    <3>5. \A q : Chosen(p, q)' <=> Chosen(p, q) \/ q = n
      BY <3>1, <3>2, <3>3 DEF Chosen
    <3>6. \A i, j \in pass'[p].eligible : i.name = j.name => i = j
      <4>1. \A i, j \in pass[p].eligible : i.name = j.name => i = j
        BY DEF Listed
      <4>2. \A i \in pass[p].eligible : i.name # n
        BY <3>4 DEF Chosen
      <4>3. item.name = n
        BY <3>1, <3>3
      <4> QED
        BY <3>2, <4>1, <4>2, <4>3
    <3>7. \A i \in pass'[p].eligible : i.name \in Name
      BY <3>1, <3>2, <3>3, <3>4 DEF Listed
    <3>8. \A q \in pass'[p].todo : ~Chosen(p, q)'
      BY <2>1, <3>2, <3>4, <3>5 DEF Listed
    <3>9. Listed(p)'
      BY <1>4, <1>5, <3>2, <3>4, <3>6, <3>7, <3>8 DEF Listed
    <3>10. Shrinks(p)
      BY <2>1, <3>2, <3>3, <3>4, <3>5 DEF Shrinks, Ahead, Doomed
    <3> QED
      BY <3>9, <3>10
  <2> QED
    BY <2>2, <2>3
<1>11. CASE Choose(p)
  <2>1. PICK S : /\ S \subseteq pass[p].eligible /\ pass' = [pass EXCEPT ![p].doomed = S]
    <3> DEFINE S == {item \in Ranked(p) : Cardinality({other \in Ranked(p) : Newer(other, item)})
                                            >= call[p].max_bundles}
    <3>1. S \subseteq pass[p].eligible
      BY DEF Ranked
    <3>2. pass' = [pass EXCEPT ![p].doomed = S]
      BY <1>11 DEF Choose
    <3> HIDE DEF S
    <3> QED
      BY <3>1, <3>2
  <2>2. pc[p] = "next" /\ pass[p].todo = {} /\ pc'[p] = "remove" /\ UNCHANGED path
    BY <1>3, <1>11 DEF Choose, reading
  <2>3. /\ DOMAIN pass'[p] = DOMAIN pass[p] /\ pass'[p].todo = pass[p].todo
        /\ pass'[p].eligible = pass[p].eligible /\ pass'[p].doomed = S
        /\ pass'[p].entries = pass[p].entries
    BY <1>2, <1>4, <2>1
  <2> QED
    BY <1>4, <1>5, <2>1, <2>2, <2>3 DEF Listed, Chosen, Doomed, Shrinks, Ahead
<1>12. CASE ListDoomed(p)
  <2>1. PICK item \in pass[p].doomed :
          /\ path' = [path EXCEPT ![p] = item.name]
          /\ IF Exists(item.name)
             THEN /\ pass' = [pass EXCEPT ![p].doomed = @ \ {item},
                                          ![p].entries = Files(directory[item.name])]
                  /\ GoTo(p, "unlink")
             ELSE Raise(p) /\ UNCHANGED pass
    BY <1>12 DEF ListDoomed
  <2>2. pc[p] = "remove"
    BY <1>12 DEF ListDoomed
  <2>3. CASE Exists(item.name)
    <3>1. PICK files \in SUBSET Members :
            pass' = [pass EXCEPT ![p].doomed = @ \ {item}, ![p].entries = files]
      BY <2>1, <2>3 DEF Files
    <3>2. /\ DOMAIN pass'[p] = DOMAIN pass[p] /\ pass'[p].todo = pass[p].todo
          /\ pass'[p].eligible = pass[p].eligible /\ pass'[p].doomed = pass[p].doomed \ {item}
          /\ pass'[p].entries = files
      BY <1>2, <1>4, <3>1
    <3>3. pc'[p] = "unlink" /\ path'[p] = item.name
      BY <1>2, <1>3, <2>1, <2>3
    <3> QED
      BY <1>4, <2>1, <2>2, <3>2, <3>3 DEF Listed, Chosen, Doomed, Shrinks, Ahead
  <2>4. CASE ~Exists(item.name)
    <3>1. pc'[p] = "raised" /\ pass' = pass
      BY <1>3, <2>1, <2>4 DEF Raise
    <3> QED
      BY <1>4, <1>5, <2>2, <3>1 DEF Listed, Chosen, Doomed, Shrinks, Ahead
  <2> QED
    BY <2>3, <2>4
<1>13. CASE UnlinkDoomed(p)
  <2>1. PICK m : pass' = pass \/ pass' = [pass EXCEPT ![p].entries = @ \ {m}]
    BY <1>13 DEF UnlinkDoomed
  <2>2. /\ DOMAIN pass'[p] = DOMAIN pass[p] /\ pass'[p].todo = pass[p].todo
        /\ pass'[p].eligible = pass[p].eligible /\ pass'[p].doomed = pass[p].doomed
        /\ pass'[p].entries \subseteq Members
    BY <1>2, <1>4, <1>5, <2>1
  <2>3. pc[p] = "unlink" /\ pc'[p] \in {"unlink", "raised"} /\ UNCHANGED path
    BY <1>3, <1>13 DEF UnlinkDoomed, Raise, reading
  <2> QED
    BY <1>6, <2>2, <2>3
<1>14. CASE RemoveDoomed(p)
  <2>1. /\ pc[p] = "unlink" /\ UNCHANGED <<pass, path>>
        /\ GoTo(p, "remove") \/ GoTo(p, "raised")
    BY <1>14 DEF RemoveDoomed, Raise, reading
  <2> QED
    BY <1>3, <1>5, <1>6, <2>1
<1>15. CASE EndPass(p) \/ KillPass(p)
  <2>1. /\ pc[p] \in {"remove", "unlink"} /\ UNCHANGED <<pass, path>>
        /\ GoTo(p, "returned") \/ GoTo(p, "killed")
    BY <1>15 DEF EndPass, KillPass, reading
  <2> QED
    BY <1>3, <1>5, <1>6, <2>1
<1> QED
  BY <1>7, <1>8, <1>9, <1>10, <1>11, <1>12, <1>13, <1>14, <1>15 DEF Retain

(***************************************************************************)
(* A step of a reader moves no writer; what it does to a directory is to   *)
(* take files from it, of which it says so.                                *)
(***************************************************************************)
WritersRest ==
  /\ UNCHANGED call /\ \A v \in Writer : pc'[v] = pc[v]
  /\ validated \subseteq validated' /\ removed \subseteq removed'
Thins(n) == \A k \in Members : At(n, k)' = At(n, k) \/ At(n, k)' = Absent

LEMMA RestingStayBetrayed ==
  ASSUME WritersRest
  PROVE  /\ \A v : Destination(v)' = Destination(v)
         /\ \A n : Betrayed(n) => Betrayed(n)'
         /\ \A n, v : Gone(n, v) => Gone(n, v)'
         /\ \A n : \A v \in Writer : Within(v, n)' <=> Within(v, n)
BY DEF WritersRest, Destination, Betrayed, Gone, Within

LEMMA ThinningKeepsFiles ==
  ASSUME FilesHaveTheirWriters, WritersRest, \A n \in Name : Thins(n)
  PROVE  FilesHaveTheirWriters'
<1> SUFFICES ASSUME NEW q \in Name, NEW m \in Members, NEW v \in Writer, At(q, m)'.by = v
             PROVE  /\ Destination(v)' = q /\ At(q, m)'.state \in {"cut", "whole"}
                    /\ pc'[v] \in Inside \cup {"returned", "raised", "killed"}
                    /\ m = "manifest.json" /\ At(q, m)'.state = "whole" => pc'[v] \notin Making
  BY DEF FilesHaveTheirWriters
<1>1. At(q, m)' = At(q, m)
  BY WritersFiles DEF Thins
<1>2. /\ Destination(v) = q /\ At(q, m).state \in {"cut", "whole"}
      /\ pc[v] \in Inside \cup {"returned", "raised", "killed"}
      /\ m = "manifest.json" /\ At(q, m).state = "whole" => pc[v] \notin Making
  BY <1>1 DEF FilesHaveTheirWriters
<1> QED
  BY <1>1, <1>2, RestingStayBetrayed DEF WritersRest

LEMMA ThinningKeepsConduct ==
  ASSUME FilesHaveTheirWriters, WritersRest, NEW v \in Writer, NEW n \in Name,
         Destination(v) = n, Conduct(v),
         \A k \in Members : \/ At(n, k)' = At(n, k)
                            \/ At(n, k)' = Absent /\ At(n, k).by \in removed'
                            \/ At(n, k)' = Absent /\ At(n, k).state = "absent"
  PROVE  Conduct(v)'
<1>1. \A k \in Members : \/ v \in removed' \/ At(n, k)' = At(n, k)
                         \/ At(n, k).by # v /\ At(n, k)'.by # v
  BY WritersFiles DEF FilesHaveTheirWriters
<1>2. UNCHANGED call /\ pc'[v] = pc[v] /\ (v \in removed => v \in removed')
  BY DEF WritersRest
<1> QED
  BY <1>1, <1>2, ConductStays, RestingStayBetrayed

LEMMA PendingShrinks ==
  ASSUME NEW p \in Pass, \A q \in Pass : q = p, Shrinks(p), UNCHANGED call, NEW n \in Name,
         Pending(n)'
  PROVE  Pending(n)
<1>1. p \in DOMAIN call /\ Ahead(p, n)'
  BY DEF Pending
<1> QED
  BY <1>1 DEF Shrinks, Pending

LEMMA ThinningKeepsOwners ==
  ASSUME DirectoriesAreOwned, WritersRest, NEW p \in Pass, \A q \in Pass : q = p, Shrinks(p),
         NEW n \in Name, Exists(n)' <=> Exists(n), Thins(n), call \in Scenarios
  PROVE  (Owned(n) \/ (Betrayed(n) /\ ~Pending(n)))'
<1>1. UNCHANGED call
  BY DEF WritersRest
<1>2. ~Pending(n) => ~Pending(n)'
  BY <1>1, PendingShrinks
<1>3. CASE Betrayed(n) /\ ~Pending(n)
  BY <1>2, <1>3, RestingStayBetrayed
<1>4. CASE Owned(n)
  <2>1. ASSUME NEW v \in Writer, Within(v, n), Displaced(v) PROVE Displaced(v)'
    <3>1. ~Pending(n) /\ Destination(v) = n /\ Destination(v)' = n
      BY <2>1, RestingStayBetrayed DEF Displaced, Within
    <3>2. ~Pending(n)'
      BY <1>2, <3>1
    <3>3. ~Pending(Destination(v))'
      BY <1>1, <3>1, <3>2 DEF Destination
    <3> QED
      BY <2>1, <3>3 DEF Displaced, WritersRest
  <2>2. ASSUME NEW v \in Writer, Belongs(n, v) PROVE Belongs(n, v)'
    BY <2>2 DEF Belongs, Thins
  <2>3. Owned(n)'
    BY <1>4, <2>1, <2>2, RestingStayBetrayed DEF Owned
  <2> QED
    BY <2>3
<1> QED
  BY <1>3, <1>4 DEF DirectoriesAreOwned

LEMMA ThinningKeepsAccounts ==
  ASSUME WritersRest, NEW n \in Name, Exists(n)' <=> Exists(n), Thins(n), Accounted(n)
  PROVE  Accounted(n)'
<1>1. CASE \E v \in validated : Gone(n, v)
  BY <1>1, RestingStayBetrayed DEF Accounted, WritersRest
<1>2. CASE /\ Exists(n) /\ \A m \in Members : At(n, m) # Absent => At(n, m).by \in validated
           /\ \A w \in Writer : Within(w, n) => w \in validated /\ pc[w] \notin Making
  <2>1. /\ Exists(n)' /\ \A m \in Members : At(n, m)' # Absent => At(n, m)'.by \in validated'
    BY <1>2 DEF Thins, WritersRest
  <2>2. \A w \in Writer : Within(w, n)' => w \in validated' /\ pc'[w] \notin Making
    BY <1>2, RestingStayBetrayed DEF WritersRest
  <2> QED
    BY <2>1, <2>2 DEF Accounted
<1> QED
  BY <1>1, <1>2 DEF Accounted

\* A step that leaves the files alone.
LEMMA LookingKeepsCustody ==
  ASSUME CInv, WritersRest, UNCHANGED <<directory, removed>>, call \in Scenarios,
         NEW p \in Pass, \A q \in Pass : q = p, Shrinks(p),
         p \in DOMAIN call => Listed(p)' /\ Sight(p)' /\ Vouched(p)'
  PROVE  CInv'
<1>1. \A n : (Exists(n)' <=> Exists(n)) /\ \A k : At(n, k)' = At(n, k)
  BY DEF At, Exists
<1>2. \A n : Thins(n)
  BY <1>1 DEF Thins
<1>3. FilesHaveTheirWriters'
  BY <1>2, ThinningKeepsFiles DEF CInv
<1>4. DirectoriesAreOwned'
  BY <1>1, <1>2, ThinningKeepsOwners DEF CInv, DirectoriesAreOwned
<1>5. RemovesOnlyWhatItAccepted'
  BY DEF CInv, RemovesOnlyWhatItAccepted, WritersRest
<1>6. ASSUME NEW v \in Writer \cap DOMAIN call PROVE Conduct(v)'
  <2>1. Destination(v) \in Name
    BY ScenariosAssumption DEF Destination
  <2>2. PICK n \in Name : Destination(v) = n
    BY <2>1
  <2> QED
    BY <1>1, <2>2, ThinningKeepsConduct DEF CInv
<1> QED
  BY <1>3, <1>4, <1>5, <1>6 DEF CInv, WritersRest

LEMMA VouchingStays ==
  ASSUME WritersRest, NEW p \in Pass, Vouched(p), Shrinks(p),
         \A n \in Name : Chosen(p, n)' => Chosen(p, n),
         \A n \in Name : Ahead(p, n)' => (Exists(n)' <=> Exists(n)) /\ Thins(n)
  PROVE  Vouched(p)'
<1> SUFFICES ASSUME NEW n \in Name, Chosen(p, n)', Ahead(p, n)' PROVE Accounted(n)'
  BY DEF Vouched
<1>1. Accounted(n) /\ (Exists(n)' <=> Exists(n)) /\ Thins(n)
  BY DEF Vouched, Shrinks
<1> QED
  BY <1>1, ThinningKeepsAccounts

\* A pass that looks at a directory it has still to come to finds the one inside at home.
LEMMA HeMadeIt ==
  ASSUME CInv, NEW p \in Pass \cap DOMAIN call, NEW n \in Name, Ahead(p, n),
         NEW w \in Writer, Within(w, n)
  PROVE  Belongs(n, w) /\ ~Displaced(w)
<1>1. Pending(n) /\ Destination(w) = n
  BY DEF Pending, Within
<1>2. ~Displaced(w)
  BY <1>1 DEF Displaced
<1>3. Owned(n)
  BY <1>1 DEF CInv, DirectoriesAreOwned
<1> QED
  BY <1>2, <1>3 DEF Owned

LEMMA ReadingKeepsCustody ==
  ASSUME IInv, CInv, NEW p \in Pass, \A q \in Pass : q = p, Load(p)
  PROVE  CInv'
<1>1. pc[p] # "absent" /\ pc[p] \in Loading \cup {"start"}
  BY DEF Load, ListMembers, ReadManifest, StatInput, ReadInput, Loading
<1>2. p \in DOMAIN call /\ p \in DOMAIN loaded /\ p \notin Replayer /\ call \in Scenarios
      /\ DOMAIN loaded[p] = {"manifest", "input"}
  BY <1>1, PassMoves DEF IInv, Kept, Reader
<1>3. UNCHANGED <<directory, call, path, pass, validated, removed>>
  BY DEF Load, ListMembers, ReadManifest, StatInput, ReadInput, UnchangedByLoading, reading,
     root, history
<1>4. Listed(p) /\ Sight(p) /\ Vouched(p)
  BY <1>2 DEF CInv
<1>5. Listed(p)' /\ Shrinks(p)
  BY <1>4, ListsStay
<1>6. PICK label \in {"read manifest", "stat input", "read input", "stat manifest", "next"} :
        GoTo(p, label)
  BY <1>2 DEF Load, ListMembers, ReadManifest, StatInput, ReadInput, Read, Reject
<1>7. pc'[p] = label /\ WritersRest
  BY <1>1, <1>3, <1>6, PassMoves DEF WritersRest
<1>8. \A n : (Exists(n)' <=> Exists(n)) /\ \A k : At(n, k)' = At(n, k)
  BY <1>3 DEF At, Exists
<1>9. Vouched(p)'
  <2>1. \A n : Chosen(p, n)' => Chosen(p, n)
    BY <1>3 DEF Chosen
  <2>2. \A n : Thins(n)
    BY <1>8 DEF Thins
  <2> QED
    BY <1>4, <1>5, <1>7, <1>8, <2>1, <2>2, VouchingStays
<1>10. Sight(p)'
  <2>1. PICK n : n = path[p] /\ path'[p] = n
    BY <1>3
  <2>2. /\ File(p, "manifest.json") = At(n, "manifest.json")
        /\ File(p, "input.bin") = At(n, "input.bin")
    BY <2>1 DEF File, At
  <2>3. \A v \in Writer : Within(v, n)' <=> Within(v, n) /\ pc'[v] = pc[v]
    BY <1>7, RestingStayBetrayed DEF WritersRest
  <2>4. \A b : Gone(n, b) => Gone(n, b)'
    BY <1>7, RestingStayBetrayed
  <2>5. CASE ReadManifest(p) /\ label = "stat input"
    <3>0. PICK file : file = File(p, "manifest.json")
      OBVIOUS
    <3>1. pc[p] = "read manifest" /\ ManifestMatches(At(n, "manifest.json"))
      <4>1. pc[p] = "read manifest" /\ Read(p, ManifestMatches(file), "stat input")
        BY <2>5, <3>0 DEF ReadManifest
      <4>2. ~ManifestMatches(file) => pc'[p] = "next"
        <5>1. ~ManifestMatches(file) => GoTo(p, "next")
          BY <1>2, <4>1 DEF Read, Reject
        <5> QED
          BY <1>1, <5>1, PassMoves
      <4>3. ManifestMatches(file)
        BY <1>7, <2>5, <4>2
      <4> QED
        BY <2>2, <3>0, <4>1, <4>3
    <3>2. loaded'[p].manifest = At(n, "manifest.json")
      BY <1>2, <2>2, <2>5 DEF ReadManifest
    <3>3. n \in Name /\ Ahead(p, n)
      BY <1>4, <2>1, <3>1 DEF Listed, Ahead, Loading
    <3>4. At(n, "manifest.json").state = "whole"
      BY <3>1 DEF ManifestMatches
    <3>5. Exists(n) /\ At(n, "manifest.json") # Absent
      BY <3>4, WritersFiles DEF At
    <3>6. ASSUME NEW v \in Writer, Within(v, n)
          PROVE  At(n, "manifest.json").by = v /\ pc[v] \notin Making
      <4>1. At(n, "manifest.json").by = v
        BY <1>2, <3>3, <3>5, <3>6, HeMadeIt DEF Belongs, Members
      <4> QED
        BY <3>3, <3>4, <4>1 DEF CInv, FilesHaveTheirWriters, Members
    <3> QED
      BY <1>7, <1>8, <2>1, <2>3, <2>5, <3>2, <3>5, <3>6 DEF Sight
  <2>6. CASE StatInput(p) /\ label = "read input"
    <3>1. pc[p] = "stat input" /\ UNCHANGED loaded
      BY <2>6 DEF StatInput, reading
    <3> QED
      BY <1>4, <1>7, <1>8, <2>1, <2>3, <2>4, <2>6, <3>1 DEF Sight
  <2>7. CASE ReadInput(p) /\ label = "stat manifest"
    <3>1. /\ pc[p] = "read input" /\ loaded'[p].manifest = loaded[p].manifest
          /\ loaded'[p].input = At(n, "input.bin")
      BY <1>2, <2>2, <2>7 DEF ReadInput
    <3> QED
      BY <1>4, <1>7, <1>8, <2>1, <2>3, <2>4, <2>7, <3>1 DEF Sight
  <2>8. CASE label \in {"read manifest", "next"}
    BY <1>7, <2>8 DEF Sight
  <2> QED
    <3>1. ListMembers(p) => pc'[p] \in {"read manifest", "next"}
      BY <1>1, <1>2, PassMoves DEF ListMembers, Read, Reject
    <3>2. ReadManifest(p) => pc'[p] \in {"stat input", "next"}
      BY <1>1, <1>2, PassMoves DEF ReadManifest, Read, Reject
    <3>3. StatInput(p) => pc'[p] \in {"read input", "next"}
      BY <1>1, <1>2, PassMoves DEF StatInput, Read, Reject
    <3>4. ReadInput(p) => pc'[p] \in {"stat manifest", "next"}
      BY <1>1, <1>2, PassMoves DEF ReadInput, Read, Reject
    <3> QED
      BY <1>7, <2>5, <2>6, <2>7, <2>8, <3>1, <3>2, <3>3, <3>4 DEF Load
<1> QED
  BY <1>2, <1>3, <1>5, <1>7, <1>9, <1>10, LookingKeepsCustody

LEMMA PassesRest ==
  ASSUME IInv, NEW p \in Pass, Retain(p)
  PROVE  /\ p \in DOMAIN call /\ p \in DOMAIN pass /\ p \in DOMAIN path /\ call \in Scenarios
         /\ UNCHANGED <<call, loaded>> /\ \A v \in Writer : pc'[v] = pc[v]
         /\ \A label : GoTo(p, label) => pc'[p] = label
<1>1. pc[p] # "absent"
  BY DEF Retain, StartPass, NextChild, StatManifest, Choose, ListDoomed, UnlinkDoomed,
     RemoveDoomed, EndPass, KillPass
<1>2. UNCHANGED <<call, loaded>>
  BY DEF Retain, StartPass, NextChild, StatManifest, Choose, ListDoomed, UnlinkDoomed,
     RemoveDoomed, EndPass, KillPass, UnchangedByPass, reading
<1>3. UNCHANGED pc \/ \E label : GoTo(p, label)
  BY DEF Retain, StartPass, NextChild, StatManifest, Choose, ListDoomed, UnlinkDoomed,
     RemoveDoomed, EndPass, KillPass, Raise
<1> QED
  BY <1>1, <1>2, <1>3, PassMoves DEF IInv, Kept

\* Any step of a pass but those that accept a bundle or take a file.
LEMMA LookingOnKeepsCustody ==
  ASSUME IInv, CInv, NEW p \in Pass, \A q \in Pass : q = p, Retain(p),
         UNCHANGED <<directory, validated, removed>>,
         pc'[p] \notin {"stat input", "read input", "stat manifest"},
         \A n \in Name : Chosen(p, n)' => Chosen(p, n)
  PROVE  CInv'
<1>1. /\ p \in DOMAIN call /\ call \in Scenarios
      /\ UNCHANGED call /\ \A v \in Writer : pc'[v] = pc[v]
  BY PassesRest
<1>2. WritersRest
  BY <1>1 DEF WritersRest
<1>3. Listed(p) /\ Vouched(p)
  BY <1>1 DEF CInv
<1>4. Listed(p)' /\ Shrinks(p)
  BY <1>3, ListsStay
<1>5. Sight(p)'
  BY DEF Sight
<1>6. \A n : (Exists(n)' <=> Exists(n)) /\ Thins(n)
  BY DEF At, Exists, Thins
<1>7. Vouched(p)'
  BY <1>2, <1>3, <1>4, <1>6, VouchingStays
<1> QED
  BY <1>1, <1>2, <1>4, <1>5, <1>7, LookingKeepsCustody

\* A pass accepts what it has loaded.
LEMMA AcceptingKeepsCustody ==
  ASSUME IInv, CInv, NEW p \in Pass, \A q \in Pass : q = p, StatManifest(p)
  PROVE  CInv'
<1>0. Retain(p)
  BY DEF Retain
<1>1. /\ p \in DOMAIN call /\ p \in DOMAIN pass /\ call \in Scenarios
      /\ UNCHANGED <<call, loaded>> /\ \A v \in Writer : pc'[v] = pc[v]
      /\ pc[p] = "stat manifest" /\ pc'[p] = "next" /\ UNCHANGED <<directory, path, removed>>
  BY <1>0, PassesRest DEF StatManifest, root, reading
<1>2. Listed(p) /\ Vouched(p) /\ Sight(p)
  BY <1>1 DEF CInv
<1>3. Listed(p)' /\ Shrinks(p)
  BY <1>0, <1>2, ListsStay
<1>4. CASE UNCHANGED <<pass, validated>>
  <2>1. \A n \in Name : Chosen(p, n)' => Chosen(p, n)
    BY <1>4 DEF Chosen
  <2> QED
    BY <1>0, <1>1, <1>4, <2>1, LookingOnKeepsCustody
<1>5. CASE ~UNCHANGED <<pass, validated>>
  <2>1. PICK n \in Name : n = path[p] /\ Ahead(p, n)
    BY <1>1, <1>2 DEF Listed, Loading, Ahead
  <2>2. PICK b, c : b = loaded[p].manifest.by /\ c = loaded[p].input.by
    OBVIOUS
  <2>3. validated' = validated \cup {b, c}
    BY <1>5, <2>2 DEF StatManifest
  <2>4. WritersRest
    BY <1>1, <2>3 DEF WritersRest
  <2>5. \A q : (Exists(q)' <=> Exists(q)) /\ Thins(q) /\ \A m : At(q, m)' = At(q, m)
    BY <1>1 DEF At, Exists, Thins
  <2>6. ASSUME NEW q \in Name, Chosen(p, q)', q # n PROVE Chosen(p, q)
    <3>1. PICK item : item.name = n /\ pass' = [pass EXCEPT ![p].eligible = @ \cup {item}]
      <4> DEFINE item == [mtime |-> mtime[path[p]], name |-> path[p],
                          metadata |-> Declared(p).metadata]
      <4>1. item.name = n
        BY <2>1
      <4>2. pass' = [pass EXCEPT ![p].eligible = @ \cup {item}]
        BY <1>5 DEF StatManifest
      <4> HIDE DEF item
      <4> QED
        BY <4>1, <4>2
    <3>2. pass'[p].eligible = pass[p].eligible \cup {item}
      BY <1>1, <1>2, <3>1 DEF Listed, Idle
    <3> QED
      BY <2>6, <3>1, <3>2 DEF Chosen
  <2>7. Accounted(n)'
    <3>1. CASE Gone(n, b)
      <4>1. Gone(n, b)' /\ b \in validated'
        BY <2>3, <2>4, <3>1, RestingStayBetrayed
      <4> QED
        BY <4>1 DEF Accounted
    <3>2. CASE /\ Exists(n) /\ At(n, "manifest.json") \in {Absent, loaded[p].manifest}
               /\ At(n, "input.bin") \in {Absent, loaded[p].input}
               /\ \A w \in Writer : Within(w, n) => w = b /\ pc[w] \notin Making
      <4>1. \A m \in Members : At(n, m)' # Absent => At(n, m)'.by \in validated'
        BY <2>2, <2>3, <2>5, <3>2 DEF Members
      <4>2. ASSUME NEW w \in Writer, Within(w, n)' PROVE w \in validated' /\ pc'[w] \notin Making
        <5>1. Within(w, n)
          BY <2>4, <4>2, RestingStayBetrayed
        <5> QED
          BY <1>1, <2>3, <3>2, <5>1
      <4> QED
        BY <2>5, <3>2, <4>1, <4>2 DEF Accounted
    <3> QED
      BY <1>1, <1>2, <2>1, <2>2, <3>1, <3>2 DEF Sight
  <2>8. Vouched(p)'
    <3> SUFFICES ASSUME NEW q \in Name, Chosen(p, q)', Ahead(p, q)' PROVE Accounted(q)'
      BY DEF Vouched
    <3>1. CASE q = n
      BY <2>7, <3>1
    <3>2. CASE q # n
      <4>1. Chosen(p, q) /\ Ahead(p, q)
        BY <1>3, <2>6, <3>2 DEF Shrinks
      <4>2. Accounted(q)
        BY <1>2, <4>1 DEF Vouched
      <4> QED
        BY <2>4, <2>5, <4>2, ThinningKeepsAccounts
    <3> QED
      BY <3>1, <3>2
  <2>9. Sight(p)'
    BY <1>1 DEF Sight
  <2> QED
    BY <1>1, <1>3, <2>4, <2>8, <2>9, LookingKeepsCustody
<1> QED
  BY <1>4, <1>5

\* A pass takes a file, or finds it taken.
LEMMA UnlinkingKeepsCustody ==
  ASSUME IInv, CInv, NEW p \in Pass, \A q \in Pass : q = p, UnlinkDoomed(p)
  PROVE  CInv'
<1>0. Retain(p)
  BY DEF Retain
<1>1. /\ p \in DOMAIN call /\ call \in Scenarios
      /\ UNCHANGED <<call, path, validated>> /\ \A v \in Writer : pc'[v] = pc[v]
      /\ pc[p] = "unlink" /\ removed \subseteq removed' /\ pc'[p] \in {"unlink", "raised"}
  BY <1>0, PassesRest DEF UnlinkDoomed, Raise, reading, UnchangedByPass
<1>2. Listed(p) /\ Vouched(p)
  BY <1>1 DEF CInv
<1>3. Listed(p)' /\ Shrinks(p) /\ Sight(p)'
  BY <1>0, <1>1, <1>2, ListsStay DEF Sight
<1>4. WritersRest
  BY <1>1 DEF WritersRest
<1>5. \A q : Chosen(p, q)' <=> Chosen(p, q)
  <2>1. \/ UNCHANGED pass
        \/ \E m : pass' = [pass EXCEPT ![p].entries = @ \ {m}]
    BY DEF UnlinkDoomed
  <2>2. pass'[p].eligible = pass[p].eligible
    BY <1>0, <1>2, <2>1, PassesRest DEF Listed, Idle
  <2> QED
    BY <2>2 DEF Chosen
<1>6. CASE UNCHANGED <<directory, removed>>
  BY <1>0, <1>1, <1>5, <1>6, LookingOnKeepsCustody
<1>7. CASE ~UNCHANGED <<directory, removed>>
  <2>1. PICK n \in Name : n = path[p] /\ Chosen(p, n) /\ Ahead(p, n)
    BY <1>1, <1>2 DEF Listed, Ahead
  <2>2. PICK m \in Members : /\ File(p, m) # Absent /\ Put(n, m, Absent)
                             /\ removed' = removed \cup {File(p, m).by}
    BY <1>2, <1>7, <2>1 DEF UnlinkDoomed, Listed
  <2>3. Exists(n) /\ At(n, m) # Absent /\ removed' = removed \cup {At(n, m).by}
    BY <2>1, <2>2 DEF File, At
  <2>4. /\ \A q \in Name : Exists(q)' <=> Exists(q)
        /\ \A q \in Name \ {n} : \A k \in Members : At(q, k)' = At(q, k)
        /\ \A k \in Members \ {m} : At(n, k)' = At(n, k)
        /\ At(n, m)' = Absent
    BY <2>2, <2>3, Putting
  <2>5. \A q \in Name : Thins(q)
    BY <2>4 DEF Thins
  <2>6. Vouched(p)'
    BY <1>2, <1>3, <1>4, <1>5, <2>4, <2>5, VouchingStays
  <2>7. FilesHaveTheirWriters'
    BY <1>4, <2>5, ThinningKeepsFiles DEF CInv
  <2>8. DirectoriesAreOwned'
    BY <1>1, <1>3, <1>4, <2>4, <2>5, ThinningKeepsOwners DEF CInv, DirectoriesAreOwned
  <2>9. RemovesOnlyWhatItAccepted'
    <3>1. Accounted(n)
      BY <1>2, <2>1 DEF Vouched
    <3>2. CASE At(n, m).by \in validated
      BY <1>1, <2>3, <3>2 DEF CInv, RemovesOnlyWhatItAccepted
    <3>3. CASE \E v \in validated : Gone(n, v)
      BY <1>1, <3>3 DEF Gone, RemovesOnlyWhatItAccepted
    <3> QED
      BY <2>3, <3>1, <3>2, <3>3 DEF Accounted
  <2>10. ASSUME NEW v \in Writer \cap DOMAIN call PROVE Conduct(v)'
    <3>1. Destination(v) \in Name
      BY <1>1, ScenariosAssumption DEF Destination
    <3>2. PICK q \in Name : Destination(v) = q
      BY <3>1
    <3>3. \A k \in Members : At(q, k)' = At(q, k)
                             \/ (At(q, k)' = Absent /\ At(q, k).by \in removed')
      BY <2>3, <2>4
    <3> QED
      BY <1>4, <3>2, <3>3, ThinningKeepsConduct DEF CInv
  <2> QED
    BY <1>1, <1>3, <2>6, <2>7, <2>8, <2>9, <2>10 DEF CInv
<1> QED
  BY <1>6, <1>7

\* A pass removes the directory it has emptied: nobody waits for it any more, and who is
\* inside lost it.
LEMMA RemovingKeepsCustody ==
  ASSUME IInv, CInv, NEW p \in Pass, \A q \in Pass : q = p, RemoveDoomed(p)
  PROVE  CInv'
<1>0. Retain(p)
  BY DEF Retain
<1>1. /\ p \in DOMAIN call /\ call \in Scenarios
      /\ UNCHANGED <<call, path, pass, validated, removed>> /\ \A v \in Writer : pc'[v] = pc[v]
      /\ pc[p] = "unlink" /\ pc'[p] \in {"remove", "raised"}
  BY <1>0, PassesRest DEF RemoveDoomed, Raise, reading, UnchangedByPass
<1>2. Listed(p) /\ Vouched(p)
  BY <1>1 DEF CInv
<1>3. Listed(p)' /\ Shrinks(p) /\ Sight(p)'
  BY <1>0, <1>1, <1>2, ListsStay DEF Sight
<1>4. WritersRest
  BY <1>1 DEF WritersRest
<1>5. \A q : Chosen(p, q)' <=> Chosen(p, q)
  BY <1>1 DEF Chosen
<1>6. CASE UNCHANGED directory
  BY <1>0, <1>1, <1>5, <1>6, LookingOnKeepsCustody
<1>7. CASE ~UNCHANGED directory
  <2>1. PICK n \in Name : n = path[p] /\ Chosen(p, n) /\ Ahead(p, n) /\ ~Doomed(p, n)
    BY <1>1, <1>2 DEF Listed, Ahead
  <2>2. Exists(n) /\ Empty(n) /\ Drop(n)
    BY <1>7, <2>1 DEF RemoveDoomed
  <2>3. \A k \in Members : At(n, k).state = "absent"
    BY <2>2 DEF Empty, Files, At
  <2>4. /\ \A q \in Name \ {n} : Exists(q)' <=> Exists(q)
        /\ \A q \in Name \ {n} : \A k \in Members : At(q, k)' = At(q, k)
        /\ \A k \in Members : At(n, k)' = Absent
    BY <2>2, Dropping
  <2>5. \A q \in Name : Thins(q)
    BY <2>4 DEF Thins
  <2>6. ~Ahead(p, n)'
    <3>1. pass[p].todo = {}
      BY <1>1, <1>2 DEF Listed, Loading
    <3> QED
      BY <1>1, <2>1, <3>1 DEF Ahead, Doomed, Loading
  <2>7. ~Pending(n)'
    BY <2>6 DEF Pending
  <2>8. Vouched(p)'
    BY <1>2, <1>3, <1>4, <1>5, <2>4, <2>5, <2>6, VouchingStays
  <2>9. FilesHaveTheirWriters'
    BY <1>4, <2>5, ThinningKeepsFiles DEF CInv
  <2>10. DirectoriesAreOwned'
    <3>1. ASSUME NEW q \in Name, q # n PROVE (Owned(q) \/ (Betrayed(q) /\ ~Pending(q)))'
      BY <1>1, <1>3, <1>4, <2>4, <2>5, <3>1, ThinningKeepsOwners DEF CInv
    <3>2. (Owned(n) \/ (Betrayed(n) /\ ~Pending(n)))'
      <4>1. Accounted(n)
        BY <1>2, <2>1 DEF Vouched
      <4>2. CASE Betrayed(n)
        BY <1>4, <2>7, <4>2, RestingStayBetrayed
      <4>3. CASE ~Betrayed(n)
        <5>1. \A v \in validated : ~Gone(n, v)
          BY <4>3 DEF Gone, Betrayed
        <5>2. ASSUME NEW w \in Writer, Within(w, n)'
              PROVE  Displaced(w)'
          <6>1. Within(w, n) /\ w \in validated /\ pc[w] \notin Making
            BY <1>4, <4>1, <5>1, <5>2, RestingStayBetrayed DEF Accounted
          <6>2. pc[w] = "written"
            BY <4>3, <6>1 DEF Betrayed, Within, Inside
          <6>3. Destination(w)' = n
            BY <1>4, <6>1, RestingStayBetrayed DEF Within
          <6> QED
            BY <1>1, <2>7, <6>1, <6>2, <6>3 DEF Displaced
        <5> QED
          BY <5>2 DEF Owned
      <4> QED
        BY <4>2, <4>3
    <3> QED
      BY <3>1, <3>2 DEF DirectoriesAreOwned
  <2>11. RemovesOnlyWhatItAccepted'
    BY <1>1 DEF CInv, RemovesOnlyWhatItAccepted
  <2>12. ASSUME NEW v \in Writer \cap DOMAIN call PROVE Conduct(v)'
    <3>1. Destination(v) \in Name
      BY <1>1, ScenariosAssumption DEF Destination
    <3>2. PICK q \in Name : Destination(v) = q
      BY <3>1
    <3>3. \A k \in Members : At(q, k)' = At(q, k)
                             \/ (At(q, k)' = Absent /\ At(q, k).state = "absent")
      BY <2>3, <2>4
    <3> QED
      BY <1>4, <3>2, <3>3, ThinningKeepsConduct DEF CInv
  <2> QED
    BY <1>1, <1>3, <2>8, <2>9, <2>10, <2>11, <2>12 DEF CInv
<1> QED
  BY <1>6, <1>7

\* The steps of a pass.
LEMMA PassesKeepCustody ==
  ASSUME IInv, CInv, NEW p \in Pass, \A q \in Pass : q = p, Retain(p)
  PROVE  CInv'
<1>1. ASSUME NEW label, GoTo(p, label) PROVE pc'[p] = label
  BY <1>1, PassesRest
<1>2. p \in DOMAIN call /\ p \in DOMAIN pass
  BY PassesRest
<1>3. Listed(p)
  BY <1>2 DEF CInv
<1>4. DOMAIN pass[p] = {"todo", "eligible", "doomed", "entries"}
  BY <1>3 DEF Listed, Idle
<1>5. ASSUME pass'[p].eligible = pass[p].eligible, UNCHANGED <<directory, validated, removed>>,
             pc'[p] \notin {"stat input", "read input", "stat manifest"}
      PROVE  CInv'
  BY <1>5, LookingOnKeepsCustody DEF Chosen
<1>6. CASE StartPass(p)
  <2>1. PICK S : pass' = [pass EXCEPT ![p].todo = S]
    BY <1>6 DEF StartPass
  <2> QED
    BY <1>1, <1>2, <1>4, <1>5, <1>6, <2>1 DEF StartPass, UnchangedByPass
<1>7. CASE NextChild(p)
  <2>1. PICK n : pass' = [pass EXCEPT ![p].todo = @ \ {n}]
    BY <1>7 DEF NextChild
  <2> QED
    BY <1>1, <1>2, <1>4, <1>5, <1>7, <2>1 DEF NextChild, UnchangedByPass
<1>8. CASE StatManifest(p)
  BY <1>8, AcceptingKeepsCustody
<1>9. CASE Choose(p)
  <2>1. PICK S : pass' = [pass EXCEPT ![p].doomed = S]
    BY <1>9 DEF Choose
  <2> QED
    BY <1>1, <1>2, <1>4, <1>5, <1>9, <2>1 DEF Choose, UnchangedByPass
<1>10. CASE ListDoomed(p)
  <2>1. \/ UNCHANGED pass /\ GoTo(p, "raised")
        \/ /\ \E item, S : pass' = [pass EXCEPT ![p].doomed = @ \ {item}, ![p].entries = S]
           /\ GoTo(p, "unlink")
    BY <1>10 DEF ListDoomed, Raise
  <2>2. pass'[p].eligible = pass[p].eligible
    BY <1>2, <1>4, <2>1
  <2> QED
    BY <1>1, <1>5, <1>10, <2>1, <2>2 DEF ListDoomed, UnchangedByPass
<1>11. CASE UnlinkDoomed(p)
  BY <1>11, UnlinkingKeepsCustody
<1>12. CASE RemoveDoomed(p)
  BY <1>12, RemovingKeepsCustody
<1>13. CASE EndPass(p) \/ KillPass(p)
  BY <1>1, <1>5, <1>13 DEF EndPass, KillPass, UnchangedByPass
<1> QED
  BY <1>6, <1>7, <1>8, <1>9, <1>10, <1>11, <1>12, <1>13 DEF Retain

LEMMA StandingKeepsCustody ==
  ASSUME CInv, UNCHANGED <<directory, call, path, pass, validated, removed>>,
         \A q \in Writer \cup Pass : pc'[q] = pc[q],
         \A p \in Pass \cap DOMAIN call : loaded'[p] = loaded[p]
  PROVE  CInv'
<1>1. /\ \A n : (Exists(n)' <=> Exists(n)) /\ \A k : At(n, k)' = At(n, k)
      /\ \A v : Destination(v)' = Destination(v)
      /\ \A p, n : (Chosen(p, n)' <=> Chosen(p, n)) /\ (Doomed(p, n)' <=> Doomed(p, n))
  BY DEF At, Exists, Destination, Chosen, Doomed
<1>2. /\ \A v \in Writer : \A n : (Within(v, n)' <=> Within(v, n)) /\ (Gone(n, v)' <=> Gone(n, v))
      /\ \A n : Betrayed(n)' <=> Betrayed(n)
  BY <1>1 DEF Within, Gone, Betrayed
<1>3. \A p \in Pass : \A n : Ahead(p, n)' <=> Ahead(p, n)
  BY <1>1 DEF Ahead
<1>4. \A n : Pending(n)' <=> Pending(n)
  BY <1>3 DEF Pending
<1>5. FilesHaveTheirWriters'
  BY <1>1 DEF CInv, FilesHaveTheirWriters
<1>6. ASSUME NEW v \in Writer, NEW n, Within(v, n)
      PROVE  (Displaced(v)' <=> Displaced(v)) /\ (Belongs(n, v)' <=> Belongs(n, v))
  <2>1. Destination(v) = n /\ Destination(v)' = n
    BY <1>1, <1>6 DEF Within
  <2>2. Pending(Destination(v))' <=> Pending(Destination(v))
    BY <1>4, <2>1, <1>3 DEF Pending
  <2> QED
    BY <1>1, <2>2 DEF Displaced, Belongs
<1>7. DirectoriesAreOwned'
  <2> SUFFICES ASSUME NEW n \in Name PROVE (Owned(n) \/ (Betrayed(n) /\ ~Pending(n)))'
    BY DEF DirectoriesAreOwned
  <2>1. CASE Owned(n)
    <3>1. Owned(n)'
      BY <1>2, <1>6, <2>1 DEF Owned
    <3> QED
      BY <3>1
  <2> QED
    BY <1>2, <1>4, <2>1 DEF CInv, DirectoriesAreOwned
<1>8. RemovesOnlyWhatItAccepted'
  BY DEF CInv, RemovesOnlyWhatItAccepted
<1>9. ASSUME NEW v \in Writer \cap DOMAIN call PROVE Conduct(v)'
  <2>1. PICK n : n = Destination(v) /\ n = Destination(v)'
    BY <1>1
  <2>2. \A k : (Has(v, k)' <=> Has(v, k)) /\ (HasWhole(v, k)' <=> HasWhole(v, k))
               /\ At(Destination(v), k)' = At(Destination(v), k)
    BY <1>1, <2>1 DEF Has, HasWhole
  <2>3. Betrayed(Destination(v)) => Betrayed(Destination(v))'
    BY <1>2, <2>1, <1>1 DEF Betrayed
  <2>4. Conduct(v) /\ pc'[v] = pc[v]
    BY DEF CInv
  <2> QED
    BY <2>2, <2>3, <2>4 DEF Conduct
<1>10. ASSUME NEW p \in Pass \cap DOMAIN call PROVE Listed(p)' /\ Sight(p)' /\ Vouched(p)'
  <2>1. Listed(p) /\ Sight(p) /\ Vouched(p) /\ pc'[p] = pc[p] /\ loaded'[p] = loaded[p]
    BY DEF CInv
  <2>2. Listed(p)'
    BY <1>1, <2>1 DEF Listed
  <2>3. \A n : Accounted(n) => Accounted(n)'
    BY <1>1, <1>2 DEF Accounted, Gone
  <2>4. Vouched(p)'
    BY <1>1, <1>3, <2>1, <2>3 DEF Vouched
  <2>5. Sight(p)'
    <3>1. PICK n, b : n = path[p] /\ b = loaded[p].manifest.by
      OBVIOUS
    <3>2. Gone(n, b) => Gone(n, b)'
      BY <1>2 DEF Gone
    <3> QED
      BY <1>1, <1>2, <2>1, <3>1, <3>2 DEF Sight
  <2> QED
    BY <2>2, <2>4, <2>5
<1> QED
  BY <1>5, <1>7, <1>8, <1>9, <1>10 DEF CInv

LEMMA ReplayersKeepCustody ==
  ASSUME IInv, CInv, NEW r \in Replayer, Load(r) \/ RefuseReplay(r) \/ Replay(r)
  PROVE  CInv'
<1>1. UNCHANGED <<directory, call, path, pass, validated, removed>>
  BY DEF Load, ListMembers, ReadManifest, StatInput, ReadInput, RefuseReplay, Replay,
     UnchangedByLoading, root, reading, history
<1>2. \E label : GoTo(r, label)
  BY DEF Load, ListMembers, ReadManifest, StatInput, ReadInput, RefuseReplay, Replay, Read,
     Reject, Raise
<1>3. UNCHANGED loaded \/ \E x : loaded' = [loaded EXCEPT ![r] = x]
                       \/ \E file : loaded' = [loaded EXCEPT ![r].input = file]
  BY DEF Load, ListMembers, ReadManifest, StatInput, ReadInput, RefuseReplay, Replay, reading
<1>4. \A q \in Writer \cup Pass : q # r /\ q \in Process
  BY ProcessesAssumption DEF Reader, Process
<1>5. DOMAIN pc = Process /\ \A p \in Pass \cap DOMAIN call : p \in DOMAIN loaded
  BY DEF IInv, Kept, Reader
<1>6. \A q \in Writer \cup Pass : pc'[q] = pc[q]
  BY <1>2, <1>4, <1>5 DEF GoTo
<1>7. \A p \in Pass \cap DOMAIN call : loaded'[p] = loaded[p]
  BY <1>3, <1>4, <1>5
<1> QED
  BY <1>1, <1>6, <1>7, StandingKeepsCustody

LEMMA CustodyBegins ==
  ASSUME Init
  PROVE  CInv
<1>1. call \in Scenarios /\ directory \in Earlier
  BY DEF Init
<1>2. \A q \in Process : pc[q] \in {"start", "absent"}
  BY DEF Init
<1>3. \A q \in Process : pc[q] \notin Inside \cup Leaving \cup {"raised", "killed", "returned"}
  BY <1>2 DEF Inside, Making, Leaving
<1>4. FilesHaveTheirWriters
  BY <1>1, EarlierAssumption, WritersFiles DEF FilesHaveTheirWriters, At, Exists
<1>5. DirectoriesAreOwned
  BY <1>3 DEF DirectoriesAreOwned, Owned, Within, Process
<1>6. RemovesOnlyWhatItAccepted
  BY DEF RemovesOnlyWhatItAccepted, Init
<1>7. ASSUME NEW w \in Writer \cap DOMAIN call PROVE Conduct(w)
  BY <1>2 DEF Conduct, Process
<1>8. ASSUME NEW p \in Pass \cap DOMAIN call PROVE Listed(p) /\ Sight(p) /\ Vouched(p)
  <2>1. pass[p] = Idle /\ pc[p] \in {"start", "absent"}
    BY <1>2 DEF Init, Process, Reader
  <2>2. /\ Idle.eligible = {} /\ Idle.doomed = {} /\ Idle.todo = {} /\ Idle.entries = {}
        /\ \A n : ~Chosen(p, n)
    BY <2>1 DEF Idle, Chosen
  <2> QED
    BY <2>1, <2>2 DEF Listed, Sight, Vouched, Loading
<1> QED
  BY <1>4, <1>5, <1>6, <1>7, <1>8 DEF CInv

LEMMA CustodyIsKept ==
  ASSUME \A p, q \in Pass : p = q
  PROVE  Spec => []CInv
<1>1. Init => CInv
  BY CustodyBegins
<1>2. IInv /\ CInv /\ [Next]_vars => CInv'
  <2> SUFFICES ASSUME IInv, CInv, [Next]_vars PROVE CInv'
    OBVIOUS
  <2>1. CASE UNCHANGED vars
    <3>1. UNCHANGED <<directory, call, pc, path, loaded, pass, validated, removed>>
      BY <2>1 DEF vars, root, reading, history
    <3> QED
      BY <3>1, StandingKeepsCustody
  <2>2. ASSUME NEW w \in Writer, Write(w) PROVE CInv'
    BY <2>2, WritersKeepCustody
  <2>3. ASSUME NEW p \in Pass, Load(p) \/ Retain(p) PROVE CInv'
    BY <2>3, ReadingKeepsCustody, PassesKeepCustody
  <2>4. ASSUME NEW r \in Replayer, Load(r) \/ RefuseReplay(r) \/ Replay(r) PROVE CInv'
    BY <2>4, ReplayersKeepCustody
  <2> QED
    BY <2>1, <2>2, <2>3, <2>4 DEF Next, Reader
<1> QED
  BY <1>1, <1>2, BundlesStayTrusted, PTL DEF Spec

\* A retention pass removes by path what it loaded some time before.  Beside any writers, and
\* with no second pass, it touches a file of a bundle it did not accept only when the writer
\* of a bundle it did accept failed after writing it, and freed the name for another.
THEOREM RemovalsAreOfWhatWasAccepted ==
  ASSUME \A p, q \in Pass : p = q
  PROVE  Spec => []RemovesOnlyWhatItAccepted
<1>1. CInv => RemovesOnlyWhatItAccepted
  BY DEF CInv
<1> QED
  BY <1>1, CustodyIsKept, PTL

\* With no second pass: a call of write_repro that raised left no file of its own behind, one
\* that returned left both files whole, unless the pass took them or accepted the bundle of a
\* writer that failed after all.
THEOREM WritersLeaveWhatTheySay ==
  ASSUME \A p, q \in Pass : p = q
  PROVE  Spec => []WritersSayWhatTheyLeft
<1>1. ASSUME IInv, CInv PROVE WritersSayWhatTheyLeft
  <2> SUFFICES ASSUME NEW w \in Writer, pc[w] \in {"raised", "returned"}
               PROVE  /\ pc[w] = "raised" =>
                           Of(w) = {} \/ w \in validated \cup removed \/ Undermined(w)
                      /\ pc[w] = "returned" =>
                           \/ \A m \in Members :
                                /\ <<Destination(w), m>> \in Of(w)
                                /\ directory[Destination(w)][m].state = "whole"
                           \/ w \in removed \/ Undermined(w)
    BY DEF WritersSayWhatTheyLeft
  <2>1. w \in DOMAIN call /\ Destination(w) \in Name
    BY <1>1, ScenariosAssumption DEF IInv, Kept, Process, Destination
  <2>2. Conduct(w) /\ FilesHaveTheirWriters
    BY <1>1, <2>1 DEF CInv
  <2>3. CASE w \in removed
    BY <2>3
  <2>4. CASE Betrayed(Destination(w))
    <3>1. PICK v \in Writer \cap validated :
            Destination(v) = Destination(w) /\ pc[v] \in Leaving \cup {"raised", "killed"}
      BY <2>4 DEF Betrayed
    <3>2. pc[v] \notin {"written", "returned"}
      BY <3>1 DEF Leaving
    <3>3. v # w => Undermined(w)
      BY <3>1, <3>2 DEF Undermined
    <3> QED
      BY <3>1, <3>2, <3>3
  <2>5. CASE w \notin removed /\ ~Betrayed(Destination(w)) /\ pc[w] = "raised"
    <3>1. ~Has(w, "manifest.json") /\ ~Has(w, "input.bin")
      BY <2>2, <2>5 DEF Conduct
    <3>2. ASSUME NEW n \in Name, NEW m \in Members, <<n, m>> \in Of(w) PROVE FALSE
      <4>1. At(n, m).by = w
        BY <3>2 DEF Of, At
      <4>2. Destination(w) = n
        BY <2>2, <4>1 DEF FilesHaveTheirWriters
      <4> QED
        BY <3>1, <4>1, <4>2 DEF Has, Members
    <3>3. Of(w) = {}
      <4>1. \A f \in Of(w) : f \in Name \X Members
        BY DEF Of
      <4>2. ASSUME NEW f \in Of(w) PROVE FALSE
        <5>1. PICK n \in Name, m \in Members : f = <<n, m>>
          BY <4>1
        <5> QED
          BY <3>2, <5>1
      <4> QED
        BY <4>2
    <3> QED
      BY <2>5, <3>3
  <2>6. CASE w \notin removed /\ ~Betrayed(Destination(w)) /\ pc[w] = "returned"
    <3>1. \A m \in Members : HasWhole(w, m)
      BY <2>2, <2>6 DEF Conduct, Members
    <3>2. ASSUME NEW m \in Members
          PROVE  /\ <<Destination(w), m>> \in Of(w)
                 /\ directory[Destination(w)][m].state = "whole"
      <4>1. /\ Exists(Destination(w)) /\ directory[Destination(w)][m].by = w
            /\ directory[Destination(w)][m].state = "whole"
        BY <3>1, WritersFiles DEF HasWhole, Has, At
      <4> QED
        BY <2>1, <4>1 DEF Of
    <3> QED
      BY <2>6, <3>2
  <2> QED
    BY <2>3, <2>4, <2>5, <2>6
<1> QED
  BY <1>1, BundlesStayTrusted, CustodyIsKept, PTL
=============================================================================
