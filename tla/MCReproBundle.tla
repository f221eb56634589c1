--------------------------- MODULE MCReproBundle ---------------------------
(***************************************************************************)
(* Three writers, one replayer and one retention pass over two names.      *)
(***************************************************************************)
EXTENDS ReproBundle

CONSTANTS w1, w2, w3, r1, p1

MCWriter == {w1, w2, w3}
MCReplayer == {r1}
MCPass == {p1}
MCName == 1..2

\* "x" fails always, "y" is as long and flaky, "z" is shorter and breaks the harness.
MCInput == {"x", "y", "z"}
MCSize == [i \in MCInput |-> IF i = "z" THEN 1 ELSE 2]
MCContext == {"here", "elsewhere"}

Ok == [infrastructure_error |-> FALSE, timed_out |-> FALSE, exit_code |-> 0, signal |-> 0,
       stdout |-> "out", stderr |-> ""]
Both(candidate) == [candidate |-> candidate, oracle |-> Ok]
Agrees == Both(Ok)
Exits == Both([Ok EXCEPT !.exit_code = 1])
Hangs == Both([Ok EXCEPT !.timed_out = TRUE, !.stdout = ""])
Breaks == Both([Ok EXCEPT !.infrastructure_error = TRUE])

MCEvaluations ==
  [here |-> [x |-> {Exits}, y |-> {Exits, Hangs, Agrees}, z |-> {Breaks}],
   elsewhere |-> [x |-> {Agrees}, y |-> {Agrees}, z |-> {Breaks}]]

NoMetadata == [k \in {} |-> "none"]
KillEvidence(proven) ==
  [failure_model |-> "process-kill-same-mount", remount_performed |-> FALSE,
   power_loss_recovery_proven |-> proven]

Triage(input, captured, metadata) ==
  [triage |-> TRUE, input |-> input, captured |-> captured,
   expected_signature |-> Signature(captured), metadata |-> metadata, path |-> 1,
   context |-> "here"]
Plain(input, metadata) ==
  [triage |-> FALSE, input |-> input, captured |-> Agrees, expected_signature |-> None,
   metadata |-> metadata, path |-> 1, context |-> "here"]

Calls == {Triage("x", Exits, NoMetadata), Plain("y", KillEvidence(TRUE))}

\* A captured failure filed under the signature of another.
Misfiled == [Triage("x", Exits, NoMetadata) EXCEPT !.expected_signature = Signature(Hangs)]

Replays ==
  {[path |-> 1, require_same_context |-> TRUE, context |-> "here"],
   [path |-> 1, require_same_context |-> TRUE, context |-> "elsewhere"],
   [path |-> 1, require_same_context |-> FALSE, context |-> "elsewhere"]}

Earlier1(manifest, input) ==
  "manifest.json" :> manifest @@ "input.bin" :> input

\* A bundle of before the digests, one whose comparison was changed, and one of another
\* version of the format.
Old ==
  LET m == Manifest("y", Exits, NoMetadata, "here")
  IN  [field \in DOMAIN m \ {"replay_context_sha256"} |->
         IF field = "input" THEN [path |-> "input.bin", size_bytes |-> 2] ELSE m[field]]
Tampered == [Manifest("x", Exits, NoMetadata, "here") EXCEPT
               !.comparison.mismatches = <<"stdout">>]
Foreign == [Manifest("x", Exits, NoMetadata, "here") EXCEPT !.schema_version = "v2"]
OldBundle == Earlier1(Whole("old", Old), Whole("old", "y"))
TamperedBundle == Earlier1(Whole("tampered", Tampered), Whole("tampered", "x"))
ForeignBundle == Earlier1(Whole("foreign", Foreign), Whole("foreign", "x"))
MCEarlier == {<<OldBundle, TamperedBundle>>, <<NoDirectory, OldBundle>>,
              <<ForeignBundle, NoDirectory>>}

Limits == {[max_bundles |-> limit] : limit \in {0, 1}}

\* Two writers and a pass or a replay; one of each; three writers of one failure and a pass.
MCScenarios ==
  LET writers(k, calls) == UNION {[ws -> calls] : ws \in kSubset(k, MCWriter)}
      replays == {r1 :> c : c \in Replays}
      passes == {p1 :> c : c \in Limits}
  IN  {s @@ r : s \in writers(2, Calls), r \in passes \cup replays}
        \cup {s @@ r @@ p : s \in writers(1, Calls \cup {Misfiled}), r \in replays, p \in passes}
        \cup {s @@ (p1 :> [max_bundles |-> 0]) : s \in writers(3, {Plain("x", NoMetadata)})}

Symmetry == Permutations(MCWriter)
=============================================================================
