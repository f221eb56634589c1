----------------------------- MODULE Campaigns -----------------------------
(***************************************************************************)
(* The three campaigns that drive a differential harness:                  *)
(*   "fuzz"       run_fuzz_campaign (fuzz.py), to the first failure;       *)
(*   "discovery"  run_failure_discovery_campaign (fuzz.py), one witness    *)
(*                for each failure signature;                              *)
(*   "feedback"   run_feedback_guided_campaign (feedback_fuzz.py), a       *)
(*                corpus grown first in, first out.                        *)
(*                                                                         *)
(* A case is named by where it comes from: <<i>> is the i-th seed, or      *)
(* cases(i), and Append(parent, m) is mutate(parent, m).  What a case is   *)
(* found to do is chosen anew by every evaluation, since real targets may  *)
(* be flaky; the feature iterators are untrusted and may never end.        *)
(*                                                                         *)
(* Operators named <definition>_<bug> are bugs put into <definition>; no   *)
(* action of Next uses them.                                               *)
(***************************************************************************)
EXTENDS Integers, Sequences

CONSTANTS Signatures,     \* the stable failure signatures targets can show
          Features,       \* the features evaluations can report
          NoSignature,    \* failure_signature of a match
          NoFeature,      \* no feature is being added
          Limits          \* the arguments a caller passes, see LimitNames

LimitNames == {"seeds", "mutations_per_case", "max_evaluations", "max_corpus_entries",
               "max_unique_failures", "max_feature_visits"}

ASSUME LimitsAssumption == Limits \subseteq [LimitNames -> Int]
ASSUME NoneAssumption == NoSignature \notin Signatures /\ NoFeature \notin Features

VARIABLES kind, limits,
          pc,             \* "validate", "schedule", "evaluate", "features", "add", "done"
          case,           \* the case scheduled last
          signature,      \* failure_signature of its comparison
          features, visits,
          feature,        \* what the feature iterator yielded last
          evaluations, corpus, seen_features, failures,
          parent_index,   \* corpus entries taken as parents so far
          mutation_index, \* the next mutation of the last of them
          outcome,        \* how the call ended, with the flags of the result
          evaluated       \* every completed evaluation, for the properties only

schedule == <<parent_index, mutation_index>>
findings == <<evaluations, corpus, seen_features, failures, evaluated>>
current == <<signature, features, visits, feature>>
vars == <<kind, limits, pc, case, current, findings, schedule, outcome>>

Cases == Seq(Nat)
Ways == {"running", "returned", "value_error", "feature_budget", "adapter_error"}
Flags == {"exhausted_budget", "reached_corpus_limit", "reached_failure_limit"}
Running == [how |-> "running", flags |-> {}]
Returned == outcome.how = "returned"

TypeOK ==
  /\ kind \in {"fuzz", "discovery", "feedback"} /\ limits \in Limits
  /\ pc \in {"validate", "schedule", "evaluate", "features", "add", "done"}
  /\ case \in Cases /\ signature \in Signatures \cup {NoSignature}
  /\ features \subseteq Features /\ visits \in Nat /\ feature \in Features \cup {NoFeature}
  /\ evaluations \in Nat /\ seen_features \subseteq Features
  /\ corpus \in Seq([case : Cases, new_features : SUBSET Features])
  /\ failures \in Seq([evaluation_index : Nat, case : Cases, signature : Signatures])
  /\ parent_index \in 0..Len(corpus)
  /\ mutation_index \in Nat
  /\ mutation_index = 0 \/ (parent_index > 0 /\ mutation_index < limits.mutations_per_case)
  /\ outcome \in [how : Ways, flags : SUBSET Flags]
  /\ evaluated \in Seq([case : Cases, signature : Signatures \cup {NoSignature},
                        features : SUBSET Features])

Init ==
  /\ kind \in {"fuzz", "discovery", "feedback"} /\ limits \in Limits
  /\ pc = "validate" /\ case = <<>>
  /\ signature = NoSignature /\ features = {} /\ visits = 0 /\ feature = NoFeature
  /\ evaluations = 0 /\ corpus = <<>> /\ seen_features = {} /\ failures = <<>>
  /\ parent_index = 0 /\ mutation_index = 0
  /\ outcome = Running /\ evaluated = <<>>

-----------------------------------------------------------------------------
(* How a call ends.                                                        *)

Raise(exception) == pc' = "done" /\ outcome' = [how |-> exception, flags |-> {}]
Return(flags) == pc' = "done" /\ outcome' = [how |-> "returned", flags |-> flags]

\* The limits the three functions read, and so check before anything else.
CheckedLimits ==
  CASE kind = "fuzz"      -> {"max_evaluations"}
    [] kind = "discovery" -> {"max_evaluations", "max_unique_failures"}
    [] kind = "feedback"  -> LimitNames

ValidateLimits ==
  /\ pc = "validate"
  /\ IF \E name \in CheckedLimits : limits[name] <= 0
       THEN Raise("value_error")
       ELSE pc' = "schedule" /\ UNCHANGED outcome
  /\ UNCHANGED <<kind, limits, case, current, findings, schedule>>

-----------------------------------------------------------------------------
(* What is evaluated next.                                                 *)

BudgetSpent_AllowsOneMore == evaluations > limits.max_evaluations
BudgetSpent == evaluations >= limits.max_evaluations

\* Each turn of the seed loop completes one evaluation, so their count is the
\* index of the next seed.
SeedsLeft == kind = "feedback" /\ evaluations < limits.seeds
ParentsLeft == kind = "feedback" /\ (mutation_index > 0 \/ parent_index < Len(corpus))
NothingLeft == BudgetSpent \/ (kind = "feedback" /\ ~SeedsLeft /\ ~ParentsLeft)

Schedule(next) == pc' = "evaluate" /\ case' = next

\* cases(index) of the index-driven campaigns, or the next seed.
ScheduleIndexed ==
  /\ pc = "schedule" /\ ~BudgetSpent
  /\ SeedsLeft \/ kind # "feedback"
  /\ Schedule(<<evaluations>>)
  /\ UNCHANGED <<kind, limits, current, findings, schedule, outcome>>

Parent_Newest(index) == corpus[Len(corpus)].case
Parent(index) == corpus[index].case
IsLastMutation(index) == index = limits.mutations_per_case - 1

\* The parent whose mutations are under way, or else the next one in line.
CurrentParent == IF mutation_index > 0 THEN parent_index ELSE parent_index + 1

ScheduleMutation ==
  /\ pc = "schedule" /\ ~BudgetSpent /\ ~SeedsLeft /\ ParentsLeft
  /\ Schedule(Append(Parent(CurrentParent), mutation_index))
  /\ parent_index' = CurrentParent
  /\ mutation_index' = IF IsLastMutation(mutation_index) THEN 0 ELSE mutation_index + 1
  /\ UNCHANGED <<kind, limits, current, findings, outcome>>

\* The case generator or mutator is a caller's function and may raise.
GeneratorRaises ==
  /\ pc = "schedule" /\ ~NothingLeft /\ ~SeedsLeft
  /\ Raise("adapter_error")
  /\ UNCHANGED <<kind, limits, case, current, findings, schedule>>

Finish ==
  /\ pc = "schedule" /\ NothingLeft
  /\ Return(IF BudgetSpent THEN {"exhausted_budget"} ELSE {})
  /\ UNCHANGED <<kind, limits, case, current, findings, schedule>>

-----------------------------------------------------------------------------
(* One evaluation: the comparison is validated, then its features, if any, *)
(* are collected, and only then is anything of it recorded.                *)

FailureIsNew_Always(found) == found # NoSignature
FailureIsNew(found) ==
  found # NoSignature /\ \A i \in DOMAIN failures : failures[i].signature # found

Novel_AllWhenAny(found) == IF found \subseteq seen_features THEN {} ELSE found
Novel(found) == found \ seen_features

FailureLimit == IF kind = "fuzz" THEN 1 ELSE limits.max_unique_failures
LimitsReached ==
  {flag \in {"reached_corpus_limit"} :
     kind = "feedback" /\ Len(corpus') >= limits.max_corpus_entries}
  \cup {flag \in {"reached_failure_limit"} : Len(failures') >= FailureLimit}

\* The end of consider(), or of the loop body of the index-driven campaigns.
Record(found, found_features) ==
  /\ evaluations' = evaluations + 1
  /\ evaluated' = Append(evaluated, [case |-> case, signature |-> found,
                                     features |-> found_features])
  /\ failures' = IF FailureIsNew(found)
                   THEN Append(failures, [evaluation_index |-> evaluations, case |-> case,
                                          signature |-> found])
                   ELSE failures
  /\ corpus' = IF Novel(found_features) # {}
                 THEN Append(corpus, [case |-> case, new_features |-> Novel(found_features)])
                 ELSE corpus
  /\ seen_features' = seen_features \cup found_features
  /\ IF LimitsReached # {}
       THEN Return(LimitsReached)
       ELSE pc' = "schedule" /\ UNCHANGED outcome

Evaluate ==
  /\ pc = "evaluate"
  /\ \E found \in Signatures \cup {NoSignature} :
       /\ signature' = found /\ features' = {} /\ visits' = 0 /\ feature' = NoFeature
       /\ IF kind = "feedback"
            THEN pc' = "features" /\ UNCHANGED <<findings, outcome>>
            ELSE Record(found, {})
  /\ UNCHANGED <<kind, limits, case, schedule>>

\* evaluate raises, or _validate_comparison finds the comparison inconsistent.
EvaluationRaises ==
  /\ pc = "evaluate"
  /\ \E exception \in {"adapter_error", "value_error"} : Raise(exception)
  /\ UNCHANGED <<kind, limits, case, current, findings, schedule>>

VisitsSpent == visits >= limits.max_feature_visits
AfterVisit_Uncounted(count) == count
AfterVisit(count) == count + 1

VisitFeature ==
  /\ pc = "features" /\ ~VisitsSpent
  /\ \E yielded \in Features : feature' = yielded
  /\ pc' = "add"
  /\ UNCHANGED <<kind, limits, case, signature, features, visits, findings, schedule, outcome>>

AddFeature ==
  /\ pc = "add"
  /\ visits' = AfterVisit(visits) /\ features' = features \cup {feature}
  /\ feature' = NoFeature /\ pc' = "features"
  /\ UNCHANGED <<kind, limits, case, signature, findings, schedule, outcome>>

FeaturesRaise ==
  /\ pc = "features"
  /\ Raise(IF VisitsSpent THEN "feature_budget" ELSE "adapter_error")
  /\ UNCHANGED <<kind, limits, case, current, findings, schedule>>

Consider ==
  /\ pc = "features" /\ ~VisitsSpent
  /\ Record(signature, features)
  /\ UNCHANGED <<kind, limits, case, current, schedule>>

-----------------------------------------------------------------------------

Next ==
  \/ ValidateLimits
  \/ ScheduleIndexed \/ ScheduleMutation \/ GeneratorRaises \/ Finish
  \/ Evaluate \/ EvaluationRaises
  \/ VisitFeature \/ AddFeature \/ FeaturesRaise \/ Consider

Spec == Init /\ [][Next]_vars

\* A campaign runs in its caller's thread, and the functions it calls return.
FairSpec == Spec /\ WF_vars(Next)

-----------------------------------------------------------------------------
(* What was found, told from the list of completed evaluations alone.      *)

IsFirstWitness(n) ==
  /\ evaluated[n].signature # NoSignature
  /\ \A m \in 1..(n - 1) : evaluated[m].signature # evaluated[n].signature

NewFeaturesOf(n) ==
  evaluated[n].features \ UNION {evaluated[m].features : m \in 1..(n - 1)}

\* The case the n-th evaluation has to be of: the seeds in order, and then
\* mutations_per_case mutations of each corpus entry, in order of admission.
ScheduledCase(n) ==
  LET mutation == n - limits.seeds - 1
      entry == (mutation \div limits.mutations_per_case) + 1
  IN  IF kind # "feedback" \/ n <= limits.seeds
        THEN <<n - 1>>
        ELSE Append(corpus[entry].case, mutation % limits.mutations_per_case)

\* The failures a campaign keeps are the first witnesses of their signatures,
\* each with its own index and case, all of them, in the order they were met.
WitnessesAreTheFirst ==
  /\ evaluations = Len(evaluated)
  /\ \A n \in DOMAIN evaluated : IsFirstWitness(n) =>
       \E i \in DOMAIN failures : failures[i].evaluation_index = n - 1
  /\ \A i \in DOMAIN failures :
       LET n == failures[i].evaluation_index + 1
       IN  /\ n \in DOMAIN evaluated /\ IsFirstWitness(n)
           /\ failures[i].case = evaluated[n].case
           /\ failures[i].signature = evaluated[n].signature
           /\ \A j \in 1..(i - 1) : failures[j].evaluation_index < failures[i].evaluation_index

\* The corpus holds exactly the cases that showed a feature no earlier case had
\* shown, each with the features that were new then and no others.
CorpusIsWhatWasNovel ==
  /\ seen_features = UNION {evaluated[n].features : n \in DOMAIN evaluated}
  /\ \A n \in DOMAIN evaluated : NewFeaturesOf(n) # {} =>
       \E i \in DOMAIN corpus : corpus[i] = [case |-> evaluated[n].case,
                                            new_features |-> NewFeaturesOf(n)]
  /\ \A i \in DOMAIN corpus : \E n \in DOMAIN evaluated :
       corpus[i] = [case |-> evaluated[n].case, new_features |-> NewFeaturesOf(n)]

\* Cases are evaluated first in, first out: the seeds, then every mutation of
\* the oldest corpus entry before any of the next, none skipped or repeated,
\* although the corpus grows while its entries are being mutated.
ScheduleIsFirstInFirstOut ==
  \A n \in DOMAIN evaluated : evaluated[n].case = ScheduledCase(n)

\* No ceiling is passed, and the flags of a result say why the campaign ended:
\* without a flag, every mutation of every corpus entry was evaluated.
ExitsAreTrue ==
  /\ evaluations > 0 => /\ evaluations <= limits.max_evaluations
                        /\ Len(failures) <= FailureLimit
                        /\ kind = "feedback" => Len(corpus) <= limits.max_corpus_entries
  /\ Returned =>
       /\ "exhausted_budget" \in outcome.flags =>
            evaluations = limits.max_evaluations /\ outcome.flags = {"exhausted_budget"}
       /\ "reached_corpus_limit" \in outcome.flags <=>
            kind = "feedback" /\ Len(corpus) = limits.max_corpus_entries
       /\ "reached_failure_limit" \in outcome.flags <=> Len(failures) = FailureLimit
       /\ outcome.flags = {} =>
            evaluations = limits.seeds + limits.mutations_per_case * Len(corpus)

\* A campaign ends, even when the feature iterators never do.
Ends == <>(pc = "done")
=============================================================================
