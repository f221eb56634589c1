-------------------------- MODULE CampaignsProofs --------------------------
(***************************************************************************)
(* What a campaign records, for any features, signatures and limits, and   *)
(* however its targets, generators and feature iterators behave.           *)
(***************************************************************************)
EXTENDS Campaigns, SequenceTheorems, TLAPS

(***************************************************************************)
(* Past the first check, the limits of a feedback campaign are positive:   *)
(* without it, the index of the next mutation could leave its range.  What *)
(* is being added is a feature.                                            *)
(***************************************************************************)
Validated ==
  /\ pc \notin {"validate", "done"} /\ kind = "feedback" => limits.mutations_per_case > 0
  /\ pc = "add" => feature \in Features

\* The state stays within its types.
THEOREM TypeCorrect == Spec => []TypeOK
<1> DEFINE Typed == TypeOK /\ Validated
<1> USE DEF TypeOK, Validated
<1>1. Init => Typed
  BY DEF Init, Running, Ways, Cases
<1>2. Typed /\ [Next]_vars => Typed'
  <2> SUFFICES ASSUME Typed, [Next]_vars PROVE Typed'
    OBVIOUS
  <2> USE DEF findings, schedule, current
  <2> outcome' \in [how : Ways, flags : SUBSET Flags]
    <3>1. \A exception \in {"value_error", "adapter_error", "feature_budget"} :
            [how |-> exception, flags |-> {}] \in [how : Ways, flags : SUBSET Flags]
      BY DEF Ways
    <3>2. \A flags \in SUBSET Flags :
            [how |-> "returned", flags |-> flags] \in [how : Ways, flags : SUBSET Flags]
      BY DEF Ways
    <3>3. LimitsReached \in SUBSET Flags
      BY DEF LimitsReached, Flags
    <3>4. (IF BudgetSpent THEN {"exhausted_budget"} ELSE {}) \in SUBSET Flags
      BY DEF Flags
    <3> QED
      BY <3>1, <3>2, <3>3, <3>4
      DEF Next, vars, ValidateLimits, ScheduleIndexed, ScheduleMutation, GeneratorRaises,
          Finish, Evaluate, EvaluationRaises, VisitFeature, AddFeature, FeaturesRaise,
          Consider, Raise, Return, Schedule, Record
  <2>1. CASE ValidateLimits
    <3>1. CASE kind = "feedback"
      BY <2>1, <3>1, LimitsAssumption DEF ValidateLimits, CheckedLimits, LimitNames, Raise
    <3>2. CASE kind # "feedback"
      BY <2>1, <3>2 DEF ValidateLimits, Raise
    <3> QED
      BY <3>1, <3>2
  <2>2. CASE ScheduleIndexed
    BY <2>2 DEF ScheduleIndexed, Schedule, Cases
  <2>3. CASE ScheduleMutation
    <3>1. limits.mutations_per_case \in Int /\ limits.mutations_per_case > 0
      BY <2>3, LimitsAssumption DEF ScheduleMutation, ParentsLeft, LimitNames
    <3>2. CurrentParent \in 1..Len(corpus)
      BY <2>3 DEF ScheduleMutation, ParentsLeft, CurrentParent
    <3>3. Append(Parent(CurrentParent), mutation_index) \in Cases
      <4>1. corpus[CurrentParent].case \in Seq(Nat)
        <5>1. corpus[CurrentParent] \in [case : Cases, new_features : SUBSET Features]
          <6> HIDE DEF TypeOK, Validated
          <6>1. corpus \in Seq([case : Cases, new_features : SUBSET Features])
            BY DEF TypeOK
          <6> QED
            BY <3>2, <6>1, ElementOfSeq
        <5> QED
          BY <5>1 DEF Cases
      <4> QED
        BY <4>1 DEF Parent, Cases
    <3> QED
      BY <2>3, <3>1, <3>2, <3>3 DEF ScheduleMutation, Schedule, IsLastMutation
  <2>4. CASE GeneratorRaises \/ Finish \/ EvaluationRaises \/ FeaturesRaise
    BY <2>4 DEF GeneratorRaises, Finish, EvaluationRaises, FeaturesRaise, Raise, Return
  <2>5. ASSUME NEW found \in Signatures \cup {NoSignature}, NEW shown \in SUBSET Features,
               Record(found, shown), pc \in {"evaluate", "features"},
               UNCHANGED <<kind, limits, case, schedule>>
        PROVE  /\ evaluations' \in Nat /\ seen_features' \in SUBSET Features
               /\ corpus' \in Seq([case : Cases, new_features : SUBSET Features])
               /\ failures' \in Seq([evaluation_index : Nat, case : Cases,
                                     signature : Signatures])
               /\ evaluated' \in Seq([case : Cases, signature : Signatures \cup {NoSignature},
                                      features : SUBSET Features])
               /\ parent_index' \in 0..Len(corpus')
               /\ pc' \in {"schedule", "done"}
    <3>1. corpus' \in Seq([case : Cases, new_features : SUBSET Features])
          /\ Len(corpus') >= Len(corpus)
      <4> DEFINE entry == [case |-> case, new_features |-> Novel(shown)]
      <4>1. entry \in [case : Cases, new_features : SUBSET Features]
        BY DEF Novel
      <4>2. corpus' \in {corpus, Append(corpus, entry)}
        BY <2>5 DEF Record
      <4> HIDE DEF entry
      <4>3. Append(corpus, entry) \in Seq([case : Cases, new_features : SUBSET Features])
            /\ Len(Append(corpus, entry)) = Len(corpus) + 1
        BY <4>1, AppendProperties
      <4>4. Len(corpus) \in Nat
        OBVIOUS
      <4> HIDE DEF TypeOK, Validated
      <4>5. corpus \in Seq([case : Cases, new_features : SUBSET Features])
        BY DEF TypeOK
      <4>6. CASE corpus' = corpus
        BY <4>5, <4>4, <4>6
      <4>7. CASE corpus' = Append(corpus, entry)
        BY <4>3, <4>4, <4>7
      <4> QED
        BY <4>2, <4>6, <4>7
    <3>2. failures' \in Seq([evaluation_index : Nat, case : Cases, signature : Signatures])
      <4> DEFINE witness == [evaluation_index |-> evaluations, case |-> case,
                             signature |-> found]
      <4>1. CASE FailureIsNew(found)
        <5>1. found \in Signatures
          BY <4>1 DEF FailureIsNew
        <5>2. witness \in [evaluation_index : Nat, case : Cases, signature : Signatures]
          BY <5>1
        <5>3. failures' = Append(failures, witness)
          BY <2>5, <4>1 DEF Record
        <5> HIDE DEF witness
        <5> QED
          BY <5>2, <5>3
      <4>2. CASE ~FailureIsNew(found)
        BY <2>5, <4>2 DEF Record
      <4> QED
        BY <4>1, <4>2
    <3>3. evaluated' \in Seq([case : Cases, signature : Signatures \cup {NoSignature},
                              features : SUBSET Features])
      <4> DEFINE evaluation == [case |-> case, signature |-> found, features |-> shown]
      <4>1. evaluation \in [case : Cases, signature : Signatures \cup {NoSignature},
                            features : SUBSET Features]
        OBVIOUS
      <4>2. evaluated' = Append(evaluated, evaluation)
        BY <2>5 DEF Record
      <4> HIDE DEF evaluation
      <4> QED
        BY <4>1, <4>2
    <3> QED
      BY <2>5, <3>1, <3>2, <3>3 DEF Record, Return
  <2>6. CASE Evaluate
    <3> PICK found \in Signatures \cup {NoSignature} :
          /\ signature' = found /\ features' = {} /\ visits' = 0 /\ feature' = NoFeature
          /\ IF kind = "feedback"
               THEN pc' = "features" /\ UNCHANGED <<findings, outcome>>
               ELSE Record(found, {})
      BY <2>6 DEF Evaluate
    <3> pc = "evaluate" /\ UNCHANGED <<kind, limits, case, schedule>>
      BY <2>6 DEF Evaluate
    <3>1. CASE kind = "feedback"
      BY <3>1
    <3>2. CASE kind # "feedback"
      BY <2>5, <3>2
    <3> QED
      BY <3>1, <3>2
  <2>7. CASE VisitFeature
    BY <2>7 DEF VisitFeature
  <2>8. CASE AddFeature
    <3>1. feature \in Features
      BY <2>8 DEF AddFeature
    <3> QED
      BY <2>8, <3>1 DEF AddFeature, AfterVisit
  <2>9. CASE Consider
    BY <2>5, <2>9 DEF Consider
  <2>10. CASE UNCHANGED vars
    BY <2>10 DEF vars
  <2> QED
    BY <2>1, <2>2, <2>3, <2>4, <2>6, <2>7, <2>8, <2>9, <2>10 DEF Next
<1> QED
  BY <1>1, <1>2, PTL DEF Spec

(***************************************************************************)
(* The two properties, told of any lists: a list of evaluations and what   *)
(* is kept of it.                                                          *)
(***************************************************************************)
FirstIn(list, n) ==
  /\ list[n].signature # NoSignature
  /\ \A m \in 1..(n - 1) : list[m].signature # list[n].signature

AreFirstWitnesses(list, kept) ==
  /\ \A n \in DOMAIN list : FirstIn(list, n) =>
       \E i \in DOMAIN kept : kept[i].evaluation_index = n - 1
  /\ \A i \in DOMAIN kept : \E n \in DOMAIN list :
       /\ kept[i].evaluation_index = n - 1 /\ FirstIn(list, n)
       /\ kept[i].case = list[n].case /\ kept[i].signature = list[n].signature
  /\ \A i \in DOMAIN kept : \A j \in 1..(i - 1) :
       kept[j].evaluation_index < kept[i].evaluation_index

NewIn(list, n) == list[n].features \ UNION {list[m].features : m \in 1..(n - 1)}

AreNovel(list, kept) ==
  /\ \A n \in DOMAIN list : NewIn(list, n) # {} => \E i \in DOMAIN kept :
       kept[i] = [case |-> list[n].case, new_features |-> NewIn(list, n)]
  /\ \A i \in DOMAIN kept : \E n \in DOMAIN list :
       kept[i] = [case |-> list[n].case, new_features |-> NewIn(list, n)]

Shown(list) == UNION {list[n].features : n \in DOMAIN list}

(***************************************************************************)
(* Every signature met so far has a witness.  With it, a failure is new to *)
(* the code, which looks through its witnesses, exactly when it is new to  *)
(* the list of evaluations.                                                *)
(***************************************************************************)
EverySignatureHasAWitness ==
  \A n \in DOMAIN evaluated : evaluated[n].signature # NoSignature =>
    \E i \in DOMAIN failures : failures[i].signature = evaluated[n].signature

Witnesses ==
  /\ evaluations = Len(evaluated)
  /\ AreFirstWitnesses(evaluated, failures)
  /\ EverySignatureHasAWitness

\* However flaky the targets are, the failures kept are the first witnesses of
\* their signatures, all of them, in the order they were met.
THEOREM WitnessesAreKept == Spec => []WitnessesAreTheFirst
<1>1. Init => Witnesses
  BY DEF Init, Witnesses, AreFirstWitnesses, EverySignatureHasAWitness
<1>2. TypeOK /\ Witnesses /\ [Next]_vars => Witnesses'
  <2> SUFFICES ASSUME TypeOK, Witnesses, [Next]_vars PROVE Witnesses'
    OBVIOUS
  <2>1. CASE UNCHANGED findings
    BY <2>1 DEF findings, Witnesses, EverySignatureHasAWitness
  <2>2. ASSUME NEW found \in Signatures \cup {NoSignature}, NEW shown \in SUBSET Features,
               Record(found, shown)
        PROVE  Witnesses'
    <3> DEFINE last == Len(evaluated) + 1
               evaluation == [case |-> case, signature |-> found, features |-> shown]
               witness == [evaluation_index |-> evaluations, case |-> case,
                           signature |-> found]
    <3>1. /\ DOMAIN evaluated = 1..Len(evaluated) /\ Len(evaluated) \in Nat
          /\ DOMAIN failures = 1..Len(failures) /\ Len(failures) \in Nat
      BY DEF TypeOK
    <3>2. \A i \in DOMAIN failures : failures[i].evaluation_index \in Nat
      <4>1. failures \in Seq([evaluation_index : Nat, case : Cases, signature : Signatures])
        BY DEF TypeOK
      <4>2. \A i \in DOMAIN failures :
              failures[i] \in [evaluation_index : Nat, case : Cases, signature : Signatures]
        BY <3>1, <4>1, ElementOfSeq
      <4> QED
        BY <4>2
    <3>3. /\ evaluations' = Len(evaluated') /\ evaluations = Len(evaluated)
          /\ DOMAIN evaluated' = 1..last
          /\ evaluated'[last] = evaluation
          /\ \A n \in 1..Len(evaluated) : evaluated'[n] = evaluated[n]
      BY <2>2 DEF Record, TypeOK, Witnesses
    <3>4. \A n \in 1..Len(evaluated) : FirstIn(evaluated', n) <=> FirstIn(evaluated, n)
      BY <3>1, <3>3 DEF FirstIn
    <3>5. FirstIn(evaluated', last) <=> FailureIsNew(found)
      <4>1. FirstIn(evaluated', last) <=>
              /\ found # NoSignature
              /\ \A m \in 1..Len(evaluated) : evaluated[m].signature # found
        BY <3>1, <3>3 DEF FirstIn
      <4>2. \A i \in DOMAIN failures : \E n \in 1..Len(evaluated) :
              failures[i].signature = evaluated[n].signature
        BY <3>1 DEF Witnesses, AreFirstWitnesses
      <4> QED
        BY <3>1, <4>1, <4>2 DEF FailureIsNew, Witnesses, EverySignatureHasAWitness
    <3>6. CASE FailureIsNew(found)
      <4>1. /\ DOMAIN failures' = 1..(Len(failures) + 1)
            /\ failures'[Len(failures) + 1] = witness
            /\ \A i \in DOMAIN failures : failures'[i] = failures[i]
        BY <2>2, <3>1, <3>6 DEF Record, TypeOK
      <4>2. \A i \in DOMAIN failures : failures[i].evaluation_index < Len(evaluated)
        BY <3>1, <3>2 DEF Witnesses, AreFirstWitnesses
      <4>3. EverySignatureHasAWitness'
        BY <3>1, <3>3, <4>1 DEF Witnesses, EverySignatureHasAWitness
      <4>4. \A n \in DOMAIN evaluated' : FirstIn(evaluated', n) =>
              \E i \in DOMAIN failures' : failures'[i].evaluation_index = n - 1
        <5>1. \A n \in 1..Len(evaluated) : FirstIn(evaluated', n) =>
                \E i \in DOMAIN failures : failures[i].evaluation_index = n - 1
          BY <3>1, <3>4 DEF Witnesses, AreFirstWitnesses
        <5>2. failures'[Len(failures) + 1].evaluation_index = last - 1
          BY <3>1, <3>3, <4>1
        <5> QED
          BY <3>1, <3>3, <4>1, <5>1, <5>2
      <4>5. \A i \in DOMAIN failures' : \E n \in DOMAIN evaluated' :
              /\ failures'[i].evaluation_index = n - 1 /\ FirstIn(evaluated', n)
              /\ failures'[i].case = evaluated'[n].case
              /\ failures'[i].signature = evaluated'[n].signature
        <5>1. \A i \in DOMAIN failures : \E n \in 1..Len(evaluated) :
                /\ failures[i].evaluation_index = n - 1 /\ FirstIn(evaluated', n)
                /\ failures[i].case = evaluated'[n].case
                /\ failures[i].signature = evaluated'[n].signature
          <6> TAKE i \in DOMAIN failures
          <6> PICK n \in DOMAIN evaluated :
                /\ failures[i].evaluation_index = n - 1 /\ FirstIn(evaluated, n)
                /\ failures[i].case = evaluated[n].case
                /\ failures[i].signature = evaluated[n].signature
            BY DEF Witnesses, AreFirstWitnesses
          <6>1. n \in 1..Len(evaluated) /\ evaluated'[n] = evaluated[n]
            BY <3>1, <3>3
          <6> QED
            BY <3>4, <6>1
        <5>2. /\ witness.evaluation_index = last - 1 /\ FirstIn(evaluated', last)
              /\ witness.case = evaluated'[last].case
              /\ witness.signature = evaluated'[last].signature
          BY <3>1, <3>3, <3>5, <3>6
        <5> HIDE DEF witness, evaluation
        <5>3. last \in DOMAIN evaluated' /\ 1..Len(evaluated) \subseteq DOMAIN evaluated'
          BY <3>1, <3>3
        <5> HIDE DEF last
        <5> TAKE i \in DOMAIN failures'
        <5>4. CASE i \in DOMAIN failures
          BY <4>1, <5>1, <5>3, <5>4
        <5>5. CASE i = Len(failures) + 1
          BY <4>1, <5>2, <5>3, <5>5
        <5> QED
          BY <3>1, <4>1, <5>4, <5>5
      <4>6. \A i \in DOMAIN failures' : \A j \in 1..(i - 1) :
              failures'[j].evaluation_index < failures'[i].evaluation_index
        <5> TAKE i \in DOMAIN failures'
        <5> TAKE j \in 1..(i - 1)
        <5>1. j \in DOMAIN failures /\ failures'[j] = failures[j]
          BY <3>1, <4>1
        <5>2. CASE i \in DOMAIN failures
          BY <4>1, <5>1, <5>2 DEF Witnesses, AreFirstWitnesses
        <5>3. CASE i = Len(failures) + 1
          <6>1. failures'[i].evaluation_index = Len(evaluated)
            BY <3>3, <4>1, <5>3
          <6> QED
            BY <4>2, <5>1, <6>1
        <5> QED
          BY <3>1, <4>1, <5>2, <5>3
      <4> QED
        BY <3>3, <4>3, <4>4, <4>5, <4>6 DEF Witnesses, AreFirstWitnesses
    <3>7. CASE ~FailureIsNew(found)
      <4>1. failures' = failures
        BY <2>2, <3>7 DEF Record
      <4>2. EverySignatureHasAWitness'
        BY <3>1, <3>3, <3>7, <4>1 DEF Witnesses, EverySignatureHasAWitness, FailureIsNew
      <4>3. AreFirstWitnesses(evaluated', failures)
        <5>1. \A n \in DOMAIN evaluated' : FirstIn(evaluated', n) =>
                n \in DOMAIN evaluated /\ FirstIn(evaluated, n)
          BY <3>1, <3>3, <3>4, <3>5, <3>7
        <5>2. \A n \in DOMAIN evaluated :
                /\ n \in DOMAIN evaluated' /\ evaluated'[n] = evaluated[n]
                /\ FirstIn(evaluated, n) => FirstIn(evaluated', n)
          BY <3>1, <3>3, <3>4
        <5>3. AreFirstWitnesses(evaluated, failures)
          BY DEF Witnesses
        <5>4. \A n \in DOMAIN evaluated' : FirstIn(evaluated', n) =>
                \E i \in DOMAIN failures : failures[i].evaluation_index = n - 1
          BY <5>1, <5>3 DEF AreFirstWitnesses
        <5>5. \A i \in DOMAIN failures : \E n \in DOMAIN evaluated' :
                /\ failures[i].evaluation_index = n - 1 /\ FirstIn(evaluated', n)
                /\ failures[i].case = evaluated'[n].case
                /\ failures[i].signature = evaluated'[n].signature
          <6> TAKE i \in DOMAIN failures
          <6> PICK n \in DOMAIN evaluated :
                /\ failures[i].evaluation_index = n - 1 /\ FirstIn(evaluated, n)
                /\ failures[i].case = evaluated[n].case
                /\ failures[i].signature = evaluated[n].signature
            BY <5>3 DEF AreFirstWitnesses
          <6> QED
            BY <5>2
        <5> QED
          BY <5>3, <5>4, <5>5 DEF AreFirstWitnesses
      <4> QED
        BY <3>3, <4>1, <4>2, <4>3 DEF Witnesses
    <3> QED
      BY <3>6, <3>7
  <2>3. CASE Evaluate
    BY <2>1, <2>2, <2>3 DEF Evaluate
  <2>4. CASE Consider
    BY <2>2, <2>4 DEF Consider, TypeOK
  <2> QED
    BY <2>1, <2>3, <2>4
    DEF Next, vars, ValidateLimits, ScheduleIndexed, ScheduleMutation, GeneratorRaises,
        Finish, EvaluationRaises, VisitFeature, AddFeature, FeaturesRaise
<1>3. TypeOK /\ Witnesses => WitnessesAreTheFirst
  <2> SUFFICES ASSUME TypeOK, Witnesses PROVE WitnessesAreTheFirst
    OBVIOUS
  <2>1. DOMAIN evaluated = 1..Len(evaluated) /\ Len(evaluated) \in Nat
    BY DEF TypeOK
  <2> QED
    BY <2>1 DEF Witnesses, AreFirstWitnesses, FirstIn, WitnessesAreTheFirst, IsFirstWitness
<1> QED
  BY <1>1, <1>2, <1>3, TypeCorrect, PTL DEF Spec

Corpus == seen_features = Shown(evaluated) /\ AreNovel(evaluated, corpus)

\* The corpus holds exactly the cases that showed a feature no earlier case had
\* shown, each with the features that were new then.
THEOREM CorpusIsNovel == Spec => []CorpusIsWhatWasNovel
<1>1. Init => Corpus
  BY DEF Init, Corpus, Shown, AreNovel
<1>2. TypeOK /\ Corpus /\ [Next]_vars => Corpus'
  <2> SUFFICES ASSUME TypeOK, Corpus, [Next]_vars PROVE Corpus'
    OBVIOUS
  <2>1. CASE UNCHANGED findings
    BY <2>1 DEF findings, Corpus
  <2>2. ASSUME NEW found \in Signatures \cup {NoSignature}, NEW shown \in SUBSET Features,
               Record(found, shown)
        PROVE  Corpus'
    <3> DEFINE last == Len(evaluated) + 1
               evaluation == [case |-> case, signature |-> found, features |-> shown]
               entry == [case |-> case, new_features |-> Novel(shown)]
    <3>1. /\ DOMAIN evaluated = 1..Len(evaluated) /\ Len(evaluated) \in Nat
          /\ DOMAIN corpus = 1..Len(corpus) /\ Len(corpus) \in Nat
      BY DEF TypeOK
    <3>2. /\ DOMAIN evaluated' = 1..last
          /\ evaluated'[last] = evaluation
          /\ \A n \in 1..Len(evaluated) : evaluated'[n] = evaluated[n]
      BY <2>2 DEF Record, TypeOK
    <3>3. \A n \in 1..Len(evaluated) : NewIn(evaluated', n) = NewIn(evaluated, n)
      <4> TAKE n \in 1..Len(evaluated)
      <4>1. \A m \in 1..(n - 1) : evaluated'[m] = evaluated[m]
        BY <3>1, <3>2
      <4>2. evaluated'[n] = evaluated[n]
        BY <3>2
      <4>3. {evaluated'[m].features : m \in 1..(n - 1)} = {evaluated[m].features : m \in 1..(n - 1)}
        BY <4>1
      <4> QED
        BY <4>2, <4>3 DEF NewIn
    <3>4. /\ seen_features = UNION {evaluated'[n].features : n \in 1..Len(evaluated)}
          /\ seen_features' = seen_features \cup shown
      <4>1. {evaluated'[n].features : n \in 1..Len(evaluated)}
              = {evaluated[n].features : n \in 1..Len(evaluated)}
        BY <3>2
      <4> QED
        BY <2>2, <3>1, <4>1 DEF Record, Corpus, Shown
    <3>5. NewIn(evaluated', last) = Novel(shown)
      <4>1. 1..(last - 1) = 1..Len(evaluated)
        BY <3>1
      <4> QED
        BY <3>2, <3>4, <4>1 DEF NewIn, Novel
    <3>6. seen_features' = Shown(evaluated')
      <4>1. DOMAIN evaluated' = 1..Len(evaluated) \cup {last}
        BY <3>1, <3>2
      <4>2. evaluated'[last].features = shown
        BY <3>2
      <4> HIDE DEF last
      <4> QED
        BY <3>4, <4>1, <4>2 DEF Shown
    <3>7. \A i \in DOMAIN corpus : \E n \in 1..Len(evaluated) :
            corpus[i] = [case |-> evaluated'[n].case, new_features |-> NewIn(evaluated', n)]
      BY <3>1, <3>2, <3>3 DEF Corpus, AreNovel
    <3>8. \A n \in 1..Len(evaluated) : NewIn(evaluated', n) # {} => \E i \in DOMAIN corpus :
            corpus[i] = [case |-> evaluated'[n].case, new_features |-> NewIn(evaluated', n)]
      BY <3>1, <3>2, <3>3 DEF Corpus, AreNovel
    <3>9. CASE Novel(shown) # {}
      <4>1. /\ DOMAIN corpus' = 1..(Len(corpus) + 1)
            /\ corpus'[Len(corpus) + 1] = entry
            /\ \A i \in DOMAIN corpus : corpus'[i] = corpus[i]
        BY <2>2, <3>1, <3>9 DEF Record, TypeOK
      <4>2. entry = [case |-> evaluated'[last].case, new_features |-> NewIn(evaluated', last)]
        BY <3>2, <3>5
      <4> HIDE DEF entry
      <4>3. AreNovel(evaluated', corpus')
        <5> HIDE DEF evaluation
        <5>1. /\ DOMAIN evaluated' = 1..Len(evaluated) \cup {last}
              /\ DOMAIN corpus' = DOMAIN corpus \cup {Len(corpus) + 1}
          BY <3>1, <3>2, <4>1
        <5> HIDE DEF last
        <5>2. \A n \in DOMAIN evaluated' : NewIn(evaluated', n) # {} =>
                \E i \in DOMAIN corpus' :
                  corpus'[i] = [case |-> evaluated'[n].case,
                                new_features |-> NewIn(evaluated', n)]
          BY <3>8, <4>1, <4>2, <5>1
        <5>3. \A i \in DOMAIN corpus' : \E n \in DOMAIN evaluated' :
                corpus'[i] = [case |-> evaluated'[n].case,
                              new_features |-> NewIn(evaluated', n)]
          BY <3>7, <4>1, <4>2, <5>1
        <5> QED
          BY <5>2, <5>3 DEF AreNovel
      <4> QED
        BY <3>6, <4>3 DEF Corpus
    <3>10. CASE Novel(shown) = {}
      <4>1. corpus' = corpus
        BY <2>2, <3>10 DEF Record
      <4>2. AreNovel(evaluated', corpus)
        BY <3>1, <3>2, <3>5, <3>7, <3>8, <3>10 DEF AreNovel
      <4> QED
        BY <3>6, <4>1, <4>2 DEF Corpus
    <3> QED
      BY <3>9, <3>10
  <2>3. CASE Evaluate
    BY <2>1, <2>2, <2>3 DEF Evaluate
  <2>4. CASE Consider
    BY <2>2, <2>4 DEF Consider, TypeOK
  <2> QED
    BY <2>1, <2>3, <2>4
    DEF Next, vars, ValidateLimits, ScheduleIndexed, ScheduleMutation, GeneratorRaises,
        Finish, EvaluationRaises, VisitFeature, AddFeature, FeaturesRaise
<1>3. Corpus => CorpusIsWhatWasNovel
  BY DEF Corpus, Shown, AreNovel, NewIn, CorpusIsWhatWasNovel, NewFeaturesOf
<1> QED
  BY <1>1, <1>2, <1>3, TypeCorrect, PTL DEF Spec

(***************************************************************************)
(* The order in which cases are taken.  Taken counts the cases scheduled,  *)
(* the one under evaluation included; MutationsTaken counts those of them  *)
(* that the schedule's two indices stand for.                              *)
(***************************************************************************)
Busy == pc \in {"evaluate", "features", "add"}
Taken == IF Busy THEN evaluations + 1 ELSE evaluations
MutationsTaken ==
  IF mutation_index = 0 THEN parent_index * limits.mutations_per_case
  ELSE (parent_index - 1) * limits.mutations_per_case + mutation_index

\* ScheduledCase told without a division: the n-th case is a seed, or mutation m of the
\* corpus entry that has n - seeds - 1 - m mutations before its own.
IsMutation(n, c) ==
  \E entry \in 1..parent_index, mutation \in 0..(limits.mutations_per_case - 1) :
    /\ n - limits.seeds - 1 = (entry - 1) * limits.mutations_per_case + mutation
    /\ c = Append(corpus[entry].case, mutation)
IsScheduled(n, c) ==
  IF kind # "feedback" \/ n <= limits.seeds THEN c = <<n - 1>> ELSE IsMutation(n, c)

AllScheduled == \A n \in DOMAIN evaluated : IsScheduled(n, evaluated[n].case)

Order ==
  /\ evaluations = Len(evaluated) /\ AllScheduled
  /\ Busy => IsScheduled(evaluations + 1, case)
  /\ pc = "validate" => parent_index = 0 /\ mutation_index = 0
  /\ (Busy \/ pc = "schedule" \/ Returned) /\ kind = "feedback" =>
       IF Taken <= limits.seeds THEN parent_index = 0 /\ mutation_index = 0
                                ELSE Taken = limits.seeds + MutationsTaken

(***************************************************************************)
(* While a campaign runs it is below every ceiling: a result that reaches  *)
(* one ends it in the same step.                                           *)
(***************************************************************************)
Below ==
  /\ pc \notin {"validate", "done"} =>
       /\ \A name \in CheckedLimits : limits[name] > 0
       /\ evaluations <= limits.max_evaluations /\ (Busy => evaluations < limits.max_evaluations)
       /\ Len(failures) < FailureLimit
       /\ kind = "feedback" => Len(corpus) < limits.max_corpus_entries
  /\ pc = "validate" => evaluations = 0 /\ Len(failures) = 0 /\ Len(corpus) = 0
  /\ pc # "done" => outcome = Running

\* The only multiple of k strictly between -k and k is zero.
LEMMA SmallMultiple ==
  ASSUME NEW k \in Nat \ {0}, NEW x \in Int, k * x < k, -k < k * x
  PROVE  x = 0
<1>1. CASE x >= 1
  <2>1. k * x >= k
    BY <1>1
  <2> QED
    BY <2>1
<1>2. CASE x <= -1
  <2>1. k * x <= -k
    BY <1>2
  <2> QED
    BY <2>1
<1> QED
  BY <1>1, <1>2

\* Quotient and remainder are unique.
LEMMA DivMod ==
  ASSUME NEW k \in Nat \ {0}, NEW q \in Nat, NEW r \in 0..(k - 1)
  PROVE  (q * k + r) \div k = q /\ (q * k + r) % k = r
<1> DEFINE a == q * k + r
           d == a \div k
           m == a % k
<1>1. a \in Nat
  OBVIOUS
<1> HIDE DEF a
<1>2. d \in Int /\ m \in 0..(k - 1) /\ a = k * d + m
  BY <1>1
<1> HIDE DEF d, m
<1>3. k * (d - q) = r - m
  BY <1>2 DEF a
<1>4. d - q = 0
  BY <1>2, <1>3, SmallMultiple
<1> QED
  BY <1>2, <1>3, <1>4 DEF d, m, a
\* Every limit a campaign reads is an integer, and which of them it has checked.
LEMMA LimitTypes ==
  ASSUME TypeOK
  PROVE  /\ \A name \in LimitNames : limits[name] \in Int
         /\ limits.seeds \in Int /\ limits.mutations_per_case \in Int
         /\ limits.max_evaluations \in Int /\ limits.max_corpus_entries \in Int
         /\ limits.max_unique_failures \in Int /\ FailureLimit \in Int
         /\ CheckedLimits \subseteq LimitNames
         /\ "max_evaluations" \in CheckedLimits
         /\ kind = "discovery" => "max_unique_failures" \in CheckedLimits
         /\ kind = "feedback" => CheckedLimits = LimitNames
<1>1. limits \in [LimitNames -> Int] /\ kind \in {"fuzz", "discovery", "feedback"}
  BY LimitsAssumption DEF TypeOK
<1>2. /\ limits.seeds \in Int /\ limits.mutations_per_case \in Int
      /\ limits.max_evaluations \in Int /\ limits.max_corpus_entries \in Int
      /\ limits.max_unique_failures \in Int
  BY <1>1 DEF LimitNames
<1>3. CASE kind = "fuzz"
  BY <1>1, <1>2, <1>3 DEF CheckedLimits, LimitNames, FailureLimit
<1>4. CASE kind = "discovery"
  BY <1>1, <1>2, <1>4 DEF CheckedLimits, LimitNames, FailureLimit
<1>5. CASE kind = "feedback"
  BY <1>1, <1>2, <1>5 DEF CheckedLimits, LimitNames, FailureLimit
<1> QED
  BY <1>1, <1>3, <1>4, <1>5

\* The types of the lists and counters, as the steps below use them.
LEMMA Lengths ==
  ASSUME TypeOK
  PROVE  /\ DOMAIN evaluated = 1..Len(evaluated) /\ Len(evaluated) \in Nat
         /\ DOMAIN corpus = 1..Len(corpus) /\ Len(corpus) \in Nat
         /\ Len(failures) \in Nat
         /\ evaluations \in Nat /\ mutation_index \in Nat
         /\ parent_index \in Nat /\ parent_index <= Len(corpus)
BY DEF TypeOK

\* What recording an evaluation does to the three lists.
LEMMA Recorded ==
  ASSUME TypeOK, NEW found, NEW shown, Record(found, shown)
  PROVE  /\ Len(evaluated') = Len(evaluated) + 1
         /\ DOMAIN evaluated' = 1..(Len(evaluated) + 1)
         /\ evaluated'[Len(evaluated) + 1].case = case
         /\ \A n \in 1..Len(evaluated) : evaluated'[n] = evaluated[n]
         /\ Len(failures') \in {Len(failures), Len(failures) + 1}
         /\ Len(corpus') \in {Len(corpus), Len(corpus) + 1}
         /\ \A n \in 1..Len(corpus) : corpus'[n] = corpus[n]
<1> DEFINE evaluation == [case |-> case, signature |-> found, features |-> shown]
           witness == [evaluation_index |-> evaluations, case |-> case, signature |-> found]
           entry == [case |-> case, new_features |-> Novel(shown)]
<1>1. /\ evaluated' = Append(evaluated, evaluation)
      /\ failures' \in {failures, Append(failures, witness)}
      /\ corpus' \in {corpus, Append(corpus, entry)}
  BY DEF Record
<1>2. evaluation.case = case
  OBVIOUS
<1> HIDE DEF evaluation, witness, entry
<1>3. /\ evaluated \in Seq([case : Cases, signature : Signatures \cup {NoSignature},
                          features : SUBSET Features])
      /\ failures \in Seq([evaluation_index : Nat, case : Cases, signature : Signatures])
      /\ corpus \in Seq([case : Cases, new_features : SUBSET Features])
  BY DEF TypeOK
<1>4. ASSUME NEW S, NEW list \in Seq(S), NEW e
      PROVE  /\ DOMAIN Append(list, e) = 1..(Len(list) + 1)
             /\ Len(Append(list, e)) = Len(list) + 1
             /\ Append(list, e)[Len(list) + 1] = e
             /\ \A n \in 1..Len(list) : Append(list, e)[n] = list[n]
  OBVIOUS
<1>5. /\ Len(evaluated') = Len(evaluated) + 1
      /\ DOMAIN evaluated' = 1..(Len(evaluated) + 1)
      /\ evaluated'[Len(evaluated) + 1].case = case
      /\ \A n \in 1..Len(evaluated) : evaluated'[n] = evaluated[n]
  BY <1>1, <1>2, <1>3, <1>4
<1>6. Len(failures') \in {Len(failures), Len(failures) + 1}
  BY <1>1, <1>3, <1>4
<1>7. /\ Len(corpus') \in {Len(corpus), Len(corpus) + 1}
      /\ \A n \in 1..Len(corpus) : corpus'[n] = corpus[n]
  BY <1>1, <1>3, <1>4
<1> QED
  BY <1>5, <1>6, <1>7


\* Below is inductive.
LEMMA Ceilings == Spec => []Below
<1>1. Init => Below
  BY DEF Init, Below
<1>2. TypeOK /\ Below /\ [Next]_vars => Below'
  <2> SUFFICES ASSUME TypeOK, Below, [Next]_vars PROVE Below'
    OBVIOUS
  <2>1. UNCHANGED <<kind, limits>> /\ CheckedLimits' = CheckedLimits
        /\ FailureLimit' = FailureLimit
    <3>1. UNCHANGED <<kind, limits>>
      BY DEF Next, vars, ValidateLimits, ScheduleIndexed, ScheduleMutation, GeneratorRaises,
             Finish, Evaluate, EvaluationRaises, VisitFeature, AddFeature, FeaturesRaise, Consider
    <3> QED
      BY <3>1 DEF CheckedLimits, FailureLimit
  <2>2. CASE pc' = "done"
    BY <2>2 DEF Below
  <2>3. ASSUME ValidateLimits, pc' # "done" PROVE Below'
    <3>1. \A name \in CheckedLimits : limits[name] > 0
      BY <2>3, LimitTypes DEF ValidateLimits, Raise
    <3>2. FailureLimit > 0 /\ limits.max_evaluations > 0
          /\ (kind = "feedback" => limits.max_corpus_entries > 0)
      BY <3>1, LimitTypes DEF FailureLimit, LimitNames, TypeOK
    <3>3. /\ pc' = "schedule" /\ UNCHANGED outcome /\ pc = "validate"
          /\ UNCHANGED <<evaluations, failures, corpus>>
      BY <2>3 DEF ValidateLimits, Raise, findings
    <3>4. evaluations = 0 /\ Len(failures) = 0 /\ Len(corpus) = 0 /\ outcome = Running
      BY <3>3 DEF Below
    <3> QED
      BY <2>1, <3>1, <3>2, <3>3, <3>4, LimitTypes DEF Below, Busy
  <2>4. ASSUME ScheduleIndexed \/ ScheduleMutation PROVE Below'
    <3>1. /\ pc = "schedule" /\ pc' = "evaluate" /\ ~BudgetSpent
          /\ UNCHANGED <<evaluations, failures, corpus, outcome>>
      BY <2>4 DEF ScheduleIndexed, ScheduleMutation, Schedule, findings
    <3> QED
      BY <2>1, <3>1, LimitTypes, Lengths DEF Below, Busy, BudgetSpent
  <2>5. ASSUME VisitFeature \/ AddFeature PROVE Below'
    <3>1. /\ pc \in {"features", "add"} /\ pc' \in {"features", "add"}
          /\ UNCHANGED <<evaluations, failures, corpus, outcome>>
      BY <2>5 DEF VisitFeature, AddFeature, findings
    <3> QED
      BY <2>1, <3>1 DEF Below, Busy
  <2>6. ASSUME NEW found, NEW shown, Record(found, shown), Busy, pc' # "done" PROVE Below'
    <3>1. /\ pc' = "schedule" /\ UNCHANGED outcome /\ LimitsReached = {}
          /\ evaluations' = evaluations + 1
      BY <2>6 DEF Record, Return
    <3>2. /\ Len(failures') < FailureLimit
          /\ kind = "feedback" => Len(corpus') < limits.max_corpus_entries
      BY <2>6, <3>1, Recorded, Lengths, LimitTypes DEF LimitsReached
    <3>3. evaluations < limits.max_evaluations /\ pc \notin {"validate", "done"}
      BY <2>6 DEF Below, Busy
    <3> QED
      BY <2>1, <3>1, <3>2, <3>3, LimitTypes, Lengths DEF Below, Busy
  <2>7. ASSUME Evaluate, kind = "feedback" PROVE Below'
    <3>1. pc = "evaluate" /\ pc' = "features" /\ UNCHANGED <<evaluations, failures, corpus, outcome>>
      BY <2>7 DEF Evaluate, findings
    <3> QED
      BY <2>1, <3>1 DEF Below, Busy
  <2>8. ASSUME (Evaluate /\ kind # "feedback") \/ Consider, pc' # "done" PROVE Below'
    BY <2>6, <2>8 DEF Evaluate, Consider, Busy
  <2>9. CASE GeneratorRaises \/ Finish \/ EvaluationRaises \/ FeaturesRaise
    BY <2>2, <2>9 DEF GeneratorRaises, Finish, EvaluationRaises, FeaturesRaise, Raise, Return
  <2>10. CASE UNCHANGED vars
    BY <2>1, <2>10 DEF vars, findings, Below, Busy
  <2> QED
    BY <2>2, <2>3, <2>4, <2>5, <2>7, <2>8, <2>9, <2>10 DEF Next
<1> QED
  BY <1>1, <1>2, TypeCorrect, PTL DEF Spec

\* What is scheduled stays so while corpus entries are added and parents are taken.
LEMMA StaysScheduled ==
  ASSUME NEW n \in Nat, NEW c, TypeOK, IsScheduled(n, c), UNCHANGED <<kind, limits>>,
         parent_index' \in Int, parent_index <= parent_index',
         \A entry \in 1..Len(corpus) : corpus'[entry] = corpus[entry]
  PROVE  IsScheduled(n, c)'
<1>1. CASE kind # "feedback" \/ n <= limits.seeds
  BY <1>1 DEF IsScheduled
<1>2. CASE ~(kind # "feedback" \/ n <= limits.seeds)
  <2> PICK entry \in 1..parent_index, mutation \in 0..(limits.mutations_per_case - 1) :
        /\ n - limits.seeds - 1 = (entry - 1) * limits.mutations_per_case + mutation
        /\ c = Append(corpus[entry].case, mutation)
    BY <1>2 DEF IsScheduled, IsMutation
  <2>1. entry \in 1..parent_index' /\ entry \in 1..Len(corpus) /\ corpus'[entry] = corpus[entry]
    BY Lengths
  <2> QED
    BY <1>2, <2>1 DEF IsScheduled, IsMutation
<1> QED
  BY <1>1, <1>2

\* ScheduleMutation takes the next mutation in line.
LEMMA TakesTheNext ==
  ASSUME TypeOK, Below, Order, ScheduleMutation
  PROVE  /\ evaluations >= limits.seeds /\ evaluations = limits.seeds + MutationsTaken
         /\ limits.mutations_per_case > 0
         /\ CurrentParent \in 1..Len(corpus) /\ mutation_index \in 0..(limits.mutations_per_case - 1)
         /\ MutationsTaken = (CurrentParent - 1) * limits.mutations_per_case + mutation_index
         /\ MutationsTaken' = MutationsTaken + 1
         /\ parent_index' = CurrentParent /\ parent_index <= CurrentParent
<1>1. /\ kind = "feedback" /\ evaluations >= limits.seeds /\ pc = "schedule"
      /\ mutation_index > 0 \/ parent_index < Len(corpus)
      /\ parent_index' = CurrentParent /\ UNCHANGED limits
      /\ mutation_index' = IF mutation_index = limits.mutations_per_case - 1 THEN 0
                                                                           ELSE mutation_index + 1
  BY LimitTypes, Lengths DEF ScheduleMutation, SeedsLeft, ParentsLeft, IsLastMutation
<1>2. limits.mutations_per_case > 0 /\ limits.seeds > 0
  BY <1>1, LimitTypes DEF Below, LimitNames
<1>3. mutation_index = 0 \/ (parent_index > 0 /\ mutation_index < limits.mutations_per_case)
  BY DEF TypeOK
<1>4. evaluations = limits.seeds + MutationsTaken
  <2>1. IF evaluations <= limits.seeds THEN parent_index = 0 /\ mutation_index = 0
                                       ELSE evaluations = limits.seeds + MutationsTaken
    BY <1>1 DEF Order, Taken, Busy
  <2>2. CASE evaluations = limits.seeds
    BY <2>1, <2>2, LimitTypes DEF MutationsTaken
  <2> QED
    BY <1>1, <2>1, <2>2, LimitTypes, Lengths
<1>5. CurrentParent \in 1..Len(corpus) /\ parent_index <= CurrentParent
  BY <1>1, <1>3, Lengths DEF CurrentParent
<1>6. MutationsTaken = (CurrentParent - 1) * limits.mutations_per_case + mutation_index
  <2>1. CASE mutation_index = 0
    BY <2>1, LimitTypes, Lengths DEF MutationsTaken, CurrentParent
  <2>2. CASE mutation_index # 0
    BY <2>2, LimitTypes, Lengths DEF MutationsTaken, CurrentParent
  <2> QED
    BY <2>1, <2>2
<1>7. MutationsTaken' = MutationsTaken + 1
  <2> DEFINE k == limits.mutations_per_case
             p == CurrentParent
  <2>1. p \in Nat /\ k \in Nat /\ mutation_index \in Nat
    BY <1>2, <1>5, LimitTypes, Lengths
  <2>2. CASE mutation_index = k - 1
    <3>1. MutationsTaken' = p * k
      BY <1>1, <2>2 DEF MutationsTaken
    <3>2. MutationsTaken = (p - 1) * k + k - 1
      BY <1>6, <2>1, <2>2
    <3> HIDE DEF k, p
    <3> QED
      BY <2>1, <3>1, <3>2
  <2>3. CASE mutation_index # k - 1
    <3>1. MutationsTaken' = (p - 1) * k + (mutation_index + 1)
      BY <1>1, <2>1, <2>3 DEF MutationsTaken
    <3>2. (p - 1) * k \in Int
      <4> HIDE DEF k, p
      <4> QED
        BY <2>1
    <3> QED
      BY <1>6, <2>1, <3>1, <3>2
  <2> QED
    BY <2>2, <2>3
<1>8. mutation_index \in 0..(limits.mutations_per_case - 1)
  BY <1>2, <1>3, LimitTypes, Lengths
<1> QED
  BY <1>1, <1>2, <1>4, <1>5, <1>6, <1>7, <1>8

\* Order is inductive, given Below.
LEMMA OrderIsKept == Spec => []Order
<1>1. Init => Order
  BY DEF Init, Order, AllScheduled, Busy, Running, Returned
<1>2. TypeOK /\ Below /\ Order /\ [Next]_vars => Order'
  <2> SUFFICES ASSUME TypeOK, Below, Order, [Next]_vars PROVE Order'
    OBVIOUS
  <2>1. UNCHANGED <<kind, limits>>
    BY DEF Next, vars, ValidateLimits, ScheduleIndexed, ScheduleMutation, GeneratorRaises,
           Finish, Evaluate, EvaluationRaises, VisitFeature, AddFeature, FeaturesRaise, Consider
  <2>2. ASSUME UNCHANGED <<evaluated, evaluations>>, parent_index' \in Int,
               parent_index <= parent_index', UNCHANGED corpus
        PROVE  evaluations' = Len(evaluated') /\ AllScheduled'
    <3>1. evaluations' = Len(evaluated')
      BY <2>2 DEF Order
    <3>2. ASSUME NEW n \in DOMAIN evaluated', NEW c, c = evaluated'[n].case
          PROVE  IsScheduled(n, c)'
      <4>1. n \in Nat /\ IsScheduled(n, c)
        BY <2>2, <3>2, Lengths DEF Order, AllScheduled
      <4> QED
        BY <2>1, <2>2, <4>1, StaysScheduled
    <3>3. AllScheduled'
      BY <3>2 DEF AllScheduled, IsScheduled, IsMutation
    <3> QED
      BY <3>1, <3>3
  <2>3. ASSUME pc' = "done", ~Returned', UNCHANGED <<findings, schedule>>
        PROVE  Order'
    BY <2>2, <2>3, Lengths DEF Order, Busy, findings, schedule
  <2> DEFINE Place ==
        IF Taken <= limits.seeds THEN parent_index = 0 /\ mutation_index = 0
                                 ELSE Taken = limits.seeds + MutationsTaken
  <2>4. ASSUME ValidateLimits, pc' = "schedule" PROVE Order'
    <3>1. limits.seeds > 0 \/ kind # "feedback"
      BY <2>4, LimitTypes DEF ValidateLimits, Raise, LimitNames
    <3>2. /\ UNCHANGED <<findings, schedule, outcome>> /\ outcome = Running
          /\ evaluations = 0 /\ parent_index = 0 /\ mutation_index = 0
      BY <2>4 DEF ValidateLimits, Raise, Below, Order
    <3>3. (kind = "feedback" => Place)'
      BY <2>1, <2>4, <3>1, <3>2, LimitTypes DEF Taken, Busy, findings, schedule
    <3> HIDE DEF Place
    <3>4. /\ evaluations' = Len(evaluated') /\ AllScheduled'
      BY <2>2, <3>2, Lengths DEF findings, schedule
    <3>5. ~Busy' /\ pc' # "validate"
      BY <2>4 DEF Busy
    <3> QED
      BY <3>3, <3>4, <3>5 DEF Order, Place
  <2>5. ASSUME ScheduleIndexed PROVE Order'
    <3>1. /\ pc = "schedule" /\ pc' = "evaluate" /\ case' = <<evaluations>>
          /\ UNCHANGED <<findings, schedule>>
          /\ kind = "feedback" => evaluations < limits.seeds
      BY <2>5 DEF ScheduleIndexed, Schedule, SeedsLeft
    <3>2. /\ evaluations' = Len(evaluated') /\ AllScheduled'
      BY <2>2, <3>1, Lengths DEF findings, schedule
    <3>3. (kind = "feedback" => Place)'
      BY <2>1, <3>1, LimitTypes, Lengths DEF Order, Taken, Busy, findings, schedule
    <3>4. IsScheduled(evaluations + 1, case)'
      BY <2>1, <3>1, LimitTypes, Lengths DEF IsScheduled, findings
    <3> HIDE DEF Place
    <3> QED
      BY <3>1, <3>2, <3>3, <3>4 DEF Order, Place
  <2>6. ASSUME ScheduleMutation PROVE Order'
    <3>1. /\ pc = "schedule" /\ pc' = "evaluate" /\ kind = "feedback"
          /\ case' = Append(corpus[CurrentParent].case, mutation_index)
          /\ UNCHANGED findings
      BY <2>6 DEF ScheduleMutation, Schedule, ParentsLeft, Parent
    <3>2. /\ evaluations' = Len(evaluated') /\ AllScheduled'
      <4>1. parent_index' \in Int /\ parent_index <= parent_index'
        BY <2>6, TakesTheNext
      <4> QED
        BY <2>2, <3>1, <4>1 DEF findings
    <3>3. Place'
      <4>1. Taken' = evaluations + 1
        BY <3>1 DEF Taken, Busy, findings
      <4>2. /\ Taken' = limits.seeds + MutationsTaken' /\ Taken' > limits.seeds
        <5>1. /\ evaluations >= limits.seeds /\ evaluations = limits.seeds + MutationsTaken
              /\ MutationsTaken' = MutationsTaken + 1
          BY <2>6, TakesTheNext
        <5>2. MutationsTaken \in Int /\ limits.seeds \in Int /\ evaluations \in Nat
          BY LimitTypes, Lengths DEF MutationsTaken
        <5> QED
          BY <4>1, <5>1, <5>2
      <4> QED
        BY <2>1, <4>2, LimitTypes
    <3>4. IsScheduled(evaluations + 1, case)'
      <4> DEFINE k == limits.mutations_per_case
      <4> DEFINE before == (CurrentParent - 1) * k
      <4>0. /\ k \in Int /\ limits.seeds \in Int /\ evaluations \in Nat
            /\ mutation_index \in Nat /\ Len(corpus) \in Nat
        BY LimitTypes, Lengths
      <4>1. /\ CurrentParent \in 1..parent_index' /\ mutation_index \in 0..(k - 1)
            /\ evaluations = limits.seeds + (before + mutation_index)
            /\ evaluations >= limits.seeds /\ before \in Int
        <5>1. /\ CurrentParent \in 1..Len(corpus) /\ parent_index' = CurrentParent
              /\ mutation_index \in 0..(k - 1) /\ evaluations >= limits.seeds
              /\ evaluations = limits.seeds + MutationsTaken
              /\ MutationsTaken = before + mutation_index
          BY <2>6, TakesTheNext
        <5>2. CurrentParent \in Int
          BY <4>0, <5>1
        <5>3. before \in Int
          BY <4>0, <5>2
        <5> QED
          BY <4>0, <5>1, <5>2, <5>3
      <4>2. (evaluations + 1) - limits.seeds - 1 = before + mutation_index
        <5> HIDE DEF before, k
        <5> QED
          BY <4>0, <4>1
      <4> HIDE DEF k
      <4>3. \E entry \in 1..parent_index', mutation \in 0..(k - 1) :
              /\ (evaluations + 1) - limits.seeds - 1 = (entry - 1) * k + mutation
              /\ case' = Append(corpus[entry].case, mutation)
        BY <3>1, <4>1, <4>2
      <4>4. ~(evaluations + 1 <= limits.seeds)
        BY <4>0, <4>1
      <4> QED
        BY <2>1, <3>1, <4>3, <4>4 DEF IsScheduled, IsMutation, findings, k
    <3> HIDE DEF Place
    <3> QED
      BY <3>1, <3>2, <3>3, <3>4 DEF Order, Place
  <2>7. ASSUME Busy, Busy', UNCHANGED <<case, findings, schedule>> PROVE Order'
    <3>1. /\ evaluations' = Len(evaluated') /\ AllScheduled'
      BY <2>2, <2>7, Lengths DEF findings, schedule
    <3>2. (kind = "feedback" => Place)'
      BY <2>1, <2>7 DEF Order, Taken, findings, schedule, MutationsTaken
    <3>3. IsScheduled(evaluations + 1, case)'
      BY <2>1, <2>7 DEF Order, IsScheduled, IsMutation, findings, schedule
    <3>4. pc' # "validate"
      BY <2>7 DEF Busy
    <3> HIDE DEF Place
    <3> QED
      BY <3>1, <3>2, <3>3, <3>4 DEF Order, Place
  <2>8. ASSUME NEW found, NEW shown, Record(found, shown), Busy, UNCHANGED <<case, schedule>>
        PROVE  Order'
    <3>1. /\ evaluations' = evaluations + 1 /\ evaluations' = Len(evaluated')
          /\ evaluations + 1 = Len(evaluated) + 1
          /\ pc' \in {"schedule", "done"} /\ UNCHANGED <<parent_index, mutation_index>>
      BY <2>8, Recorded, Lengths DEF Record, Return, Order, schedule
    <3>2. ASSUME NEW n \in DOMAIN evaluated', NEW c, c = evaluated'[n].case
          PROVE  IsScheduled(n, c)'
      <4>1. n \in Nat /\ IsScheduled(n, c)
        <5>1. CASE n \in DOMAIN evaluated
          BY <2>8, <3>2, <5>1, Recorded, Lengths DEF Order, AllScheduled
        <5>2. CASE n = Len(evaluated) + 1
          <6>1. c = case
            BY <2>8, <3>2, <5>2, Recorded
          <6> QED
            BY <2>8, <3>1, <5>2, <6>1, Lengths DEF Order
        <5> QED
          BY <2>8, <5>1, <5>2, Recorded, Lengths
      <4>2. /\ parent_index' \in Int /\ parent_index <= parent_index'
            /\ \A entry \in 1..Len(corpus) : corpus'[entry] = corpus[entry]
        BY <2>8, <3>1, Recorded, Lengths
      <4> QED
        BY <2>1, <4>1, <4>2, StaysScheduled
    <3>3. AllScheduled'
      BY <3>2 DEF AllScheduled, IsScheduled, IsMutation
    <3>4. ~Busy' /\ pc' # "validate"
      BY <3>1 DEF Busy
    <3>5. (kind = "feedback" => Place)'
      BY <2>1, <2>8, <3>1, <3>4 DEF Order, Taken, MutationsTaken
    <3> HIDE DEF Place
    <3> QED
      BY <3>1, <3>3, <3>4, <3>5 DEF Order, Place
  <2>9. ASSUME Finish PROVE Order'
    <3>1. /\ pc = "schedule" /\ pc' = "done" /\ UNCHANGED <<findings, schedule>>
      BY <2>9 DEF Finish, Return
    <3>2. /\ evaluations' = Len(evaluated') /\ AllScheduled'
      BY <2>2, <3>1, Lengths DEF findings, schedule
    <3>3. (kind = "feedback" => Place)' /\ ~Busy'
      BY <2>1, <3>1 DEF Order, Taken, Busy, findings, schedule, MutationsTaken
    <3> HIDE DEF Place
    <3> QED
      BY <3>1, <3>2, <3>3 DEF Order, Place
  <2>10. CASE GeneratorRaises \/ EvaluationRaises \/ FeaturesRaise
    <3>1. pc' = "done" /\ ~Returned' /\ UNCHANGED <<findings, schedule>>
      BY <2>10 DEF GeneratorRaises, EvaluationRaises, FeaturesRaise, Raise, Returned
    <3> QED
      BY <2>3, <3>1
  <2>11. CASE ValidateLimits /\ pc' # "schedule"
    <3>1. pc' = "done" /\ ~Returned' /\ UNCHANGED <<findings, schedule>>
      BY <2>11 DEF ValidateLimits, Raise, Returned
    <3> QED
      BY <2>3, <3>1
  <2>12. CASE VisitFeature \/ AddFeature \/ (Evaluate /\ kind = "feedback")
    BY <2>7, <2>12 DEF VisitFeature, AddFeature, Evaluate, Busy
  <2>13. CASE Consider \/ (Evaluate /\ kind # "feedback")
    BY <2>8, <2>13 DEF Consider, Evaluate, Busy
  <2>14. CASE UNCHANGED vars
    BY <2>14 DEF vars, Order, AllScheduled, IsScheduled, IsMutation, Busy, Returned, Taken, MutationsTaken,
                 findings, schedule
  <2> QED
    BY <2>4, <2>5, <2>6, <2>9, <2>10, <2>11, <2>12, <2>13, <2>14 DEF Next
<1> QED
  BY <1>1, <1>2, TypeCorrect, Ceilings, PTL DEF Spec

\* Cases are evaluated first in, first out: the seeds, then every mutation of the oldest
\* corpus entry before any of the next, although the corpus grows while it is mutated.
THEOREM FirstInFirstOut == Spec => []ScheduleIsFirstInFirstOut
<1>1. TypeOK /\ Order => ScheduleIsFirstInFirstOut
  <2> SUFFICES ASSUME TypeOK, Order, NEW n \in DOMAIN evaluated
               PROVE  evaluated[n].case = ScheduledCase(n)
    BY DEF ScheduleIsFirstInFirstOut
  <2>1. CASE kind # "feedback" \/ n <= limits.seeds
    BY <2>1 DEF Order, AllScheduled, IsScheduled, ScheduledCase
  <2>2. CASE ~(kind # "feedback" \/ n <= limits.seeds)
    <3> DEFINE k == limits.mutations_per_case
    <3> PICK entry \in 1..parent_index, mutation \in 0..(k - 1) :
          /\ n - limits.seeds - 1 = (entry - 1) * k + mutation
          /\ evaluated[n].case = Append(corpus[entry].case, mutation)
      BY <2>2 DEF Order, AllScheduled, IsScheduled, IsMutation
    <3>1. k \in Nat \ {0} /\ entry - 1 \in Nat
      <4>1. k \in Int /\ parent_index \in Nat
        BY LimitTypes, Lengths
      <4> QED
        BY <4>1
    <3> HIDE DEF k
    <3>2. ((entry - 1) * k + mutation) \div k = entry - 1
          /\ ((entry - 1) * k + mutation) % k = mutation
      BY <3>1, DivMod
    <3>3. (n - limits.seeds - 1) \div k + 1 = entry /\ (n - limits.seeds - 1) % k = mutation
      BY <3>1, <3>2
    <3> QED
      BY <2>2, <3>3 DEF ScheduledCase, k
  <2> QED
    BY <2>1, <2>2
<1> QED
  BY <1>1, OrderIsKept, TypeCorrect, PTL

(***************************************************************************)
(* A campaign that ends is below its ceilings or reaches them in its last  *)
(* step; run out of parents, it has taken every mutation of every entry.   *)
(***************************************************************************)
Exits == pc = "done" => ExitsAreTrue

LEMMA CeilingsHold ==
  ASSUME TypeOK, Below, pc # "done"
  PROVE  evaluations > 0 => /\ evaluations <= limits.max_evaluations
                            /\ Len(failures) <= FailureLimit
                            /\ kind = "feedback" => Len(corpus) <= limits.max_corpus_entries
<1>1. CASE pc = "validate"
  BY <1>1 DEF Below
<1>2. CASE pc # "validate"
  <2>1. /\ evaluations <= limits.max_evaluations
        /\ Len(failures) < FailureLimit
        /\ kind = "feedback" => Len(corpus) < limits.max_corpus_entries
    BY <1>2 DEF Below
  <2> QED
    BY <2>1, LimitTypes, Lengths
<1> QED
  BY <1>1, <1>2

\* No ceiling is passed, and the flags of a result say why the campaign ended: without a
\* flag, every mutation of every corpus entry was evaluated.
THEOREM ExitsHold == Spec => []ExitsAreTrue
<1>1. Init => Exits
  BY DEF Init, Exits
<1>2. TypeOK /\ TypeOK' /\ Below /\ Order /\ Order' /\ Exits /\ [Next]_vars => Exits'
  <2> SUFFICES ASSUME TypeOK, TypeOK', Below, Order, Order', Exits, [Next]_vars, pc' = "done"
               PROVE  ExitsAreTrue'
    BY DEF Exits
  <2>1. UNCHANGED <<kind, limits>> /\ FailureLimit' = FailureLimit
    <3>1. UNCHANGED <<kind, limits>>
      BY DEF Next, vars, ValidateLimits, ScheduleIndexed, ScheduleMutation, GeneratorRaises,
             Finish, Evaluate, EvaluationRaises, VisitFeature, AddFeature, FeaturesRaise, Consider
    <3> QED
      BY <3>1 DEF FailureLimit
  <2>2. CASE UNCHANGED vars
    <3>1. ExitsAreTrue
      BY <2>2 DEF vars, Exits
    <3> QED
      BY <2>2, <3>1 DEF vars, findings, ExitsAreTrue, Returned, FailureLimit
  <2>3. ASSUME pc # "done", ~Returned', UNCHANGED findings PROVE ExitsAreTrue'
    BY <2>1, <2>3, CeilingsHold DEF ExitsAreTrue, findings
  <2>4. CASE ValidateLimits \/ GeneratorRaises \/ EvaluationRaises \/ FeaturesRaise
    <3>1. pc # "done" /\ ~Returned' /\ UNCHANGED findings
      BY <2>4 DEF ValidateLimits, GeneratorRaises, EvaluationRaises, FeaturesRaise, Raise, Returned
    <3> QED
      BY <2>3, <3>1
  <2>5. CASE Finish
    <3>1. /\ pc = "schedule" /\ UNCHANGED <<findings, schedule>> /\ NothingLeft
          /\ outcome' = [how |-> "returned",
                         flags |-> IF BudgetSpent THEN {"exhausted_budget"} ELSE {}]
      BY <2>5 DEF Finish, Return
    <3>2. /\ limits.max_evaluations \in Int /\ limits.max_corpus_entries \in Int
          /\ limits.seeds \in Int /\ FailureLimit \in Int /\ limits.mutations_per_case \in Int
          /\ evaluations \in Nat /\ Len(failures) \in Nat /\ Len(corpus) \in Nat
          /\ parent_index \in Nat /\ parent_index <= Len(corpus) /\ mutation_index \in Nat
      BY LimitTypes, Lengths
    <3>3. /\ evaluations <= limits.max_evaluations
          /\ Len(failures) < FailureLimit
          /\ kind = "feedback" => Len(corpus) < limits.max_corpus_entries
      BY <3>1 DEF Below
    <3>4. /\ outcome'.how = "returned"
          /\ BudgetSpent => outcome'.flags = {"exhausted_budget"}
          /\ ~BudgetSpent => outcome'.flags = {}
      BY <3>1
    <3>5. BudgetSpent => evaluations = limits.max_evaluations
      BY <3>2, <3>3 DEF BudgetSpent
    <3>6. ~BudgetSpent => evaluations = limits.seeds + limits.mutations_per_case * Len(corpus)
      <4> SUFFICES ASSUME ~BudgetSpent
                   PROVE  evaluations = limits.seeds + limits.mutations_per_case * Len(corpus)
        OBVIOUS
      <4>1. /\ kind = "feedback" /\ evaluations >= limits.seeds
            /\ mutation_index = 0 /\ parent_index = Len(corpus)
        BY <3>1, <3>2 DEF NothingLeft, SeedsLeft, ParentsLeft
      <4>2. IF evaluations <= limits.seeds THEN parent_index = 0 /\ mutation_index = 0
                                           ELSE evaluations = limits.seeds + MutationsTaken
        BY <3>1, <4>1 DEF Order, Taken, Busy
      <4>3. MutationsTaken = limits.mutations_per_case * Len(corpus)
        BY <3>2, <4>1 DEF MutationsTaken
      <4>4. CASE evaluations = limits.seeds
        BY <3>2, <4>1, <4>2, <4>4
      <4>5. CASE evaluations # limits.seeds
        BY <3>2, <4>1, <4>2, <4>3, <4>5
      <4> QED
        BY <4>4, <4>5
    <3> QED
      BY <2>1, <3>1, <3>2, <3>3, <3>4, <3>5, <3>6 DEF ExitsAreTrue, findings, Returned
  <2>6. ASSUME NEW found, NEW shown, Record(found, shown), Busy PROVE ExitsAreTrue'
    <3>1. /\ outcome' = [how |-> "returned", flags |-> LimitsReached] /\ LimitsReached # {}
          /\ evaluations' = evaluations + 1
      BY <2>6 DEF Record, Return
    <3>2. /\ limits.max_evaluations \in Int /\ limits.max_corpus_entries \in Int
          /\ FailureLimit \in Int
          /\ evaluations \in Nat /\ Len(failures) \in Nat /\ Len(corpus) \in Nat
      BY LimitTypes, Lengths
    <3>3. /\ evaluations < limits.max_evaluations
          /\ Len(failures) < FailureLimit
          /\ kind = "feedback" => Len(corpus) < limits.max_corpus_entries
      BY <2>6 DEF Below, Busy
    <3>4. /\ Len(failures') \in {Len(failures), Len(failures) + 1}
          /\ Len(corpus') \in {Len(corpus), Len(corpus) + 1}
      BY <2>6, Recorded
    <3>5. /\ "exhausted_budget" \notin LimitsReached
          /\ "reached_corpus_limit" \in LimitsReached <=>
               kind = "feedback" /\ Len(corpus') >= limits.max_corpus_entries
          /\ "reached_failure_limit" \in LimitsReached <=> Len(failures') >= FailureLimit
      BY DEF LimitsReached
    <3>6. outcome'.how = "returned" /\ outcome'.flags = LimitsReached
      BY <3>1
    <3> HIDE DEF LimitsReached
    <3> QED
      BY <2>1, <3>1, <3>2, <3>3, <3>4, <3>5, <3>6 DEF ExitsAreTrue
  <2>7. CASE ScheduleIndexed \/ ScheduleMutation \/ VisitFeature \/ AddFeature
             \/ (Evaluate /\ kind = "feedback")
    BY <2>7 DEF ScheduleIndexed, ScheduleMutation, VisitFeature, AddFeature, Evaluate, Schedule
  <2>8. CASE Consider \/ (Evaluate /\ kind # "feedback")
    BY <2>6, <2>8 DEF Consider, Evaluate, Busy
  <2> QED
    BY <2>2, <2>4, <2>5, <2>7, <2>8 DEF Next
<1>3. TypeOK /\ Below /\ Exits => ExitsAreTrue
  <2>1. ASSUME TypeOK, Below, pc # "done" PROVE ExitsAreTrue
    <3>1. ~Returned
      BY <2>1 DEF Below, Returned, Running
    <3> QED
      BY <2>1, <3>1, CeilingsHold DEF ExitsAreTrue
  <2> QED
    BY <2>1 DEF Exits
<1> QED
  BY <1>1, <1>2, <1>3, OrderIsKept, TypeCorrect, Ceilings, PTL DEF Spec
=============================================================================
