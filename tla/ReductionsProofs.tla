-------------------------- MODULE ReductionsProofs --------------------------
(***************************************************************************)
(* The safety properties of Reducer and Reductions, for every set of       *)
(* cases, every measure, every pair of budgets and, in the phases of a     *)
(* triage, every byte string, form, URL request, multipart body, chunked   *)
(* body and SQLite case.                                                   *)
(*                                                                         *)
(* IInv is inductive for one call of reduce_case: FixedPointIsEarned and   *)
(* the exactness of the budgets only speak of the last state; InLoop says  *)
(* what the two loops maintain, and NotOver that no call has ended before  *)
(* pc is "done".  PhasesInv adds what joins the phases of a triage: what   *)
(* the generator has not yet yielded is still to come, and what the        *)
(* phases before this one gained.  Between the two stand the lemmas about  *)
(* the adapters: their deletions are concatenations of concatenations.     *)
(***************************************************************************)
EXTENDS Reductions, SequenceTheorems, WellFoundedInduction, TLAPS

NotOver ==
  /\ pc # "done" <=> outcome = "none"
  /\ pc = "start" => evaluations = 0 /\ candidate_visits = 0 /\ accepted_steps = 0
                     /\ current = initial

CountersAreTrue == evaluations = work.answers /\ candidate_visits = work.pulls

InLoop ==
  pc \in {"pass", "pull"} \/ outcome = "returned" =>
    /\ ArgumentsValid
    /\ evaluations >= 1
    /\ candidate_visits >= evaluations - 1
    /\ accepted_steps <= evaluations - 1
    /\ evaluations <= max_evaluations
    /\ candidate_visits <= max_candidate_visits

InPass ==
  pc = "pull" => \A c \in work.pulled : Measure[c] < Measure[current] => c \in work.rejected

IInv ==
  /\ TypeOK /\ NotOver /\ CountersAreTrue /\ InLoop /\ InPass
  /\ ReducedStillFails /\ FixedPointIsEarned /\ BudgetsAreCeilings

----------------------------------------------------------------------------
\* The initial states satisfy the invariant.
LEMMA InitInvariant == Init => IInv
<1> SUFFICES ASSUME Init PROVE IInv
    OBVIOUS
<1> USE DEF Init, NoWork
<1>1. TypeOK /\ NotOver /\ CountersAreTrue
  BY DEF TypeOK, NotOver, CountersAreTrue, Outcomes
<1>2. InLoop /\ InPass /\ ReducedStillFails /\ FixedPointIsEarned
  BY DEF InLoop, InPass, ReducedStillFails, FixedPointIsEarned
<1>3. BudgetsAreCeilings
  BY BudgetAssumption DEF BudgetsAreCeilings
<1> QED BY <1>1, <1>2, <1>3 DEF IInv

\* Evaluating a case or pulling one keeps the record of the adapter's calls typed,
\* and changes it only where it says.
LEMMA WorkUpdates ==
  ASSUME TypeOK, NEW case \in Case, NEW answer \in {"yes", "no", "raises"}
  PROVE  /\ Asked(case, answer).answers = work.answers + 1
         /\ Asked(case, answer).pulls = work.pulls
         /\ Asked(case, answer).pulled = work.pulled
         /\ answer = "yes" => Asked(case, answer).failing = work.failing \cup {case}
         /\ answer # "yes" => Asked(case, answer).failing = work.failing
         /\ answer = "no" => Asked(case, answer).rejected = work.rejected \cup {case}
         /\ answer # "no" => Asked(case, answer).rejected = work.rejected
         /\ Asked(case, answer) \in [answers : Nat, pulls : Nat, failing : SUBSET Case,
                                     rejected : SUBSET Case, pulled : SUBSET Case]
<1>1. CASE answer = "yes"
  BY <1>1 DEF TypeOK, Asked
<1>2. CASE answer = "no"
  BY <1>2 DEF TypeOK, Asked
<1>3. CASE answer = "raises"
  BY <1>3 DEF TypeOK, Asked
<1> QED BY <1>1, <1>2, <1>3

\* Pulling a candidate records the pull and nothing else.
LEMMA PulledUpdates ==
  ASSUME NEW w \in [answers : Nat, pulls : Nat, failing : SUBSET Case,
                    rejected : SUBSET Case, pulled : SUBSET Case],
         NEW case \in Case
  PROVE  /\ Pulled(w, case).answers = w.answers
         /\ Pulled(w, case).pulls = w.pulls + 1
         /\ Pulled(w, case).pulled = w.pulled \cup {case}
         /\ Pulled(w, case).failing = w.failing
         /\ Pulled(w, case).rejected = w.rejected
         /\ Pulled(w, case) \in [answers : Nat, pulls : Nat, failing : SUBSET Case,
                                 rejected : SUBSET Case, pulled : SUBSET Case]
BY DEF Pulled

----------------------------------------------------------------------------
\* One visited candidate, whatever becomes of it, keeps the invariant.
LEMMA StepInvariant ==
  ASSUME IInv, NEW candidate \in Case, Step(candidate)
  PROVE  IInv'
<1> USE MeasureAssumption, BudgetAssumption
<1> DEFINE Work == [answers : Nat, pulls : Nat, failing : SUBSET Case,
                    rejected : SUBSET Case, pulled : SUBSET Case]
<1>1. /\ work \in Work /\ TypeOK
      /\ Pulled(work, candidate) \in Work
  BY PulledUpdates DEF IInv, TypeOK
<1>2. CASE \/ VisitBrokenMeasure(candidate) \/ Skip(candidate)
           \/ StopBeforeEvaluation(candidate)
  <2>0. work' = Pulled(work, candidate)
    BY <1>2 DEF VisitBrokenMeasure, Skip, StopBeforeEvaluation
  <2>1. /\ work'.answers = work.answers /\ work'.pulls = work.pulls + 1
        /\ work'.pulled = work.pulled \cup {candidate}
        /\ work'.failing = work.failing /\ work'.rejected = work.rejected
        /\ work' \in Work
    BY <1>1, <2>0, PulledUpdates
  <2> USE DEF Visit, VisitsSpent, EvaluationsLeft, Progressing, Raise, Return, inputs, counters
  <2>2. CASE VisitBrokenMeasure(candidate)
    BY <1>1, <2>1, <2>2 DEF VisitBrokenMeasure, IInv, TypeOK, Outcomes, NotOver,
       CountersAreTrue, InLoop, InPass, ReducedStillFails, FixedPointIsEarned,
       BudgetsAreCeilings, ArgumentsValid
  <2>3. CASE Skip(candidate)
    BY <1>1, <2>1, <2>3 DEF Skip, IInv, TypeOK, Outcomes, NotOver,
       CountersAreTrue, InLoop, InPass, ReducedStillFails, FixedPointIsEarned,
       BudgetsAreCeilings, ArgumentsValid
  <2>4. CASE StopBeforeEvaluation(candidate)
    BY <1>1, <2>1, <2>4 DEF StopBeforeEvaluation, IInv, TypeOK, Outcomes, NotOver,
       CountersAreTrue, InLoop, InPass, ReducedStillFails, FixedPointIsEarned,
       BudgetsAreCeilings, ArgumentsValid, termination_reason
  <2> QED BY <1>2, <2>2, <2>3, <2>4
<1>3. CASE \/ Accept(candidate) \/ Reject(candidate) \/ PredicateRaises(candidate)
  <2>1. /\ pc = "pull" /\ ~VisitsSpent /\ Evaluable(candidate)
        /\ candidate_visits' = candidate_visits + 1 /\ evaluations' = evaluations + 1
        /\ UNCHANGED <<inputs, exhausted_budget>>
    BY <1>3 DEF Accept, Reject, PredicateRaises, Visit, Raise
  <2>2. ASSUME NEW answer \in {"yes", "no", "raises"},
               work' = Pulled(Asked(candidate, answer), candidate)
        PROVE  /\ work'.answers = work.answers + 1 /\ work'.pulls = work.pulls + 1
               /\ work'.pulled = work.pulled \cup {candidate}
               /\ work.failing \subseteq work'.failing
               /\ answer = "yes" => candidate \in work'.failing
               /\ work.rejected \subseteq work'.rejected
               /\ answer = "no" => candidate \in work'.rejected
               /\ work' \in Work
    BY <1>1, <2>2, WorkUpdates, PulledUpdates
  <2> USE <1>1, <2>1 DEF VisitsSpent, EvaluationsLeft, Progressing, Evaluable, Raise, inputs,
      IInv, TypeOK, Outcomes, NotOver, CountersAreTrue, InLoop, InPass, ReducedStillFails,
      FixedPointIsEarned, BudgetsAreCeilings, ArgumentsValid
  <2>3. CASE Accept(candidate)
    BY <2>2, <2>3 DEF Accept
  <2>4. CASE Reject(candidate)
    BY <2>2, <2>4 DEF Reject
  <2>5. CASE PredicateRaises(candidate)
    BY <2>2, <2>5 DEF PredicateRaises
  <2> QED BY <1>3, <2>3, <2>4, <2>5
<1> QED BY <1>2, <1>3 DEF Step

\* Validation, the evaluation of the initial case and the loop's exits keep it too.
LEMMA ControlInvariant ==
  ASSUME IInv,
         \/ RejectArguments
         \/ \E answer \in {"yes", "no", "raises"} : EvaluateInitial(answer)
         \/ StopAtEvaluationBudget \/ StopAtVisitBudget \/ StartPass
         \/ EnumerationRaises \/ EndOfStream
  PROVE  IInv'
<1> USE MeasureAssumption, BudgetAssumption
<1> USE DEF VisitsSpent, EvaluationsLeft, Raise, Return, inputs, counters,
    IInv, TypeOK, Outcomes, NotOver, CountersAreTrue, InLoop, InPass, ReducedStillFails,
    FixedPointIsEarned, BudgetsAreCeilings, ArgumentsValid, termination_reason
<1>1. CASE RejectArguments
  BY <1>1 DEF RejectArguments
<1>2. ASSUME NEW answer \in {"yes", "no", "raises"}, EvaluateInitial(answer)
      PROVE  IInv'
  <2>1. /\ work'.answers = work.answers + 1 /\ work'.pulls = work.pulls
        /\ work'.pulled = work.pulled
        /\ answer = "yes" => initial \in work'.failing
        /\ work' \in [answers : Nat, pulls : Nat, failing : SUBSET Case,
                      rejected : SUBSET Case, pulled : SUBSET Case]
    BY <1>2, WorkUpdates DEF EvaluateInitial
  <2>2. CASE answer = "yes"
    BY <1>2, <2>1, <2>2 DEF EvaluateInitial
  <2>3. CASE answer = "no"
    BY <1>2, <2>1, <2>3 DEF EvaluateInitial
  <2>4. CASE answer = "raises"
    BY <1>2, <2>1, <2>4 DEF EvaluateInitial
  <2> QED BY <2>2, <2>3, <2>4
<1>3. CASE StopAtEvaluationBudget
  BY <1>3 DEF StopAtEvaluationBudget
<1>4. CASE StopAtVisitBudget
  BY <1>4 DEF StopAtVisitBudget
<1>5. CASE StartPass
  BY <1>5 DEF StartPass
<1>6. CASE EnumerationRaises
  BY <1>6 DEF EnumerationRaises
<1>7. CASE EndOfStream
  BY <1>7 DEF EndOfStream
<1> QED BY <1>1, <1>2, <1>3, <1>4, <1>5, <1>6, <1>7

----------------------------------------------------------------------------
\* The invariant holds in every reachable state: it is inductive.
THEOREM Invariance == Spec => []IInv
<1>1. Init => IInv
  BY InitInvariant
<1>2. IInv /\ [Next]_vars => IInv'
  <2> SUFFICES ASSUME IInv, [Next]_vars PROVE IInv'
      OBVIOUS
  <2>1. CASE Reduce
    BY <2>1, StepInvariant, ControlInvariant DEF Reduce
  <2>2. CASE UNCHANGED vars
    BY <2>2 DEF vars, inputs, counters, IInv, TypeOK, NotOver, CountersAreTrue, InLoop,
       InPass, ReducedStillFails, FixedPointIsEarned, BudgetsAreCeilings, ArgumentsValid,
       termination_reason
  <2> QED BY <2>1, <2>2 DEF Next, Finished
<1> QED BY <1>1, <1>2, PTL DEF Spec

\* Every variable of reduce_case keeps its type.
THEOREM TypeCorrect == Spec => []TypeOK
BY Invariance, PTL DEF IInv

\* Whatever the adapter yields and answers, the reduced case is one the predicate called
\* failing, and each accepted step made it strictly smaller.
THEOREM ReductionPreservesFailure == Spec => []ReducedStillFails
BY Invariance, PTL DEF IInv

\* No result claims a fixed point that the last pass did not establish.
THEOREM FixedPointsAreEarned == Spec => []FixedPointIsEarned
BY Invariance, PTL DEF IInv

\* Neither work budget is ever exceeded, and one is only blamed when it is spent.
THEOREM BudgetsHold == Spec => []BudgetsAreCeilings
BY Invariance, PTL DEF IInv

\* What the loops maintain is what validate_reduction_evidence asks for.
LEMMA EvidenceFollows == IInv => EvidenceIsAcceptedAndTrue
BY DEF IInv, TypeOK, CountersAreTrue, InLoop, EvidenceIsAcceptedAndTrue, Evidence,
   validate_reduction_evidence, termination_reason

\* The work evidence of every returned result is true and passes
\* validate_reduction_evidence.
THEOREM EvidenceHolds == Spec => []EvidenceIsAcceptedAndTrue
BY EvidenceFollows, Invariance, PTL

----------------------------------------------------------------------------
----------------------------------------------------------------------------
(***************************************************************************)
(* Sequences of sequences.  FlattenSeq is the last of the partial          *)
(* concatenations.                                                         *)
(***************************************************************************)
LEMMA MinIsLeast ==
  ASSUME NEW S \in SUBSET Nat, S # {}
  PROVE  \E m \in S : \A n \in S : m <= n
<1> DEFINE R == OpToRel(<, Nat)
<1>1. IsWellFoundedOn(R, Nat)
  BY NatLessThanWellFounded
<1>2. PICK x \in S : \A y \in S : ~ (<<y, x>> \in R)
  <2> HIDE DEF R
  <2> QED BY <1>1, WFMin
<1>3. \A y \in S : x <= y
  <2> SUFFICES ASSUME NEW y \in S PROVE x <= y
    OBVIOUS
  <2>1. ~ (y < x)
    BY <1>2 DEF OpToRel
  <2> QED BY <2>1
<1> QED BY <1>3

\* A concatenation has the items of both its parts, at their places.
LEMMA Concatenation ==
  ASSUME NEW S, NEW a \in Seq(S), NEW b \in Seq(S)
  PROVE  /\ a \o b \in Seq(S)
         /\ \A k \in 1..Len(a) : k \in 1..Len(a \o b) /\ (a \o b)[k] = a[k]
         /\ \A j \in 1..Len(b) : Len(a) + j \in 1..Len(a \o b) /\ (a \o b)[Len(a) + j] = b[j]
<1>1. /\ Len(a) \in Nat /\ Len(b) \in Nat /\ Len(a \o b) = Len(a) + Len(b) /\ a \o b \in Seq(S)
      /\ \A i \in 1..Len(a) + Len(b) : (a \o b)[i] = IF i <= Len(a) THEN a[i] ELSE b[i - Len(a)]
  BY ConcatProperties, LenProperties
<1>2. ASSUME NEW k \in 1..Len(a)
      PROVE  k \in 1..Len(a \o b) /\ (a \o b)[k] = a[k]
  BY <1>1
<1>3. ASSUME NEW j \in 1..Len(b)
      PROVE  Len(a) + j \in 1..Len(a \o b) /\ (a \o b)[Len(a) + j] = b[j]
  <2>1. Len(a) + j \in 1..Len(a) + Len(b) /\ ~ (Len(a) + j <= Len(a)) /\ (Len(a) + j) - Len(a) = j
    BY <1>1
  <2> QED BY <1>1, <2>1
<1> QED BY <1>1, <1>2, <1>3

\* What the second part has comes after all of the first.
LEMMA ConcatenationEnds ==
  ASSUME NEW S, NEW a \in Seq(S), NEW b \in Seq(S), NEW j \in 1..Len(b)
  PROVE  Len(a) + j \in 1..Len(a \o b) /\ (a \o b)[Len(a) + j] = b[j]
BY Concatenation

\* A sequence of one item.
LEMMA Singleton ==
  ASSUME NEW S, NEW x \in S
  PROVE  <<x>> \in Seq(S) /\ Len(<<x>>) = 1 /\ <<x>>[1] = x
OBVIOUS

Flat(ss) == CHOOSE f : f = [i \in 1..Len(ss) |-> IF i = 1 THEN ss[i] ELSE f[i - 1] \o ss[i]]
Flattens(f, ss, n, S) ==
  /\ f \in [1..n -> Seq(S)]
  /\ \A i \in 1..n : f[i] = IF i = 1 THEN ss[i] ELSE f[i - 1] \o ss[i]

\* There is a function of the partial concatenations, for the first n sequences.
LEMMA FlatteningExists ==
  ASSUME NEW S, NEW ss \in Seq(Seq(S)), NEW n \in 0..Len(ss)
  PROVE  \E f : Flattens(f, ss, n, S)
<1> DEFINE Bad == {k \in 0..Len(ss) : ~ \E f : Flattens(f, ss, k, S)}
<1>1. ASSUME Bad # {} PROVE FALSE
  <2>1. PICK k \in Bad : \A j \in Bad : k <= j
    <3>1. Bad \in SUBSET Nat
      OBVIOUS
    <3> HIDE DEF Bad
    <3> QED BY <1>1, <3>1, MinIsLeast
  <2>2. CASE k = 0
    <3> DEFINE f == [i \in 1..0 |-> <<>>]
    <3>1. Flattens(f, ss, 0, S)
      BY DEF Flattens
    <3> QED BY <2>1, <2>2, <3>1
  <2>3. CASE k # 0
    <3>0. k \in 0..Len(ss)
      BY <2>1
    <3>1. k \in Nat /\ k \in 1..Len(ss) /\ k - 1 \in 0..Len(ss) /\ k - 1 \notin Bad
      <4> HIDE DEF Bad
      <4> QED BY <2>1, <2>3, <3>0
    <3>2. PICK h : Flattens(h, ss, k - 1, S)
      BY <3>1
    <3> DEFINE f == [i \in 1..k |-> IF i = k THEN IF k = 1 THEN ss[k] ELSE h[k - 1] \o ss[k] ELSE h[i]]
    <3>3. ss[k] \in Seq(S) /\ (k # 1 => h[k - 1] \in Seq(S))
      BY <3>1, <3>2 DEF Flattens
    <3>4. ASSUME NEW i \in 1..k PROVE f[i] \in Seq(S) /\ f[i]
              = IF i = 1 THEN ss[i] ELSE f[i - 1] \o ss[i]
      <4>1. CASE i = k
        <5>1. k # 1 => f[k - 1] = h[k - 1]
          BY <3>1
        <5>2. f[k] = IF k = 1 THEN ss[k] ELSE h[k - 1] \o ss[k]
          BY <3>1
        <5> HIDE DEF f
        <5> QED BY <3>3, <4>1, <5>1, <5>2
      <4>2. CASE i # k
        <5>0. i \in 1..(k - 1) /\ (i # 1 => i - 1 \in 1..(k - 1) /\ i - 1 # k /\ i - 1 \in 1..k)
          BY <3>1, <4>2
        <5>1. i \in 1..(k - 1) /\ f[i] = h[i] /\ (i # 1 => i - 1 \in 1..(k - 1)
                  /\ f[i - 1] = h[i - 1])
          BY <4>2, <5>0
        <5> HIDE DEF f
        <5> QED BY <3>2, <5>1 DEF Flattens
      <4> QED BY <4>1, <4>2
    <3>5. f \in [1..k -> Seq(S)]
      <4>1. DOMAIN f = 1..k /\ f = [i \in 1..k |-> f[i]]
        OBVIOUS
      <4> HIDE DEF f
      <4> QED BY <3>4, <4>1
    <3>6. Flattens(f, ss, k, S)
      <4> HIDE DEF f
      <4> QED BY <3>4, <3>5 DEF Flattens
    <3> QED BY <2>1, <3>6
  <2> QED BY <2>2, <2>3
<1> QED BY <1>1

\* FlattenSeq is the last of the partial concatenations.
LEMMA FlattenSeqIsLast ==
  ASSUME NEW S, NEW ss \in Seq(Seq(S)), Len(ss) # 0
  PROVE  \E f : Flattens(f, ss, Len(ss), S) /\ FlattenSeq(ss) = f[Len(ss)]
<1> DEFINE n == Len(ss)
           IsFlat(g) == g = [i \in 1..n |-> IF i = 1 THEN ss[i] ELSE g[i - 1] \o ss[i]]
<1>1. n \in Nat /\ n \in 0..Len(ss)
  OBVIOUS
<1>2. PICK f : Flattens(f, ss, n, S)
  BY <1>1, FlatteningExists
<1>3. IsFlat(f)
  BY <1>2 DEF Flattens
<1>4. IsFlat(Flat(ss))
  BY <1>3 DEF Flat
<1>5. FlattenSeq(ss) = Flat(ss)[n]
  BY DEF FlattenSeq, Flat
<1>6. Flat(ss) = f
  <2> DEFINE g == Flat(ss)
             Bad == {i \in 1..n : g[i] # f[i]}
  <2>1. ASSUME Bad # {} PROVE FALSE
    <3>1. PICK k \in Bad : \A j \in Bad : k <= j
      <4>1. Bad \in SUBSET Nat
        OBVIOUS
      <4> HIDE DEF Bad
      <4> QED BY <2>1, <4>1, MinIsLeast
    <3>2. k \in 1..n /\ g[k] # f[k]
      BY <3>1
    <3>3. k # 1 => k - 1 \in 1..n /\ k - 1 \notin Bad
      <4> HIDE DEF Bad
      <4> QED BY <3>1, <3>2, <1>1
    <3>4. k # 1 => g[k - 1] = f[k - 1]
      BY <3>3
    <3>5. g[k] = IF k = 1 THEN ss[k] ELSE g[k - 1] \o ss[k]
      <4> HIDE DEF g
      <4> QED BY <1>4, <3>2 DEF g
    <3>6. f[k] = IF k = 1 THEN ss[k] ELSE f[k - 1] \o ss[k]
      BY <1>2, <3>2 DEF Flattens
    <3> QED BY <3>2, <3>4, <3>5, <3>6
  <2>2. \A i \in 1..n : g[i] = f[i]
    BY <2>1
  <2>3. g = [i \in 1..n |-> g[i]] /\ f = [i \in 1..n |-> f[i]]
    BY <1>3, <1>4
  <2> HIDE DEF g
  <2> QED BY <2>2, <2>3 DEF g
<1> QED BY <1>2, <1>5, <1>6

\* The items of a flattened sequence are those of its parts.
LEMMA FlattenTyped ==
  ASSUME NEW S, NEW ss \in Seq(Seq(S))
  PROVE  FlattenSeq(ss) \in Seq(S)
<1>1. CASE Len(ss) = 0
  <2>1. FlattenSeq(ss) = ss /\ ss = <<>>
    BY <1>1 DEF FlattenSeq
  <2> QED BY <2>1
<1>2. CASE Len(ss) # 0
  <2>1. PICK f : Flattens(f, ss, Len(ss), S) /\ FlattenSeq(ss) = f[Len(ss)]
    BY <1>2, FlattenSeqIsLast
  <2>2. Len(ss) \in 1..Len(ss)
    BY <1>2
  <2> QED BY <2>1, <2>2 DEF Flattens
<1> QED BY <1>1, <1>2

\* Every item of every sequence is in the flattened one.
LEMMA FlattenHas ==
  ASSUME NEW S, NEW ss \in Seq(Seq(S)), NEW i \in 1..Len(ss), NEW j \in 1..Len(ss[i])
  PROVE  \E k \in 1..Len(FlattenSeq(ss)) : FlattenSeq(ss)[k] = ss[i][j]
<1>0. Len(ss) \in Nat /\ Len(ss) # 0 /\ \A n \in 1..Len(ss) : ss[n] \in Seq(S)
  OBVIOUS
<1>1. PICK f : Flattens(f, ss, Len(ss), S) /\ FlattenSeq(ss) = f[Len(ss)]
  BY <1>0, FlattenSeqIsLast
<1> DEFINE In(n) == \E k \in 1..Len(f[n]) : f[n][k] = ss[i][j]
           Bad == {n \in i..Len(ss) : ~ In(n)}
<1>2. ASSUME Bad # {} PROVE FALSE
  <2>1. PICK n \in Bad : \A m \in Bad : n <= m
    <3>1. Bad \in SUBSET Nat
      OBVIOUS
    <3> HIDE DEF Bad
    <3> QED BY <1>2, <3>1, MinIsLeast
  <2>2. n \in 1..Len(ss) /\ i <= n /\ ~ In(n)
    BY <2>1
  <2>3. /\ f[n] = IF n = 1 THEN ss[n] ELSE f[n - 1] \o ss[n]
        /\ n # 1 => f[n - 1] \in Seq(S)
    <3>1. n # 1 => n - 1 \in 1..Len(ss)
      BY <1>0, <2>2
    <3> QED BY <1>1, <2>2, <3>1 DEF Flattens
  <2>4. CASE n = i
    <3>1. CASE n = 1
      BY <2>2, <2>3, <2>4, <3>1
    <3>2. CASE n # 1
      <4>1. PICK a : a = f[n - 1] /\ a \in Seq(S)
        BY <2>3, <3>2
      <4>2. PICK b : b = ss[i] /\ b \in Seq(S)
        BY <1>0
      <4>3. f[n] = a \o b
        BY <2>3, <2>4, <3>2, <4>1, <4>2
      <4>4. Len(a) + j \in 1..Len(a \o b) /\ (a \o b)[Len(a) + j] = b[j]
        <5>1. j \in 1..Len(b)
          BY <4>2
        <5>2. a \in Seq(S) /\ b \in Seq(S)
          BY <4>1, <4>2
        <5> QED BY ONLY <5>1, <5>2, ConcatenationEnds
      <4> QED BY <2>2, <4>2, <4>3, <4>4
    <3> QED BY <3>1, <3>2
  <2>5. CASE n # i
    <3>1. n - 1 \in i..Len(ss) /\ n # 1 /\ n - 1 \notin Bad
      <4> HIDE DEF Bad
      <4> QED BY <2>1, <2>2, <2>5
    <3>2. PICK a : a = f[n - 1] /\ a \in Seq(S)
      BY <2>3, <3>1
    <3>3. PICK k \in 1..Len(a) : a[k] = ss[i][j]
      BY <3>1, <3>2
    <3>4. PICK b : b = ss[n] /\ b \in Seq(S)
      BY <1>0, <2>2
    <3>5. k \in 1..Len(a \o b) /\ (a \o b)[k] = a[k]
      <4>1. a \in Seq(S) /\ b \in Seq(S)
        BY <3>2, <3>4
      <4>2. \A m \in 1..Len(a) : m \in 1..Len(a \o b) /\ (a \o b)[m] = a[m]
        BY ONLY <4>1, Concatenation
      <4> QED BY ONLY <4>2, k \in 1..Len(a)
    <3> QED BY <2>2, <2>3, <3>1, <3>2, <3>3, <3>4, <3>5
  <2> QED BY <2>4, <2>5
<1>3. Len(ss) \in i..Len(ss)
  BY <1>0
<1> QED BY <1>1, <1>2, <1>3

\* One item of each part: the sequence of them.
LEMMA FlattenOnes ==
  ASSUME NEW S, NEW items \in Seq(S)
  PROVE  FlattenSeq([i \in DOMAIN items |-> <<items[i]>>]) = items
<1> DEFINE ss == [i \in DOMAIN items |-> <<items[i]>>]
<1>1. /\ ss \in Seq(Seq(S)) /\ Len(ss) = Len(items) /\ Len(items) \in Nat
      /\ \A i \in 1..Len(items) : ss[i] = <<items[i]>> /\ items[i] \in S
  <2>1. \A i \in 1..Len(items) : items[i] \in S /\ <<items[i]>> \in Seq(S)
    OBVIOUS
  <2>2. DOMAIN items = 1..Len(items) /\ Len(items) \in Nat
    OBVIOUS
  <2> QED BY <2>1, <2>2
<1> HIDE DEF ss
<1>2. CASE Len(ss) = 0
  <2>1. FlattenSeq(ss) = ss
    BY <1>2 DEF FlattenSeq
  <2>2. ss = <<>> /\ items = <<>>
    BY <1>1, <1>2, EmptySeq
  <2> QED BY <2>1, <2>2 DEF ss
<1>3. CASE Len(ss) # 0
  <2>1. PICK f : Flattens(f, ss, Len(ss), S) /\ FlattenSeq(ss) = f[Len(ss)]
    BY <1>1, <1>3, FlattenSeqIsLast
  <2> DEFINE Good(n) == Len(f[n]) = n /\ \A k \in 1..n : f[n][k] = items[k]
             Bad == {n \in 1..Len(ss) : ~ Good(n)}
  <2>2. ASSUME Bad # {} PROVE FALSE
    <3>1. PICK n \in Bad : \A m \in Bad : n <= m
      <4>1. Bad \in SUBSET Nat
        BY <1>1
      <4> HIDE DEF Bad
      <4> QED BY <2>2, <4>1, MinIsLeast
    <3>2. n \in 1..Len(ss) /\ ~ Good(n)
      BY <3>1
    <3>3. /\ f[n] = IF n = 1 THEN ss[n] ELSE f[n - 1] \o ss[n]
          /\ n # 1 => f[n - 1] \in Seq(S)
      <4>1. n # 1 => n - 1 \in 1..Len(ss)
        BY <1>1, <3>2
      <4> QED BY <2>1, <3>2, <4>1 DEF Flattens
    <3>4. ss[n] = <<items[n]>>
      BY <1>1, <3>2
    <3>5. CASE n = 1
      BY <3>2, <3>3, <3>4, <3>5
    <3>6. CASE n # 1
      <4>1. n - 1 \in 1..Len(ss) /\ n - 1 \notin Bad
        <5> HIDE DEF Bad
        <5> QED BY <1>1, <3>1, <3>2, <3>6
      <4>2. PICK a : a = f[n - 1] /\ a \in Seq(S)
        BY <3>3, <3>6
      <4>3. Len(a) = n - 1 /\ \A k \in 1..n - 1 : a[k] = items[k]
        BY <4>1, <4>2
      <4>4. f[n] = a \o <<items[n]>> /\ items[n] \in S /\ n \in Nat
        <5>1. items[n] \in S /\ n \in Nat
          BY ONLY <1>1, <3>2
        <5> QED BY ONLY <3>3, <3>4, <3>6, <4>2, <5>1
      <4>5. PICK g : g = a \o <<items[n]>>
        OBVIOUS
      <4>6. Len(g) = n /\ \A k \in 1..n : g[k] = items[k]
        <5>1. PICK b : b = <<items[n]>> /\ b \in Seq(S) /\ Len(b) = 1 /\ b[1] = items[n]
          BY <4>4, Singleton
        <5>2. Len(g) = Len(a) + 1 /\ \A k \in 1..Len(a) + 1 : g[k]
                  = IF k <= Len(a) THEN a[k] ELSE b[k - Len(a)]
          BY <4>2, <4>5, <5>1, ConcatProperties
        <5>3. n \in Nat /\ Len(a) = n - 1 /\ Len(a) + 1 = n /\ Len(g) = n
          BY ONLY <4>3, <4>4, <5>2
        <5>4. ASSUME NEW k \in 1..n PROVE g[k] = items[k]
          <6>1. CASE k = n
            <7>1. g[k] = b[k - Len(a)] /\ k - Len(a) = 1
              BY ONLY <5>2, <5>3, <6>1
            <7> QED BY ONLY <5>1, <6>1, <7>1
          <6>2. CASE k # n
            <7>1. k \in 1..n - 1 /\ k <= Len(a)
              BY ONLY <5>3, <6>2, k \in 1..n
            <7>2. g[k] = a[k]
              BY ONLY <5>2, <5>3, <7>1, k \in 1..n
            <7> QED BY ONLY <4>3, <7>1, <7>2
          <6> QED BY <6>1, <6>2
        <5> QED BY ONLY <5>3, <5>4
      <4> QED BY <3>2, <4>4, <4>5, <4>6
    <3> QED BY <3>5, <3>6
  <2>3. Len(ss) \in 1..Len(ss) /\ Len(ss) \notin Bad
    <3>1. Len(ss) \in 1..Len(ss)
      BY ONLY <1>1, <1>3
    <3>2. Bad = {}
      BY <2>2
    <3> QED BY ONLY <3>1, <3>2
  <2>4. PICK g : g = f[Len(ss)] /\ g \in Seq(S)
    BY <2>1, <2>3 DEF Flattens
  <2>5. Len(g) = Len(items) /\ \A k \in 1..Len(items) : g[k] = items[k]
    BY <1>1, <2>3, <2>4
  <2>6. g = items
    BY <2>4, <2>5, SeqEqual
  <2> QED BY <2>1, <2>4, <2>6 DEF ss
<1> QED BY <1>2, <1>3 DEF ss

\* EachOnce drops no item, and adds none.
LEMMA EachOnceHas ==
  ASSUME NEW S, NEW items \in Seq(S)
  PROVE  /\ EachOnce(items) \in Seq(S)
         /\ \A i \in 1..Len(items) : \E k \in 1..Len(EachOnce(items)) : EachOnce(items)[k] = items[i]
<1>1. PICK ss : ss = [i \in DOMAIN items |->
                       IF \E j \in 1..i - 1 : items[j] = items[i] THEN <<>> ELSE <<items[i]>>]
  OBVIOUS
<1>2. ss \in Seq(Seq(S)) /\ Len(ss) = Len(items) /\ EachOnce(items) = FlattenSeq(ss)
  <2>1. \A i \in 1..Len(items) : <<items[i]>> \in Seq(S) /\ ss[i] \in {<<>>, <<items[i]>>}
    BY <1>1
  <2>2. DOMAIN items = 1..Len(items) /\ Len(items) \in Nat /\ DOMAIN ss = 1..Len(items)
    BY <1>1
  <2>3. \A i \in 1..Len(items) : ss[i] \in Seq(S)
    BY <2>1, EmptySeq
  <2>4. ss = [i \in 1..Len(items) |-> ss[i]]
    BY <1>1, <2>2
  <2>5. ss \in Seq(Seq(S)) /\ Len(ss) = Len(items)
    BY <2>2, <2>3, <2>4
  <2> QED BY <1>1, <2>5 DEF EachOnce
<1>3. ASSUME NEW i \in 1..Len(items)
      PROVE  \E k \in 1..Len(FlattenSeq(ss)) : FlattenSeq(ss)[k] = items[i]
  <2> DEFINE Same == {j \in 1..Len(items) : items[j] = items[i]}
  <2>1. PICK m \in Same : \A j \in Same : m <= j
    <3>1. Same \in SUBSET Nat /\ i \in Same
      OBVIOUS
    <3> HIDE DEF Same
    <3> QED BY <3>1, MinIsLeast
  <2>2. ~ \E j \in 1..m - 1 : items[j] = items[m]
    BY <2>1
  <2>3. ss[m] = <<items[i]>> /\ m \in 1..Len(ss)
    BY <1>1, <1>2, <2>1, <2>2
  <2>4. 1 \in 1..Len(ss[m]) /\ ss[m][1] = items[i]
    BY <2>3
  <2>5. \E k \in 1..Len(FlattenSeq(ss)) : FlattenSeq(ss)[k] = ss[m][1]
    <3>1. PICK n : n = m /\ n \in 1..Len(ss) /\ 1 \in 1..Len(ss[n])
      BY <2>3, <2>4
    <3>2. \E k \in 1..Len(FlattenSeq(ss)) : FlattenSeq(ss)[k] = ss[n][1]
      <4>1. ss \in Seq(Seq(S)) /\ n \in 1..Len(ss) /\ 1 \in 1..Len(ss[n])
        BY <1>2, <3>1
      <4> QED BY ONLY <4>1, FlattenHas
    <3> QED BY <3>1, <3>2
  <2> QED BY <2>4, <2>5
<1>4. EachOnce(items) \in Seq(S)
  BY <1>2, FlattenTyped
<1> QED BY <1>2, <1>3, <1>4

----------------------------------------------------------------------------
(* Sums, and what one item less takes from one.                            *)

Summed(f, sizes, n) ==
  /\ f \in [0..n -> Nat]
  /\ \A k \in 0..n : f[k] = IF k = 0 THEN 0 ELSE f[k - 1] + sizes[k]
SumOf(sizes) == CHOOSE f : f = [n \in 0..Len(sizes) |-> IF n = 0 THEN 0 ELSE f[n - 1] + sizes[n]]

\* There is a function of the partial sums, up to the first n numbers.
LEMMA SumExists ==
  ASSUME NEW sizes \in Seq(Nat), NEW n \in 0..Len(sizes)
  PROVE  \E f : Summed(f, sizes, n)
<1> DEFINE Bad == {k \in 0..Len(sizes) : ~ \E f : Summed(f, sizes, k)}
<1>1. ASSUME Bad # {} PROVE FALSE
  <2>1. PICK k \in Bad : \A j \in Bad : k <= j
    <3>1. Bad \in SUBSET Nat
      OBVIOUS
    <3> HIDE DEF Bad
    <3> QED BY <1>1, <3>1, MinIsLeast
  <2>2. k \in 0..Len(sizes) /\ k \in Nat
    BY <2>1
  <2>3. CASE k = 0
    <3> DEFINE f == [i \in 0..0 |-> 0]
    <3>1. f \in [0..0 -> Nat] /\ \A i \in 0..0 : f[i] = 0 /\ i = 0
      OBVIOUS
    <3>2. Summed(f, sizes, 0)
      <4> HIDE DEF f
      <4> QED BY <3>1 DEF Summed
    <3> QED BY <2>1, <2>3, <3>2
  <2>4. CASE k # 0
    <3>1. k - 1 \in 0..Len(sizes) /\ k - 1 \notin Bad
      <4> HIDE DEF Bad
      <4> QED BY <2>1, <2>2, <2>4
    <3>2. PICK h : Summed(h, sizes, k - 1)
      BY <3>1
    <3>3. sizes[k] \in Nat /\ h[k - 1] \in Nat
      BY <2>2, <2>4, <3>2 DEF Summed
    <3> DEFINE f == [i \in 0..k |-> IF i = k THEN h[k - 1] + sizes[k] ELSE h[i]]
    <3>4. DOMAIN f = 0..k /\ f = [i \in 0..k |-> f[i]] /\ f[k] = h[k - 1] + sizes[k]
          /\ \A i \in 0..k - 1 : f[i] = h[i]
      BY <2>2
    <3> HIDE DEF f
    <3>5. ASSUME NEW i \in 0..k
          PROVE  f[i] \in Nat /\ f[i] = IF i = 0 THEN 0 ELSE f[i - 1] + sizes[i]
      <4>1. CASE i = k
        <5>1. f[k - 1] = h[k - 1]
          <6>1. k - 1 \in 0..k - 1
            BY <2>2, <2>4
          <6> QED BY <3>4, <6>1
        <5> QED BY <2>4, <3>3, <3>4, <4>1, <5>1
      <4>2. CASE i # k
        <5>1. i \in 0..k - 1 /\ (i # 0 => i - 1 \in 0..k - 1)
          BY <2>2, <4>2
        <5>2. f[i] = h[i] /\ (i # 0 => f[i - 1] = h[i - 1])
          BY <3>4, <5>1
        <5> QED BY <3>2, <5>1, <5>2 DEF Summed
      <4> QED BY <4>1, <4>2
    <3>6. f \in [0..k -> Nat]
      BY <3>4, <3>5
    <3>7. Summed(f, sizes, k)
      BY <3>5, <3>6 DEF Summed
    <3> QED BY <2>1, <3>7
  <2> QED BY <2>3, <2>4
<1> QED BY <1>1

\* Sum is the last of the partial sums.
LEMMA SumIsLast ==
  ASSUME NEW sizes \in Seq(Nat)
  PROVE  Summed(SumOf(sizes), sizes, Len(sizes)) /\ Sum(sizes) = SumOf(sizes)[Len(sizes)]
<1> DEFINE n == Len(sizes)
           g == SumOf(sizes)
           Holds(f) == f = [k \in 0..n |-> IF k = 0 THEN 0 ELSE f[k - 1] + sizes[k]]
<1>1. n \in Nat /\ n \in 0..Len(sizes) /\ \A k \in 1..n : sizes[k] \in Nat
  OBVIOUS
<1>2. PICK f : Summed(f, sizes, n)
  BY <1>1, SumExists
<1>3. Holds(f)
  BY <1>2 DEF Summed
<1>4. Holds(g)
  BY <1>3 DEF SumOf
<1>5. Sum(sizes) = g[n]
  BY DEF Sum, SumOf
<1> HIDE DEF g
<1>6. \A k \in 0..n : g[k] = IF k = 0 THEN 0 ELSE g[k - 1] + sizes[k]
  BY <1>4
<1> DEFINE Bad == {k \in 0..n : g[k] \notin Nat}
<1>7. ASSUME Bad # {} PROVE FALSE
  <2>1. PICK k \in Bad : \A j \in Bad : k <= j
    <3>1. Bad \in SUBSET Nat
      OBVIOUS
    <3> HIDE DEF Bad
    <3> QED BY <1>7, <3>1, MinIsLeast
  <2>2. k \in 0..n /\ g[k] \notin Nat
    BY <2>1
  <2>3. k # 0 => k - 1 \in 0..n /\ k - 1 \notin Bad
    <3> HIDE DEF Bad
    <3> QED BY <1>1, <2>1, <2>2
  <2>4. k # 0 => g[k - 1] \in Nat /\ sizes[k] \in Nat
    BY <1>1, <2>2, <2>3
  <2> QED BY <1>6, <2>2, <2>4
<1>8. g \in [0..n -> Nat]
  <2>1. g = [k \in 0..n |-> g[k]]
    BY <1>4
  <2>2. \A k \in 0..n : g[k] \in Nat
    BY <1>7
  <2> QED BY <2>1, <2>2
<1>9. Summed(g, sizes, n)
  BY <1>6, <1>8 DEF Summed
<1> QED BY <1>5, <1>9 DEF g

\* A sum of numbers is one.
LEMMA SumTyped ==
  ASSUME NEW sizes \in Seq(Nat)
  PROVE  Sum(sizes) \in Nat
<1>1. Len(sizes) \in 0..Len(sizes)
  OBVIOUS
<1> QED BY <1>1, SumIsLast DEF Summed

\* RemoveAt drops the item of one place and moves those after it down.
LEMMA Removal ==
  ASSUME NEW S, NEW s \in Seq(S), NEW i \in 1..Len(s)
  PROVE  /\ RemoveAt(s, i) \in Seq(S) /\ Len(RemoveAt(s, i)) = Len(s) - 1
         /\ \A j \in 1..Len(s) - 1 : RemoveAt(s, i)[j] = IF j < i THEN s[j] ELSE s[j + 1]
<1>1. PICK a : a = SubSeq(s, 1, i - 1)
  OBVIOUS
<1>2. PICK b : b = SubSeq(s, i + 1, Len(s))
  OBVIOUS
<1>3. a \in Seq(S) /\ Len(a) = i - 1 /\ \A j \in 1..i - 1 : a[j] = s[j]
  BY <1>1
<1>4. b \in Seq(S) /\ Len(b) = Len(s) - i /\ \A j \in 1..Len(s) - i : b[j] = s[i + j]
  BY <1>2
<1>5. RemoveAt(s, i) = a \o b
  BY <1>1, <1>2 DEF RemoveAt
<1>6. /\ a \o b \in Seq(S) /\ Len(a \o b) = Len(a) + Len(b)
      /\ \A j \in 1..Len(a) + Len(b) : (a \o b)[j] = IF j <= Len(a) THEN a[j] ELSE b[j - Len(a)]
  BY <1>3, <1>4, ConcatProperties
<1>7. ASSUME NEW j \in 1..Len(s) - 1
      PROVE  (a \o b)[j] = IF j < i THEN s[j] ELSE s[j + 1]
  <2>1. CASE j < i
    BY <1>3, <1>4, <1>6, <2>1
  <2>2. CASE ~ (j < i)
    <3>1. j - Len(a) \in 1..Len(s) - i /\ ~ (j <= Len(a)) /\ j \in 1..Len(a) + Len(b)
          /\ i + (j - Len(a)) = j + 1
      BY <1>3, <1>4, <2>2
    <3>2. b[j - Len(a)] = s[j + 1]
      BY <1>4, <3>1
    <3> QED BY <1>6, <2>2, <3>1, <3>2
  <2> QED BY <2>1, <2>2
<1> QED BY <1>3, <1>4, <1>5, <1>6, <1>7

\* A sum without one number is smaller by that number.
LEMMA SumWithout ==
  ASSUME NEW sizes \in Seq(Nat), NEW i \in 1..Len(sizes)
  PROVE  Sum(sizes) = Sum(RemoveAt(sizes, i)) + sizes[i]
<1>1. PICK n : n = Len(sizes) /\ n \in Nat /\ n >= 1
  OBVIOUS
<1>2. PICK less : less = RemoveAt(sizes, i) /\ less \in Seq(Nat) /\ Len(less) = n - 1
                  /\ \A j \in 1..n - 1 : less[j] = IF j < i THEN sizes[j] ELSE sizes[j + 1]
  BY <1>1, Removal
<1>3. PICK f : Summed(f, sizes, n) /\ Sum(sizes) = f[n]
  BY <1>1, SumIsLast
<1>4. PICK g : Summed(g, less, n - 1) /\ Sum(less) = g[n - 1]
  BY <1>2, SumIsLast
<1>5. /\ \A k \in 0..n : f[k] \in Nat /\ f[k] = IF k = 0 THEN 0 ELSE f[k - 1] + sizes[k]
      /\ \A k \in 0..n - 1 : g[k] \in Nat /\ g[k] = IF k = 0 THEN 0 ELSE g[k - 1] + less[k]
      /\ \A k \in 1..n : sizes[k] \in Nat
  <2>1. \A k \in 0..n : f[k] \in Nat /\ f[k] = IF k = 0 THEN 0 ELSE f[k - 1] + sizes[k]
    BY <1>3 DEF Summed
  <2>2. \A k \in 0..n - 1 : g[k] \in Nat /\ g[k] = IF k = 0 THEN 0 ELSE g[k - 1] + less[k]
    BY <1>4 DEF Summed
  <2> QED BY <1>1, <2>1, <2>2
<1> DEFINE Bad == {k \in 0..n - 1 : ~ (g[k] = IF k < i THEN f[k] ELSE f[k + 1] - sizes[i])}
<1>6. ASSUME Bad # {} PROVE FALSE
  <2>1. PICK k \in Bad : \A j \in Bad : k <= j
    <3>1. Bad \in SUBSET Nat
      OBVIOUS
    <3> HIDE DEF Bad
    <3> QED BY <1>6, <3>1, MinIsLeast
  <2>2. k \in 0..n - 1 /\ ~ (g[k] = IF k < i THEN f[k] ELSE f[k + 1] - sizes[i])
    BY <2>1
  <2>3. k # 0 => k - 1 \in 0..n - 1 /\ k - 1 \notin Bad
    <3> HIDE DEF Bad
    <3> QED BY <1>1, <2>1, <2>2
  <2>4. CASE k = 0
    BY <1>1, <1>5, <2>2, <2>4
  <2>5. CASE k # 0
    <3>1. g[k - 1] = IF k - 1 < i THEN f[k - 1] ELSE f[k] - sizes[i]
      <4>1. g[k - 1] = IF k - 1 < i THEN f[k - 1] ELSE f[(k - 1) + 1] - sizes[i]
        BY <2>3, <2>5
      <4> QED BY <2>2, <4>1
    <3>2. g[k] = g[k - 1] + less[k] /\ f[k] = f[k - 1] + sizes[k] /\ f[k + 1] = f[k] + sizes[k + 1]
          /\ less[k] = IF k < i THEN sizes[k] ELSE sizes[k + 1]
      <4>1. k \in 1..n - 1 /\ k \in 0..n /\ k + 1 \in 0..n /\ k + 1 # 0 /\ (k + 1) - 1 = k
        BY <1>1, <2>2, <2>5
      <4>2. f[k + 1] = f[(k + 1) - 1] + sizes[k + 1]
        BY <1>5, <4>1
      <4> QED BY <1>2, <1>5, <2>2, <2>5, <4>1, <4>2
    <3>3. i \in Nat /\ k \in Nat /\ f[k + 1] \in Nat /\ f[k - 1] \in Nat /\ f[k] \in Nat
              /\ sizes[k] \in Nat /\ sizes[k + 1] \in Nat /\ sizes[i] \in Nat
      <4>1. k \in 1..n /\ k + 1 \in 1..n /\ k + 1 \in 0..n /\ i \in 1..n /\ k - 1 \in 0..n
                /\ k \in 0..n
        BY <1>1, <2>2, <2>5
      <4> QED BY <1>5, <4>1
    <3>4. CASE k < i
      BY <2>2, <3>1, <3>2, <3>3, <3>4
    <3>5. CASE k = i
      <4>1. g[k - 1] = f[k - 1] /\ less[k] = sizes[k + 1] /\ sizes[k] = sizes[i]
        BY ONLY <3>1, <3>2, <3>3, <3>5
      <4> DEFINE x == f[k - 1]
                 y == sizes[i]
                 z == sizes[k + 1]
      <4>2. x \in Nat /\ y \in Nat /\ z \in Nat
        BY ONLY <3>3
      <4>3. g[k] = x + z /\ f[k + 1] = (x + y) + z
        BY ONLY <3>2, <4>1
      <4>4. x + z = ((x + y) + z) - y
        <5> HIDE DEF x, y, z
        <5> QED BY ONLY <4>2
      <4>5. g[k] = f[k + 1] - sizes[i]
        BY ONLY <4>3, <4>4
      <4> QED BY ONLY <2>2, <3>3, <3>5, <4>5
    <3>6. CASE k > i
      <4>1. g[k - 1] = f[k] - sizes[i] /\ less[k] = sizes[k + 1]
        BY <3>1, <3>2, <3>3, <3>6
      <4>2. g[k] = (f[k] - sizes[i]) + sizes[k + 1] /\ f[k + 1] = f[k] + sizes[k + 1]
        BY <3>2, <4>1
      <4>3. g[k] = f[k + 1] - sizes[i]
        <5> DEFINE x == f[k]
                   y == sizes[i]
                   z == sizes[k + 1]
        <5>1. x \in Nat /\ y \in Nat /\ z \in Nat
          BY ONLY <3>3
        <5>2. g[k] = (x - y) + z /\ f[k + 1] = x + z
          BY ONLY <4>2
        <5>3. (x - y) + z = (x + z) - y
          <6> HIDE DEF x, y, z
          <6> QED BY ONLY <5>1
        <5> QED BY ONLY <5>2, <5>3
      <4> QED BY <2>2, <3>3, <3>6, <4>3
    <3> QED BY <2>2, <3>4, <3>5, <3>6
  <2> QED BY <2>4, <2>5
<1>7. g[n - 1] = IF n - 1 < i THEN f[n - 1] ELSE f[n] - sizes[i]
  <2>1. n - 1 \in 0..n - 1 /\ n - 1 \notin Bad
    BY <1>1, <1>6
  <2>2. g[n - 1] = IF n - 1 < i THEN f[n - 1] ELSE f[(n - 1) + 1] - sizes[i]
    BY <2>1
  <2> QED BY <1>1, <2>2
<1>8. f[n] = f[n - 1] + sizes[n] /\ f[n - 1] \in Nat /\ f[n] \in Nat /\ sizes[i] \in Nat /\ i \in 1..n
  BY <1>1, <1>5
<1> QED BY <1>1, <1>2, <1>3, <1>4, <1>7, <1>8

SizesOf(sizes, items, size) ==
  /\ sizes \in Seq(Nat) /\ Len(sizes) = Len(items)
  /\ \A k \in 1..Len(items) : sizes[k] = size[items[k]]

\* A measure that adds up the sizes of the items is smaller by the size of the one removed.
LEMMA SumOfItemsWithout ==
  ASSUME NEW S, NEW items \in Seq(S), NEW i \in 1..Len(items), NEW size, NEW sizes, NEW rest,
         SizesOf(sizes, items, size), SizesOf(rest, RemoveAt(items, i), size)
  PROVE  Sum(rest) \in Nat /\ Sum(sizes) = Sum(rest) + size[items[i]] /\ size[items[i]] \in Nat
<1>1. PICK n : n = Len(items) /\ n \in Nat /\ n >= 1
  OBVIOUS
<1>2. PICK less : less = RemoveAt(items, i) /\ less \in Seq(S) /\ Len(less) = n - 1
                  /\ \A j \in 1..n - 1 : less[j] = IF j < i THEN items[j] ELSE items[j + 1]
  BY <1>1, Removal
<1>5. sizes \in Seq(Nat) /\ Len(sizes) = n /\ \A k \in 1..n : sizes[k] = size[items[k]]
  BY <1>1 DEF SizesOf
<1>6. rest \in Seq(Nat) /\ Len(rest) = n - 1 /\ \A k \in 1..n - 1 : rest[k] = size[less[k]]
  BY <1>1, <1>2 DEF SizesOf
<1>7. PICK removed : removed = RemoveAt(sizes, i) /\ removed \in Seq(Nat) /\ Len(removed) = n - 1
                     /\ \A j \in 1..n - 1 : removed[j] = IF j < i THEN sizes[j] ELSE sizes[j + 1]
  <2>1. i \in 1..Len(sizes)
    BY <1>1, <1>5
  <2>2. /\ RemoveAt(sizes, i) \in Seq(Nat) /\ Len(RemoveAt(sizes, i)) = Len(sizes) - 1
        /\ \A j \in 1..Len(sizes) - 1 : RemoveAt(sizes, i)[j]
            = IF j < i THEN sizes[j] ELSE sizes[j + 1]
    BY ONLY <1>5, <2>1, Removal
  <2>3. PICK removed : removed = RemoveAt(sizes, i)
    OBVIOUS
  <2> QED BY <1>5, <2>2, <2>3
<1>8. ASSUME NEW j \in 1..n - 1 PROVE rest[j] = removed[j]
  <2>1. j \in 1..n /\ j + 1 \in 1..n
    BY <1>1
  <2>2. less[j] = IF j < i THEN items[j] ELSE items[j + 1]
    BY <1>2
  <2>3. rest[j] = size[less[j]] /\ removed[j] = IF j < i THEN sizes[j] ELSE sizes[j + 1]
    BY <1>6, <1>7
  <2>4. sizes[j] = size[items[j]] /\ sizes[j + 1] = size[items[j + 1]]
    BY <1>5, <2>1
  <2> QED BY <2>2, <2>3, <2>4
<1>9. rest = removed
  BY <1>6, <1>7, <1>8, SeqEqual
<1>10. Sum(sizes) = Sum(removed) + sizes[i] /\ Sum(removed) \in Nat
  BY <1>1, <1>5, <1>7, SumWithout, SumTyped
<1>11. sizes[i] = size[items[i]] /\ size[items[i]] \in Nat
  BY <1>1, <1>5
<1> QED BY <1>9, <1>10, <1>11

----------------------------------------------------------------------------
(* What flattening, selecting and concatenating leave of a sequence.       *)

IsSeq(s) == \E n \in Nat : s = [i \in 1..n |-> s[i]]

\* A member of Seq(S) is a sequence.
LEMMA SeqsAreSeqs ==
  ASSUME NEW S, NEW s \in Seq(S)
  PROVE  IsSeq(s)
<1>1. Len(s) \in Nat /\ s = [i \in 1..Len(s) |-> s[i]]
  BY LenProperties
<1> QED BY <1>1 DEF IsSeq

\* One item makes a sequence.
LEMMA OneItem ==
  ASSUME NEW x
  PROVE  IsSeq(<<x>>) /\ DOMAIN <<x>> = {1} /\ <<x>>[1] = x
<1>1. PICK s : s = <<x>>
  OBVIOUS
<1>2. s \in Seq({x}) /\ Len(s) = 1 /\ s[1] = x
  BY <1>1
<1>3. IsSeq(s) /\ DOMAIN s = 1..Len(s)
  BY ONLY <1>2, SeqsAreSeqs, LenProperties
<1>4. DOMAIN s = {1}
  BY <1>2, <1>3
<1> QED BY <1>1, <1>2, <1>3, <1>4

\* So does none.
LEMMA NoItem == IsSeq(<<>>) /\ DOMAIN <<>> = {}
<1>1. PICK s : s = <<>>
  OBVIOUS
<1>2. s \in Seq({}) /\ Len(s) = 0
  BY <1>1
<1>3. IsSeq(s) /\ DOMAIN s = 1..Len(s)
  BY ONLY <1>2, SeqsAreSeqs, LenProperties
<1>4. DOMAIN s = {}
  BY <1>2, <1>3
<1> QED BY <1>1, <1>3, <1>4

\* A sequence is one over the items it has.
LEMMA SeqOfItsItems ==
  ASSUME NEW s, IsSeq(s)
  PROVE  s \in Seq(Range(s)) /\ Len(s) \in Nat /\ DOMAIN s = 1..Len(s)
<1>1. PICK n \in Nat : s = [i \in 1..n |-> s[i]]
  BY DEF IsSeq
<1>2. DOMAIN s = 1..n
  BY <1>1
<1>3. \A i \in 1..n : s[i] \in Range(s)
  BY <1>2 DEF Range
<1>4. s \in [1..n -> Range(s)]
  BY <1>1, <1>3
<1>5. s \in Seq(Range(s))
  BY <1>4
<1> QED BY <1>5, LenProperties

\* A flattened sequence of sequences has the items of each of them and no others.
LEMMA Flattened ==
  ASSUME NEW ss, IsSeq(ss), \A i \in DOMAIN ss : IsSeq(ss[i])
  PROVE  /\ IsSeq(FlattenSeq(ss))
         /\ \A k \in DOMAIN FlattenSeq(ss) :
              \E i \in DOMAIN ss : \E j \in DOMAIN ss[i] : FlattenSeq(ss)[k] = ss[i][j]
         /\ \A i \in DOMAIN ss : \A j \in DOMAIN ss[i] :
              \E k \in DOMAIN FlattenSeq(ss) : FlattenSeq(ss)[k] = ss[i][j]
<1> DEFINE S == UNION {Range(ss[i]) : i \in DOMAIN ss}
<1>1. Len(ss) \in Nat /\ DOMAIN ss = 1..Len(ss) /\ ss = [i \in 1..Len(ss) |-> ss[i]]
  <2>1. Len(ss) \in Nat /\ DOMAIN ss = 1..Len(ss) /\ ss \in Seq(Range(ss))
    BY SeqOfItsItems
  <2> QED BY <2>1, LenProperties
<1>2. ASSUME NEW i \in DOMAIN ss
      PROVE  ss[i] \in Seq(S) /\ DOMAIN ss[i] = 1..Len(ss[i])
  <2>1. ss[i] \in Seq(Range(ss[i])) /\ DOMAIN ss[i] = 1..Len(ss[i])
    BY SeqOfItsItems
  <2>2. Range(ss[i]) \subseteq S
    OBVIOUS
  <2> HIDE DEF S
  <2> QED BY <2>1, <2>2, SeqMonotonic
<1>3. ss \in Seq(Seq(S))
  <2>1. \A i \in 1..Len(ss) : ss[i] \in Seq(S)
    BY <1>1, <1>2
  <2> HIDE DEF S
  <2> QED BY <1>1, <2>1
<1>4. FlattenSeq(ss) \in Seq(S)
  <2> HIDE DEF S
  <2> QED BY <1>3, FlattenTyped
<1>5. IsSeq(FlattenSeq(ss)) /\ DOMAIN FlattenSeq(ss) = 1..Len(FlattenSeq(ss))
  <2> HIDE DEF S
  <2> QED BY <1>4, SeqsAreSeqs, LenProperties
<1>6. ASSUME NEW k \in DOMAIN FlattenSeq(ss)
      PROVE  \E i \in DOMAIN ss : \E j \in DOMAIN ss[i] : FlattenSeq(ss)[k] = ss[i][j]
  <2>1. FlattenSeq(ss)[k] \in S
    <3> HIDE DEF S
    <3> QED BY <1>4, <1>5, ElementOfSeq
  <2>2. PICK i \in DOMAIN ss : FlattenSeq(ss)[k] \in Range(ss[i])
    BY <2>1
  <2> QED BY <2>2 DEF Range
<1>7. ASSUME NEW i \in DOMAIN ss, NEW j \in DOMAIN ss[i]
      PROVE  \E k \in DOMAIN FlattenSeq(ss) : FlattenSeq(ss)[k] = ss[i][j]
  <2>1. i \in 1..Len(ss) /\ j \in 1..Len(ss[i])
    BY <1>1, <1>2
  <2>2. \E k \in 1..Len(FlattenSeq(ss)) : FlattenSeq(ss)[k] = ss[i][j]
    <3> HIDE DEF S
    <3> QED BY ONLY <1>3, <2>1, FlattenHas
  <2> QED BY <1>5, <2>2
<1> QED BY <1>5, <1>6, <1>7

\* The items at some of the places; Those is this, with the places read off the items.
Picks(ss, items, keep) ==
  /\ IsSeq(items) /\ IsSeq(ss) /\ DOMAIN ss = DOMAIN items /\ keep \subseteq DOMAIN items
  /\ \A i \in DOMAIN items : ss[i] = IF i \in keep THEN <<items[i]>> ELSE <<>>
Picked(kept, items, keep) ==
  /\ IsSeq(kept)
  /\ \A k \in DOMAIN kept : \E i \in keep : kept[k] = items[i]
  /\ \A i \in keep : \E k \in DOMAIN kept : kept[k] = items[i]

\* Flattening the picked items and nothing for the others leaves the picked ones.
LEMMA Selected ==
  ASSUME NEW ss, NEW items, NEW keep, Picks(ss, items, keep)
  PROVE  Picked(FlattenSeq(ss), items, keep)
<1>1. PICK kept : kept = FlattenSeq(ss)
  OBVIOUS
<1>3. IsSeq(ss) /\ DOMAIN ss = DOMAIN items /\ keep \subseteq DOMAIN items
  BY DEF Picks
<1>4. \A i \in DOMAIN items : LET one == <<items[i]>> IN IsSeq(one) /\ DOMAIN one = {1}
          /\ one[1] = items[i]
  BY ONLY OneItem
<1>5. IsSeq(<<>>) /\ DOMAIN <<>> = {}
  BY ONLY NoItem
<1>6. \A i \in DOMAIN ss : ss[i] = IF i \in keep THEN <<items[i]>> ELSE <<>>
  BY DEF Picks
<1>7. ASSUME NEW i \in DOMAIN ss PROVE IsSeq(ss[i])
  <2>1. CASE i \in keep
    BY <1>3, <1>4, <1>6, <2>1
  <2>2. CASE i \notin keep
    BY <1>5, <1>6, <2>2
  <2> QED BY <2>1, <2>2
<1>8. /\ IsSeq(kept)
      /\ \A k \in DOMAIN kept : \E i \in DOMAIN ss : \E j \in DOMAIN ss[i] : kept[k] = ss[i][j]
      /\ \A i \in DOMAIN ss : \A j \in DOMAIN ss[i] : \E k \in DOMAIN kept : kept[k] = ss[i][j]
  BY ONLY <1>1, <1>3, <1>7, Flattened
<1>9. ASSUME NEW k \in DOMAIN kept
      PROVE  \E i \in keep : kept[k] = items[i]
  <2>1. PICK i \in DOMAIN ss : \E j \in DOMAIN ss[i] : kept[k] = ss[i][j]
    BY <1>8
  <2>2. PICK j \in DOMAIN ss[i] : kept[k] = ss[i][j]
    BY <2>1
  <2>3. i \in keep
    BY <1>5, <1>6, <2>2
  <2>4. ss[i] = <<items[i]>> /\ i \in DOMAIN items
    BY <1>3, <1>6, <2>3
  <2>5. j = 1 /\ ss[i][j] = items[i]
    BY <1>4, <2>4, <2>2
  <2> QED BY <2>2, <2>3, <2>4, <2>5
<1>10. ASSUME NEW i \in keep
       PROVE  \E k \in DOMAIN kept : kept[k] = items[i]
  <2>1. ss[i] = <<items[i]>> /\ i \in DOMAIN ss
    BY <1>3, <1>6
  <2>2. 1 \in DOMAIN ss[i] /\ ss[i][1] = items[i]
    BY <1>4, <2>1
  <2>3. \E k \in DOMAIN kept : kept[k] = ss[i][1]
    BY <1>8, <2>1, <2>2
  <2> QED BY <2>2, <2>3
<1> QED BY <1>1, <1>8, <1>9, <1>10, <1>3 DEF Picked

\* EachOnce neither adds an item nor loses one.
LEMMA Once ==
  ASSUME NEW items, IsSeq(items), NEW once, once = EachOnce(items)
  PROVE  /\ IsSeq(once)
         /\ \A k \in DOMAIN once : \E i \in DOMAIN items : once[k] = items[i]
         /\ \A i \in DOMAIN items : \E k \in DOMAIN once : once[k] = items[i]
<1>1. PICK keep : keep = {i \in DOMAIN items : ~ \E j \in 1..i - 1 : items[j] = items[i]}
  OBVIOUS
<1>2. keep \in SUBSET DOMAIN items
  BY <1>1
<1>3. PICK ss : ss = [i \in DOMAIN items |->
                       IF \E j \in 1..i - 1 : items[j] = items[i] THEN <<>> ELSE <<items[i]>>]
  OBVIOUS
<1>4. Picked(once, items, keep)
  <2>1. IsSeq(ss) /\ DOMAIN ss = DOMAIN items
    <3>1. PICK n \in Nat : DOMAIN items = 1..n
      BY SeqOfItsItems
    <3> QED BY <1>3, <3>1 DEF IsSeq
  <2>2. Picks(ss, items, keep)
    BY <1>1, <1>3, <2>1 DEF Picks
  <2>3. once = FlattenSeq(ss)
    BY <1>3 DEF EachOnce
  <2> QED BY <2>2, <2>3, Selected
<1>5. ASSUME NEW i \in DOMAIN items PROVE \E k \in DOMAIN once : once[k] = items[i]
  <2> DEFINE Same == {j \in DOMAIN items : items[j] = items[i]}
  <2>0. PICK n \in Nat : DOMAIN items = 1..n
    BY SeqOfItsItems
  <2>1. PICK m \in Same : \A j \in Same : m <= j
    <3>1. Same \in SUBSET Nat /\ i \in Same
      BY <2>0
    <3> HIDE DEF Same
    <3> QED BY <3>1, MinIsLeast
  <2>2. m \in DOMAIN items /\ items[m] = items[i] /\ m \in 1..n
    BY <2>0, <2>1
  <2>3. m \in keep
    <3>1. ASSUME NEW j \in 1..m - 1, items[j] = items[m] PROVE FALSE
      <4>1. j \in Same /\ j < m
        BY <2>0, <2>2, <3>1
      <4> HIDE DEF Same
      <4> QED BY <2>0, <2>1, <2>2, <4>1
    <3> QED BY <1>1, <2>2, <3>1
  <2> QED BY <1>4, <2>2, <2>3 DEF Picked
<1> QED BY <1>2, <1>4, <1>5 DEF Picked

Joined(both, a, b) ==
  /\ IsSeq(both)
  /\ \A k \in DOMAIN both : (\E i \in DOMAIN a : both[k] = a[i]) \/ (\E i \in DOMAIN b : both[k] = b[i])
  /\ \A i \in DOMAIN a : \E k \in DOMAIN both : both[k] = a[i]
  /\ \A i \in DOMAIN b : \E k \in DOMAIN both : both[k] = b[i]

\* A concatenation has the items of its parts and no others.
LEMMA Concatenated ==
  ASSUME NEW a, NEW b, IsSeq(a), IsSeq(b)
  PROVE  Joined(a \o b, a, b)
<1>0. PICK both : both = a \o b
  OBVIOUS
<1>1. PICK S : S = Range(a) \cup Range(b)
  OBVIOUS
<1>2. /\ a \in Seq(Range(a)) /\ DOMAIN a = 1..Len(a) /\ Len(a) \in Nat
      /\ b \in Seq(Range(b)) /\ DOMAIN b = 1..Len(b) /\ Len(b) \in Nat
  BY SeqOfItsItems
<1>3. a \in Seq(S) /\ b \in Seq(S)
  BY <1>1, <1>2, SeqMonotonic
<1>4. /\ a \o b \in Seq(S)
      /\ \A k \in 1..Len(a) : k \in 1..Len(a \o b) /\ (a \o b)[k] = a[k]
      /\ \A j \in 1..Len(b) : Len(a) + j \in 1..Len(a \o b) /\ (a \o b)[Len(a) + j] = b[j]
  BY ONLY <1>3, Concatenation
<1>5. IsSeq(both) /\ DOMAIN both = 1..Len(both)
  BY <1>0, <1>4, SeqsAreSeqs, SeqOfItsItems
<1>6. \A k \in DOMAIN both : (\E i \in DOMAIN a : both[k] = a[i]) \/ (\E i \in DOMAIN b : both[k] = b[i])
  <2>1. \A k \in DOMAIN both : both[k] \in S
    BY <1>0, <1>4, <1>5
  <2> QED BY <1>1, <2>1 DEF Range
<1>7. \A i \in DOMAIN a : \E k \in DOMAIN both : both[k] = a[i]
  BY <1>0, <1>2, <1>4, <1>5
<1>8. \A i \in DOMAIN b : \E k \in DOMAIN both : both[k] = b[i]
  BY <1>0, <1>2, <1>4, <1>5
<1> QED BY <1>0, <1>5, <1>6, <1>7, <1>8 DEF Joined

----------------------------------------------------------------------------
(* What the candidates of a list are: every list with one item less.       *)

\* The deletions get down to single items.
LEMMA OneIsAWidth ==
  ASSUME NEW removable \in Nat, removable >= 1
  PROVE  1 \in Widths(removable)
<1>1. \E k \in 0..removable : 1 = 2^k
  <2>1. 0 \in 0..removable
    OBVIOUS
  <2>2. 1 = 2^0
    OBVIOUS
  <2> WITNESS 0 \in 0..removable
  <2> QED BY <2>2
<1>2. 1 \in 1..removable
  OBVIOUS
<1> QED BY <1>1, <1>2, Zenon DEF Widths

\* Every single item is among the chunks to delete.
LEMMA ChunksTyped ==
  ASSUME NEW values, Len(values) \in Nat, NEW min_items \in Nat
  PROVE  /\ IsSeq(Chunks(values, min_items))
         /\ Len(values) > min_items => \A i \in 1..Len(values) :
              \E k \in DOMAIN Chunks(values, min_items) : Chunks(values, min_items)[k] = <<1, i - 1>>
<1>1. PICK n : n = Len(values) /\ n \in Nat
  OBVIOUS
<1>2. PICK removable : removable = n - min_items /\ removable \in Int
  BY <1>1
<1> DEFINE chunks(width) == [k \in 1..((n + width - 1) \div width) |-> <<width, (k - 1) * width>>]
<1>3. PICK ss : ss = [m \in 1..removable |-> LET width == removable + 1 - m
                                             IN  IF width \in Widths(removable) THEN chunks(width) ELSE <<>>]
  OBVIOUS
<1>4. Chunks(values, min_items) = FlattenSeq(ss)
  BY <1>1, <1>2, <1>3 DEF Chunks
<1>5. IsSeq(ss) /\ DOMAIN ss = 1..removable
  <2>1. CASE removable >= 0
    BY <1>2, <1>3, <2>1 DEF IsSeq
  <2>2. CASE removable < 0
    <3>1. 1..removable = 1..0
      BY <1>2, <2>2
    <3> QED BY <1>3, <3>1 DEF IsSeq
  <2> QED BY <1>2, <2>1, <2>2
<1>6. ASSUME NEW m \in DOMAIN ss
      PROVE  IsSeq(ss[m])
  <2>1. PICK width : width = removable + 1 - m /\ width \in Nat \ {0}
    BY <1>2, <1>5
  <2>2. CASE width \in Widths(removable)
    <3>1. PICK q : q = (n + width - 1) \div width /\ q \in Nat
      BY <1>1, <2>1
    <3>2. ss[m] = [k \in 1..q |-> <<width, (k - 1) * width>>]
      BY <1>3, <1>5, <2>1, <2>2, <3>1
    <3> QED BY <3>1, <3>2 DEF IsSeq
  <2>3. CASE width \notin Widths(removable)
    <3>1. ss[m] = <<>>
      BY <1>3, <1>5, <2>1, <2>3
    <3> QED BY <3>1, NoItem
  <2> QED BY <2>2, <2>3
<1>7. /\ IsSeq(FlattenSeq(ss))
      /\ \A m \in DOMAIN ss : \A j \in DOMAIN ss[m] :
           \E k \in DOMAIN FlattenSeq(ss) : FlattenSeq(ss)[k] = ss[m][j]
  BY ONLY <1>5, <1>6, Flattened
<1>8. ASSUME n > min_items, NEW i \in 1..n
      PROVE  \E k \in DOMAIN FlattenSeq(ss) : FlattenSeq(ss)[k] = <<1, i - 1>>
  <2>1. removable \in DOMAIN ss /\ removable + 1 - removable = 1 /\ removable >= 1
            /\ removable \in Nat
    BY <1>1, <1>2, <1>5, <1>8
  <2>2. ss[removable] = chunks(1)
    BY <1>3, <2>1, OneIsAWidth
  <2>3. (n + 1 - 1) \div 1 = n /\ (i - 1) * 1 = i - 1
    BY <1>1
  <2>4. i \in DOMAIN ss[removable] /\ ss[removable][i] = <<1, i - 1>>
    BY <2>2, <2>3
  <2> QED BY <1>7, <2>1, <2>4
<1> QED BY <1>1, <1>4, <1>7, <1>8

\* Every chunk's deletion that leaves enough items is offered.
LEMMA DeletionsTyped ==
  ASSUME NEW values, Len(values) \in Nat, NEW min_items \in Nat
  PROVE  /\ IsSeq(list_deletions(values, min_items))
         /\ \A k \in DOMAIN Chunks(values, min_items) :
              Len(Without(values, Chunks(values, min_items)[k])) >= min_items =>
                \E m \in DOMAIN list_deletions(values, min_items) :
                  list_deletions(values, min_items)[m] = Without(values, Chunks(values, min_items)[k])
<1>1. PICK chunks : chunks = Chunks(values, min_items) /\ IsSeq(chunks)
  BY ChunksTyped
<1>2. PICK deletions : deletions = [i \in DOMAIN chunks |-> Without(values, chunks[i])]
  OBVIOUS
<1>3. IsSeq(deletions) /\ DOMAIN deletions = DOMAIN chunks
  BY <1>1, <1>2, SeqOfItsItems DEF IsSeq
<1>4. PICK once : once = EachOnce(deletions)
  OBVIOUS
<1>5. IsSeq(once) /\ \A i \in DOMAIN deletions : \E k \in DOMAIN once : once[k] = deletions[i]
  BY ONLY <1>3, <1>4, Once
<1>6. PICK keep : keep = {k \in DOMAIN once : Len(once[k]) >= min_items}
  OBVIOUS
<1>7. PICK ss : ss = [k \in DOMAIN once |-> IF Len(once[k]) >= min_items THEN <<once[k]>> ELSE <<>>]
  OBVIOUS
<1>8. Picks(ss, once, keep)
  <2>1. IsSeq(ss) /\ DOMAIN ss = DOMAIN once
    BY <1>5, <1>7, SeqOfItsItems DEF IsSeq
  <2> QED BY <1>5, <1>6, <1>7, <2>1 DEF Picks
<1>9. list_deletions(values, min_items) = FlattenSeq(ss)
  BY <1>1, <1>2, <1>4, <1>7 DEF list_deletions, Those
<1>10. Picked(list_deletions(values, min_items), once, keep)
  BY <1>8, <1>9, Selected
<1>11. ASSUME NEW k \in DOMAIN chunks, Len(Without(values, chunks[k])) >= min_items
       PROVE  \E m \in DOMAIN list_deletions(values, min_items) :
                list_deletions(values, min_items)[m] = Without(values, chunks[k])
  <2>1. PICK j \in DOMAIN once : once[j] = Without(values, chunks[k])
    BY <1>2, <1>3, <1>5
  <2>2. j \in keep
    BY <1>6, <1>11, <2>1
  <2> QED BY <1>10, <2>1, <2>2 DEF Picked
<1> QED BY <1>1, <1>10, <1>11 DEF Picked

\* _list_deletions and hierarchical_byte_deletions offer the list without each of its items.
LEMMA EachDeletionIsOffered ==
  ASSUME NEW S, NEW values \in Seq(S), NEW min_items \in Nat, Len(values) > min_items,
         NEW i \in 1..Len(values)
  PROVE  /\ Len(RemoveAt(values, i)) < Len(values)
         /\ \E m \in DOMAIN list_deletions(values, min_items) :
              list_deletions(values, min_items)[m] = RemoveAt(values, i)
<1>1. Len(values) \in Nat /\ Len(RemoveAt(values, i)) = Len(values) - 1
  BY Removal
<1>2. PICK k \in DOMAIN Chunks(values, min_items) : Chunks(values, min_items)[k] = <<1, i - 1>>
  BY <1>1, ChunksTyped
<1>3. PICK c : c = Chunks(values, min_items)[k] /\ c[1] = 1 /\ c[2] = i - 1
  BY <1>2
<1>4. Without(values, c) = RemoveAt(values, i)
  <2>1. i - 1 + 1 + 1 = i + 1
    OBVIOUS
  <2> QED BY <1>3, <2>1 DEF Without, RemoveAt
<1>5. Len(Without(values, c)) >= min_items
  BY <1>1, <1>4
<1>6. \E m \in DOMAIN list_deletions(values, min_items) :
        list_deletions(values, min_items)[m] = Without(values, c)
  BY <1>1, <1>3, <1>5, DeletionsTyped
<1> QED BY <1>1, <1>4, <1>6

----------------------------------------------------------------------------
(* What the candidates of a SQLite phase leave alone.                      *)

\* The deletions of the SQLite reducers are those of the one list they work on.
LEMMA DeletionsKeep ==
  ASSUME NEW case \in SqliteValue
  PROVE  /\ IsSeq(body_deletions(case)) /\ IsSeq(setup_deletions(case))
         /\ DOMAIN body_deletions(case) = DOMAIN list_deletions(case.body, 1)
         /\ DOMAIN setup_deletions(case) = DOMAIN list_deletions(case.setup, 0)
         /\ \A k \in DOMAIN body_deletions(case) :
              body_deletions(case)[k] = [case EXCEPT !.body = list_deletions(case.body, 1)[k]]
         /\ \A k \in DOMAIN setup_deletions(case) :
              setup_deletions(case)[k] = [case EXCEPT !.setup = list_deletions(case.setup, 0)[k]]
<1>1. Len(case.body) \in Nat /\ Len(case.setup) \in Nat
  BY DEF SqliteValue
<1>2. PICK bodies : bodies = list_deletions(case.body, 1) /\ IsSeq(bodies)
  BY <1>1, DeletionsTyped
<1>3. PICK setups : setups = list_deletions(case.setup, 0) /\ IsSeq(setups)
  BY <1>1, DeletionsTyped
<1>4. PICK m \in Nat : DOMAIN bodies = 1..m
  BY <1>2, SeqOfItsItems
<1>5. PICK n \in Nat : DOMAIN setups = 1..n
  BY <1>3, SeqOfItsItems
<1>6. body_deletions(case) = [i \in 1..m |-> [case EXCEPT !.body = bodies[i]]]
  BY <1>2, <1>4 DEF body_deletions
<1>7. setup_deletions(case) = [i \in 1..n |-> [case EXCEPT !.setup = setups[i]]]
  BY <1>3, <1>5 DEF setup_deletions
<1>8. IsSeq(body_deletions(case)) /\ IsSeq(setup_deletions(case))
  BY <1>6, <1>7 DEF IsSeq
<1> QED BY <1>2, <1>3, <1>4, <1>5, <1>6, <1>7, <1>8

\* simpler_scalars yields finitely many scalars.
LEMMA SimplerTyped ==
  ASSUME NEW s \in Scalar
  PROVE  IsSeq(simpler_scalars(s))
<1> DEFINE sign == IF s[1] # "str" /\ s[2] < 0 THEN -1 ELSE 1
           boundary == IF s[1] # "bool" /\ Magnitude(s[2]) > Unit(s[1])
                         THEN << <<s[1], sign * Unit(s[1])>> >> ELSE << >>
           first == << <<s[1], 0>> >>
           last == <<null>>
<1>1. IsSeq(boundary) /\ IsSeq(first) /\ IsSeq(last)
  BY OneItem, NoItem
<1>2. PICK tried : tried = first \o boundary \o last
  OBVIOUS
<1>3. IsSeq(tried)
  <2> HIDE DEF boundary, first, last
  <2>1. IsSeq(first \o boundary)
    BY <1>1, Concatenated DEF Joined
  <2> QED BY <1>1, <1>2, <2>1, Concatenated DEF Joined
<1>4. PICK ss : ss = [i \in DOMAIN tried |-> IF tried[i] # s THEN <<tried[i]>> ELSE <<>>]
  OBVIOUS
<1>5. PICK keep : keep = {i \in DOMAIN tried : tried[i] # s}
  OBVIOUS
<1>6. Picks(ss, tried, keep)
  <2>1. IsSeq(ss) /\ DOMAIN ss = DOMAIN tried
    BY <1>3, <1>4, SeqOfItsItems DEF IsSeq
  <2> QED BY <1>3, <1>4, <1>5, <2>1 DEF Picks
<1>7. IsSeq(FlattenSeq(ss))
  BY <1>6, Selected DEF Picked
<1>8. simpler_scalars(s) = IF s = null THEN <<>> ELSE FlattenSeq(ss)
  BY <1>2, <1>4 DEF simpler_scalars, Those
<1> QED BY <1>7, <1>8, NoItem

\* Simplified yields finitely many parameter lists.
LEMMA SimplifiedTyped ==
  ASSUME NEW params \in Seq(Scalar)
  PROVE  IsSeq(Simplified(params))
<1>1. PICK n \in Nat : DOMAIN params = 1..n
  BY LenProperties
<1>2. PICK ss : ss = [i \in DOMAIN params |->
                       LET simpler == simpler_scalars(params[i])
                       IN  [j \in DOMAIN simpler |-> [params EXCEPT ![i] = simpler[j]]]]
  OBVIOUS
<1>3. IsSeq(ss) /\ DOMAIN ss = 1..n
  BY <1>1, <1>2 DEF IsSeq
<1>4. ASSUME NEW i \in DOMAIN ss PROVE IsSeq(ss[i])
  <2>1. params[i] \in Scalar
    BY <1>1, <1>3, ElementOfSeq
  <2>2. PICK simpler : simpler = simpler_scalars(params[i]) /\ IsSeq(simpler)
    BY <2>1, SimplerTyped
  <2>3. PICK m \in Nat : DOMAIN simpler = 1..m
    BY <2>2, SeqOfItsItems
  <2>4. ss[i] = [j \in 1..m |-> [params EXCEPT ![i] = simpler[j]]]
    BY <1>1, <1>2, <1>3, <2>2, <2>3
  <2> QED BY <2>4 DEF IsSeq
<1>5. IsSeq(FlattenSeq(ss))
  BY ONLY <1>3, <1>4, Flattened
<1>6. Simplified(params) = FlattenSeq(ss)
  BY <1>2 DEF Simplified
<1> QED BY <1>5, <1>6

SameButParameters(a, b) ==
  a.setup = b.setup /\ a.occurrence = b.occurrence /\ Len(a.body) = Len(b.body)

\* The parameter reducers touch parameters: no statement, step or occurrence.
LEMMA ParametersKeep ==
  ASSUME NEW case \in SqliteValue
  PROVE  /\ IsSeq(parameter_reductions(case))
         /\ \A k \in DOMAIN parameter_reductions(case) :
              SameButParameters(parameter_reductions(case)[k], case)
<1> DEFINE inBody(k) == LET lists == Simplified(case.body[k])
                        IN  [i \in DOMAIN lists |-> [case EXCEPT !.body[k] = lists[i]]]
           Fine(s) == IsSeq(s) /\ \A i \in DOMAIN s : SameButParameters(s[i], case)
<1>0. /\ case.body \in Seq(Seq(Scalar)) /\ case.observe \in Seq(Scalar)
      /\ DOMAIN case = {"setup", "body", "observe", "occurrence"}
  BY DEF SqliteValue
<1>1. PICK n \in Nat : n = Len(case.body) /\ DOMAIN case.body = 1..n
  BY <1>0, LenProperties
<1>2. PICK ss : ss = [k \in DOMAIN case.body |-> inBody(k)]
  OBVIOUS
<1>3. IsSeq(ss) /\ DOMAIN ss = 1..n
  BY <1>1, <1>2 DEF IsSeq
<1>4. ASSUME NEW k \in DOMAIN ss PROVE Fine(ss[k])
  <2>1. PICK lists : lists = Simplified(case.body[k]) /\ IsSeq(lists)
    BY <1>0, <1>1, <1>3, SimplifiedTyped
  <2>2. PICK m \in Nat : DOMAIN lists = 1..m
    BY <2>1, SeqOfItsItems
  <2>3. ss[k] = [i \in 1..m |-> [case EXCEPT !.body[k] = lists[i]]]
    BY <1>1, <1>2, <1>3, <2>1, <2>2
  <2>4. ASSUME NEW i \in 1..m PROVE SameButParameters([case EXCEPT !.body[k] = lists[i]], case)
    <3>1. PICK body : body = [case.body EXCEPT ![k] = lists[i]]
      OBVIOUS
    <3>2. Len(body) = Len(case.body)
      <4>1. body \in Seq(Seq(Scalar) \cup {lists[i]}) /\ DOMAIN body = 1..n
        BY <1>0, <1>1, <1>3, <3>1
      <4> QED BY <1>1, <4>1, LenProperties
    <3>3. [case EXCEPT !.body[k] = lists[i]] = [case EXCEPT !.body = body]
      BY <3>1
    <3>4. PICK new : new = [case EXCEPT !.body = body]
      OBVIOUS
    <3>5. new.body = body /\ new.setup = case.setup /\ new.occurrence = case.occurrence
      BY <1>0, <3>4
    <3> QED BY <3>2, <3>3, <3>4, <3>5 DEF SameButParameters
  <2>5. IsSeq(ss[k]) /\ DOMAIN ss[k] = 1..m
    BY <2>3 DEF IsSeq
  <2> QED BY <2>3, <2>4, <2>5
<1>5. PICK bodies : bodies = FlattenSeq(ss)
  OBVIOUS
<1>6. Fine(bodies)
  <2>1. \A k \in DOMAIN ss : IsSeq(ss[k])
    BY <1>4
  <2>2. /\ IsSeq(bodies)
        /\ \A i \in DOMAIN bodies : \E k \in DOMAIN ss : \E j \in DOMAIN ss[k] : bodies[i] = ss[k][j]
    BY ONLY <1>3, <1>5, <2>1, Flattened
  <2> QED BY <1>4, <2>2
<1>7. PICK observes : observes = Simplified(case.observe) /\ IsSeq(observes)
  BY <1>0, SimplifiedTyped
<1>8. PICK m \in Nat : DOMAIN observes = 1..m
  BY <1>7, SeqOfItsItems
<1>9. PICK others : others = [i \in DOMAIN observes |-> [case EXCEPT !.observe = observes[i]]]
  OBVIOUS
<1>10. Fine(others)
  <2>1. IsSeq(others) /\ DOMAIN others = 1..m
    BY <1>8, <1>9 DEF IsSeq
  <2>2. \A i \in 1..m : SameButParameters(others[i], case)
    BY <1>0, <1>8, <1>9 DEF SameButParameters
  <2> QED BY <2>1, <2>2
<1>11. PICK proposed : proposed = bodies \o others
  OBVIOUS
<1>12. Fine(proposed)
  <2>1. Joined(proposed, bodies, others)
    <3>1. IsSeq(bodies) /\ IsSeq(others)
      BY <1>6, <1>10
    <3> QED BY ONLY <1>11, <3>1, Concatenated
  <2> QED BY <1>6, <1>10, <2>1 DEF Joined
<1>13. PICK keep : keep = {i \in DOMAIN proposed : parameter_complexity(proposed[i]) < parameter_complexity(case)}
  OBVIOUS
<1>14. PICK picks : picks = [i \in DOMAIN proposed |->
                              IF parameter_complexity(proposed[i]) < parameter_complexity(case)
                                THEN <<proposed[i]>> ELSE <<>>]
  OBVIOUS
<1>15. Picks(picks, proposed, keep)
  <2>1. IsSeq(picks) /\ DOMAIN picks = DOMAIN proposed
    BY <1>12, <1>14, SeqOfItsItems DEF IsSeq
  <2> QED BY <1>12, <1>13, <1>14, <2>1 DEF Picks
<1>16. parameter_reductions(case) = FlattenSeq(picks)
  BY <1>2, <1>5, <1>7, <1>9, <1>11, <1>14 DEF parameter_reductions, Those
<1>17. Picked(parameter_reductions(case), proposed, keep)
  BY <1>15, <1>16, Selected
<1> QED BY <1>12, <1>13, <1>17 DEF Picked

----------------------------------------------------------------------------
(* What the flat formats emit: every frame with one item less.             *)

\* emit() loses nothing that is shorter.
LEMMA EmittedHas ==
  ASSUME NEW picks, NEW proposals, NEW shorter, Picks(picks, proposals, shorter),
         NEW i \in shorter, NEW emitted, emitted = EachOnce(FlattenSeq(picks))
  PROVE  \E k \in DOMAIN emitted : emitted[k] = proposals[i]
<1>1. PICK those : those = FlattenSeq(picks) /\ Picked(those, proposals, shorter)
  BY Selected
<1>2. IsSeq(those) /\ emitted = EachOnce(those)
  BY <1>1 DEF Picked
<1>3. \A m \in DOMAIN those : \E k \in DOMAIN emitted : emitted[k] = those[m]
  BY ONLY <1>2, Once
<1>4. PICK m \in DOMAIN those : those[m] = proposals[i]
  BY <1>1 DEF Picked
<1> QED BY <1>3, <1>4

\* Two items make a sequence.
LEMMA TwoItems ==
  ASSUME NEW x, NEW y
  PROVE  IsSeq(<<x, y>>)
<1>1. PICK s : s = <<x, y>>
  OBVIOUS
<1>2. s \in Seq({x, y})
  BY <1>1
<1>3. IsSeq(s)
  BY ONLY <1>2, SeqsAreSeqs
<1> QED BY <1>1, <1>3

\* string_reductions and field_reductions yield finitely many texts.
LEMMA TextReductionsTyped ==
  ASSUME NEW text
  PROVE  IsSeq(string_reductions(text)) /\ IsSeq(field_reductions(text))
<1>1. ASSUME NEW x, NEW y PROVE IsSeq(EmptyOr(text, <<x, y>>))
  <2>1. PICK a : a = << <<>> >> /\ IsSeq(a)
    BY OneItem
  <2>2. PICK b : b = <<x, y>> /\ IsSeq(b)
    BY TwoItems
  <2>3. IsSeq(a \o b)
    BY ONLY <2>1, <2>2, Concatenated DEF Joined
  <2>4. EmptyOr(text, <<x, y>>) \in {<<>>, a, a \o b}
    BY <2>1, <2>2 DEF EmptyOr
  <2> QED BY <2>1, <2>3, <2>4, NoItem
<1> QED BY <1>1 DEF string_reductions, field_reductions

\* A sequence has the places 1..n.
LEMMA MappedTyped ==
  ASSUME NEW s, IsSeq(s)
  PROVE  \E n \in Nat : DOMAIN s = 1..n
BY SeqOfItsItems

\* Editing is this, with the reductions read off the items.
LEMMA EditingTyped ==
  ASSUME NEW items, IsSeq(items), NEW ss, DOMAIN ss = DOMAIN items, ss = [i \in DOMAIN ss |-> ss[i]],
         \A i \in DOMAIN items : IsSeq(ss[i])
  PROVE  IsSeq(FlattenSeq(ss))
<1>1. PICK n \in Nat : DOMAIN items = 1..n
  BY MappedTyped
<1>2. IsSeq(ss)
  BY <1>1 DEF IsSeq
<1> QED BY <1>2, Flattened

\* Deleting offers the list without each of its items.
LEMMA DeletingHas ==
  ASSUME NEW S, NEW items \in Seq(S)
  PROVE  /\ IsSeq(Deleting(items)) /\ DOMAIN Deleting(items) = 1..Len(items)
         /\ \A i \in 1..Len(items) : Deleting(items)[i] = RemoveAt(items, i)
<1>1. Len(items) \in Nat /\ DOMAIN items = 1..Len(items)
  BY LenProperties
<1> QED BY <1>1 DEF Deleting, IsSeq

\* Texts have a number of bytes.
LEMMA BytesTyped ==
  ASSUME NEW text \in Seq(Nat)
  PROVE  Bytes(text) \in Nat
<1>1. PICK sizes : sizes = [i \in DOMAIN text |-> IF text[i] = 2 THEN 2 ELSE 1]
  OBVIOUS
<1>2. sizes \in Seq(Nat)
  BY <1>1
<1> QED BY <1>1, <1>2, SumTyped DEF Bytes

----------------------------------------------------------------------------
\* A form without one of its pairs is offered, and is shorter.
LEMMA FormHas ==
  ASSUME NEW pairs \in Seq(Seq(Nat) \X Seq(Nat)), NEW i \in 1..Len(pairs)
  PROVE  /\ FormSize(RemoveAt(pairs, i)) < FormSize(pairs)
         /\ \E k \in DOMAIN form_candidates(pairs) : form_candidates(pairs)[k] = RemoveAt(pairs, i)
<1>1. FormSize(RemoveAt(pairs, i)) < FormSize(pairs)
  <2> DEFINE Pair == Seq(Nat) \X Seq(Nat)
  <2>1. PICK size : size = [p \in Pair |-> 8 + Bytes(p[1]) + Bytes(p[2])]
    OBVIOUS
  <2>2. size \in [Pair -> Nat] /\ \A p \in Pair : size[p] = 8 + Bytes(p[1]) + Bytes(p[2])
            /\ size[p] >= 8
    <3>1. ASSUME NEW p \in Pair PROVE 8 + Bytes(p[1]) + Bytes(p[2]) \in Nat
              /\ 8 + Bytes(p[1]) + Bytes(p[2]) >= 8
      <4>1. Bytes(p[1]) \in Nat /\ Bytes(p[2]) \in Nat
        BY BytesTyped
      <4>2. \A a, b \in Nat : 8 + a + b \in Nat /\ 8 + a + b >= 8
        OBVIOUS
      <4> QED BY ONLY <4>1, <4>2
    <3> HIDE DEF Pair
    <3> QED BY <2>1, <3>1
  <2>3. PICK less : less = RemoveAt(pairs, i) /\ less \in Seq(Pair)
    BY Removal
  <2>4. PICK sizes : sizes = [k \in DOMAIN pairs |-> 8 + Bytes(pairs[k][1]) + Bytes(pairs[k][2])]
    OBVIOUS
  <2>5. PICK rest : rest = [k \in DOMAIN less |-> 8 + Bytes(less[k][1]) + Bytes(less[k][2])]
    OBVIOUS
  <2>6. SizesOf(sizes, pairs, size)
    <3>1. Len(pairs) \in Nat /\ DOMAIN pairs = 1..Len(pairs)
              /\ \A k \in 1..Len(pairs) : pairs[k] \in Pair
      OBVIOUS
    <3> HIDE DEF Pair
    <3>2. \A k \in 1..Len(pairs) : sizes[k] = size[pairs[k]] /\ sizes[k] \in Nat
      BY <2>2, <2>4, <3>1
    <3>3. sizes \in Seq(Nat) /\ Len(sizes) = Len(pairs)
      BY <2>4, <3>1, <3>2
    <3> QED BY <3>2, <3>3 DEF SizesOf
  <2>7. SizesOf(rest, less, size)
    <3>1. Len(less) \in Nat /\ DOMAIN less = 1..Len(less) /\ \A k \in 1..Len(less) : less[k] \in Pair
      <4> HIDE DEF Pair
      <4> QED BY ONLY <2>3, LenProperties
    <3> HIDE DEF Pair
    <3>2. \A k \in 1..Len(less) : rest[k] = size[less[k]] /\ rest[k] \in Nat
      BY <2>2, <2>5, <3>1
    <3>3. rest \in Seq(Nat) /\ Len(rest) = Len(less)
      BY <2>5, <3>1, <3>2
    <3> QED BY <3>2, <3>3 DEF SizesOf
  <2>8. Sum(rest) \in Nat /\ Sum(sizes) = Sum(rest) + size[pairs[i]]
    BY <2>3, <2>6, <2>7, SumOfItemsWithout
  <2>9. size[pairs[i]] \in Nat /\ size[pairs[i]] >= 8
    <3>1. pairs[i] \in Pair
      OBVIOUS
    <3> HIDE DEF Pair
    <3> QED BY <2>2, <3>1
  <2>10. FormSize(pairs) = 4 + Sum(sizes) /\ FormSize(less) = 4 + Sum(rest)
    BY <2>4, <2>5 DEF FormSize
  <2> HIDE DEF Pair
  <2>11. \A a, b \in Nat : b >= 8 => 4 + a < 4 + (a + b)
    OBVIOUS
  <2>12. 4 + Sum(rest) < 4 + Sum(sizes)
    BY ONLY <2>8, <2>9, <2>11
  <2> QED BY ONLY <2>3, <2>10, <2>12
<1>2. \E k \in DOMAIN form_candidates(pairs) : form_candidates(pairs)[k] = RemoveAt(pairs, i)
  <2>1. PICK n \in Nat : n = Len(pairs) /\ DOMAIN pairs = 1..n /\ IsSeq(pairs)
    BY LenProperties, SeqsAreSeqs
  <2>2. PICK ss : ss = [m \in DOMAIN pairs |->
                         LET reduced == Editing(pairs[m], string_reductions)
                         IN  [j \in DOMAIN reduced |-> [pairs EXCEPT ![m] = reduced[j]]]]
    OBVIOUS
  <2>3. ASSUME NEW m \in DOMAIN pairs PROVE IsSeq(ss[m])
    <3>1. pairs[m] \in Seq(Nat) \X Seq(Nat)
      BY <2>1, ElementOfSeq
    <3>2. PICK pair : pair = pairs[m] /\ IsSeq(pair)
      <4>1. pairs[m] = <<pairs[m][1], pairs[m][2]>>
        BY <3>1
      <4> QED BY <4>1, TwoItems
    <3>3. PICK tt : tt = [l \in DOMAIN pair |->
                           LET reduced == string_reductions(pair[l])
                           IN  [j \in DOMAIN reduced |-> [pair EXCEPT ![l] = reduced[j]]]]
      OBVIOUS
    <3>4. ASSUME NEW l \in DOMAIN pair PROVE IsSeq(tt[l])
      <4>1. PICK reduced : reduced = string_reductions(pair[l]) /\ IsSeq(reduced)
        BY TextReductionsTyped
      <4>2. PICK q \in Nat : DOMAIN reduced = 1..q
        BY <4>1, MappedTyped
      <4>3. tt[l] = [j \in 1..q |-> [pair EXCEPT ![l] = reduced[j]]]
        BY <3>3, <4>1, <4>2
      <4> QED BY <4>3 DEF IsSeq
    <3>5. PICK reduced : reduced = Editing(pairs[m], string_reductions) /\ IsSeq(reduced)
      <4>1. IsSeq(FlattenSeq(tt))
        <5>1. DOMAIN tt = DOMAIN pair /\ tt = [l \in DOMAIN tt |-> tt[l]]
          BY <3>3
        <5>2. \A l \in DOMAIN pair : IsSeq(tt[l])
          BY <3>4
        <5> QED BY ONLY <3>2, <5>1, <5>2, EditingTyped
      <4>2. Editing(pairs[m], string_reductions) = FlattenSeq(tt)
        BY <3>2, <3>3 DEF Editing
      <4> QED BY <4>1, <4>2
    <3>6. PICK q \in Nat : DOMAIN reduced = 1..q
      BY <3>5, MappedTyped
    <3>7. ss[m] = [j \in 1..q |-> [pairs EXCEPT ![m] = reduced[j]]]
      BY <2>2, <3>5, <3>6
    <3> QED BY <3>7 DEF IsSeq
  <2>4. PICK edits : edits = FlattenSeq(ss) /\ IsSeq(edits)
    <3>1. DOMAIN ss = DOMAIN pairs /\ ss = [m \in DOMAIN ss |-> ss[m]]
      BY <2>2
    <3>2. \A m \in DOMAIN pairs : IsSeq(ss[m])
      BY <2>3
    <3> QED BY ONLY <2>1, <3>1, <3>2, EditingTyped
  <2>5. edits = Editing(pairs, LAMBDA p : Editing(p, string_reductions))
    BY <2>2, <2>4 DEF Editing
  <2>6. PICK proposals : proposals = Deleting(pairs) \o edits /\ Joined(proposals,
            Deleting(pairs), edits)
    BY <2>4, DeletingHas, Concatenated
  <2>7. PICK j \in DOMAIN proposals : proposals[j] = RemoveAt(pairs, i)
    <3>1. i \in DOMAIN Deleting(pairs) /\ Deleting(pairs)[i] = RemoveAt(pairs, i)
      BY DeletingHas
    <3>2. \E m \in DOMAIN proposals : proposals[m] = Deleting(pairs)[i]
      BY <2>6, <3>1 DEF Joined
    <3> QED BY <3>1, <3>2
  <2>8. PICK picks : picks = [m \in DOMAIN proposals |->
                               IF FormSize(proposals[m]) < FormSize(pairs) THEN <<proposals[m]>> ELSE <<>>]
    OBVIOUS
  <2>9. PICK shorter : shorter = {m \in DOMAIN proposals : FormSize(proposals[m]) < FormSize(pairs)}
    OBVIOUS
  <2>10. Picks(picks, proposals, shorter)
    <3>1. IsSeq(picks) /\ DOMAIN picks = DOMAIN proposals
      BY <2>6, <2>8, MappedTyped DEF IsSeq, Joined
    <3> QED BY <2>6, <2>8, <2>9, <3>1 DEF Picks, Joined
  <2>11. form_candidates(pairs) = EachOnce(FlattenSeq(picks))
    BY <2>5, <2>6, <2>8 DEF form_candidates, Emitted, Those
  <2>12. j \in shorter
    BY <1>1, <2>7, <2>9
  <2> QED BY <2>7, <2>10, <2>11, <2>12, EmittedHas
<1> QED BY <1>1, <1>2

----------------------------------------------------------------------------
\* star_reductions yields finitely many filenames.
LEMMA StarReductionsTyped ==
  ASSUME NEW star
  PROVE  IsSeq(star_reductions(star))
<1>1. PICK half : half = IF star \div 2 < 1 THEN 1 ELSE star \div 2
  OBVIOUS
<1>2. PICK tried : tried = (IF half = 1 THEN <<1>> ELSE <<half, 1>>)
  OBVIOUS
<1>3. IsSeq(tried)
  BY <1>2, OneItem, TwoItems
<1>4. PICK picks : picks = [i \in DOMAIN tried |-> IF tried[i] < star THEN <<tried[i]>> ELSE <<>>]
  OBVIOUS
<1>5. PICK lower : lower = {i \in DOMAIN tried : tried[i] < star}
  OBVIOUS
<1>6. Picks(picks, tried, lower)
  <2>1. IsSeq(picks) /\ DOMAIN picks = DOMAIN tried
    BY <1>3, <1>4, MappedTyped DEF IsSeq
  <2> QED BY <1>3, <1>4, <1>5, <2>1 DEF Picks
<1>7. star_reductions(star) = FlattenSeq(picks)
  BY <1>1, <1>2, <1>4 DEF star_reductions, Those
<1> QED BY <1>6, <1>7, Selected DEF Picked

\* part_reductions yields finitely many parts.
LEMMA PartReductionsTyped ==
  ASSUME NEW part
  PROVE  IsSeq(part_reductions(part))
<1>1. PICK bodies : bodies = string_reductions(part[1]) /\ IsSeq(bodies)
  BY TextReductionsTyped
<1>2. PICK stars : stars = star_reductions(part[2]) /\ IsSeq(stars)
  BY StarReductionsTyped
<1>3. PICK a : a = [i \in DOMAIN bodies |-> <<bodies[i], part[2]>>]
  OBVIOUS
<1>4. PICK b : b = [i \in DOMAIN stars |-> <<part[1], stars[i]>>]
  OBVIOUS
<1>5. IsSeq(a)
  BY <1>1, <1>3, MappedTyped DEF IsSeq
<1>6. IsSeq(b)
  BY <1>2, <1>4, MappedTyped DEF IsSeq
<1>7. part_reductions(part) = a \o b
  BY <1>1, <1>2, <1>3, <1>4 DEF part_reductions
<1> QED BY <1>5, <1>6, <1>7, Concatenated DEF Joined

\* A multipart body without one of its parts, if another stays, is offered, and is shorter.
LEMMA MultipartHas ==
  ASSUME NEW parts \in Seq(Seq(Nat) \X Nat), Len(parts) > 1, NEW i \in 1..Len(parts)
  PROVE  /\ PartsSize(RemoveAt(parts, i)) < PartsSize(parts)
         /\ \E k \in DOMAIN multipart_candidates(parts) : multipart_candidates(parts)[k] = RemoveAt(parts, i)
<1>1. PartsSize(RemoveAt(parts, i)) < PartsSize(parts)
  <2> DEFINE Part == Seq(Nat) \X Nat
  <2>1. PICK size : size = [p \in Part |-> BoundaryBytes + Len(p[1]) + 3 * p[2]]
    OBVIOUS
  <2>2. size \in [Part -> Nat] /\ \A p \in Part : size[p] = BoundaryBytes + Len(p[1]) + 3 * p[2]
            /\ size[p] >= 10
    <3>1. ASSUME NEW p \in Part
          PROVE  BoundaryBytes + Len(p[1]) + 3 * p[2] \in Nat
              /\ BoundaryBytes + Len(p[1]) + 3 * p[2] >= 10
      <4>1. Len(p[1]) \in Nat /\ p[2] \in Nat
        OBVIOUS
      <4>2. \A a, b \in Nat : 10 + a + 3 * b \in Nat /\ 10 + a + 3 * b >= 10
        OBVIOUS
      <4> QED BY ONLY <4>1, <4>2 DEF BoundaryBytes
    <3> HIDE DEF Part
    <3> QED BY <2>1, <3>1
  <2>3. PICK less : less = RemoveAt(parts, i) /\ less \in Seq(Part)
    BY Removal
  <2>4. PICK sizes : sizes = [k \in DOMAIN parts |-> BoundaryBytes + Len(parts[k][1]) + 3 * parts[k][2]]
    OBVIOUS
  <2>5. PICK rest : rest = [k \in DOMAIN less |-> BoundaryBytes + Len(less[k][1]) + 3 * less[k][2]]
    OBVIOUS
  <2>6. SizesOf(sizes, parts, size)
    <3>1. Len(parts) \in Nat /\ DOMAIN parts = 1..Len(parts)
              /\ \A k \in 1..Len(parts) : parts[k] \in Part
      OBVIOUS
    <3> HIDE DEF Part
    <3>2. \A k \in 1..Len(parts) : sizes[k] = size[parts[k]] /\ sizes[k] \in Nat
      BY <2>2, <2>4, <3>1
    <3>3. sizes \in Seq(Nat) /\ Len(sizes) = Len(parts)
      BY <2>4, <3>1, <3>2
    <3> QED BY <3>2, <3>3 DEF SizesOf
  <2>7. SizesOf(rest, less, size)
    <3>1. Len(less) \in Nat /\ DOMAIN less = 1..Len(less) /\ \A k \in 1..Len(less) : less[k] \in Part
      <4> HIDE DEF Part
      <4> QED BY ONLY <2>3, LenProperties
    <3> HIDE DEF Part
    <3>2. \A k \in 1..Len(less) : rest[k] = size[less[k]] /\ rest[k] \in Nat
      BY <2>2, <2>5, <3>1
    <3>3. rest \in Seq(Nat) /\ Len(rest) = Len(less)
      <4>1. PICK m \in Nat : m = Len(less) /\ DOMAIN less = 1..m
        BY ONLY <3>1
      <4>2. rest = [k \in 1..m |-> rest[k]]
        BY ONLY <2>5, <4>1
      <4>3. rest \in [1..m -> Nat]
        BY ONLY <3>2, <4>1, <4>2
      <4>4. rest \in Seq(Nat) /\ DOMAIN rest = 1..m
        BY ONLY <4>3, m \in Nat
      <4>5. Len(rest) = m
        BY ONLY <4>4, m \in Nat
      <4> QED BY ONLY <4>1, <4>4, <4>5
    <3> QED BY <3>2, <3>3 DEF SizesOf
  <2>8. Sum(rest) \in Nat /\ Sum(sizes) = Sum(rest) + size[parts[i]]
    BY <2>3, <2>6, <2>7, SumOfItemsWithout
  <2>9. size[parts[i]] \in Nat /\ size[parts[i]] >= 10
    <3>1. parts[i] \in Part
      OBVIOUS
    <3> HIDE DEF Part
    <3> QED BY <2>2, <3>1
  <2>10. PartsSize(parts) = Sum(sizes) /\ PartsSize(less) = Sum(rest)
    BY <2>4, <2>5 DEF PartsSize
  <2> HIDE DEF Part
  <2>11. \A a, b \in Nat : b >= 10 => a < a + b
    OBVIOUS
  <2>12. Sum(rest) < Sum(sizes)
    BY ONLY <2>8, <2>9, <2>11
  <2> QED BY ONLY <2>3, <2>10, <2>12
<1>2. \E k \in DOMAIN multipart_candidates(parts) : multipart_candidates(parts)[k] = RemoveAt(parts, i)
  <2>1. IsSeq(parts)
    BY SeqsAreSeqs
  <2>2. PICK ss : ss = [m \in DOMAIN parts |->
                         LET reduced == part_reductions(parts[m])
                         IN  [j \in DOMAIN reduced |-> [parts EXCEPT ![m] = reduced[j]]]]
    OBVIOUS
  <2>3. ASSUME NEW m \in DOMAIN parts PROVE IsSeq(ss[m])
    <3>1. PICK reduced : reduced = part_reductions(parts[m]) /\ IsSeq(reduced)
      BY PartReductionsTyped
    <3>2. PICK q \in Nat : DOMAIN reduced = 1..q
      BY <3>1, MappedTyped
    <3>3. ss[m] = [j \in 1..q |-> [parts EXCEPT ![m] = reduced[j]]]
      BY <2>2, <3>1, <3>2
    <3> QED BY <3>3 DEF IsSeq
  <2>4. PICK edits : edits = FlattenSeq(ss) /\ IsSeq(edits)
    <3>1. DOMAIN ss = DOMAIN parts /\ ss = [m \in DOMAIN ss |-> ss[m]]
      BY <2>2
    <3>2. \A m \in DOMAIN parts : IsSeq(ss[m])
      BY <2>3
    <3> QED BY ONLY <2>1, <3>1, <3>2, EditingTyped
  <2>5. edits = Editing(parts, part_reductions)
    BY <2>2, <2>4 DEF Editing
  <2>6. PICK proposals : proposals = Deleting(parts) \o edits /\ Joined(proposals,
            Deleting(parts), edits)
    BY <2>4, DeletingHas, Concatenated
  <2>7. PICK j \in DOMAIN proposals : proposals[j] = RemoveAt(parts, i)
    <3>1. i \in DOMAIN Deleting(parts) /\ Deleting(parts)[i] = RemoveAt(parts, i)
      BY DeletingHas
    <3>2. \E m \in DOMAIN proposals : proposals[m] = Deleting(parts)[i]
      BY <2>6, <3>1 DEF Joined
    <3> QED BY <3>1, <3>2
  <2>8. PICK picks : picks = [m \in DOMAIN proposals |->
                               IF PartsSize(proposals[m]) < PartsSize(parts) THEN <<proposals[m]>> ELSE <<>>]
    OBVIOUS
  <2>9. PICK shorter : shorter = {m \in DOMAIN proposals : PartsSize(proposals[m]) < PartsSize(parts)}
    OBVIOUS
  <2>10. Picks(picks, proposals, shorter)
    <3>1. IsSeq(picks) /\ DOMAIN picks = DOMAIN proposals
      BY <2>6, <2>8, MappedTyped DEF IsSeq, Joined
    <3> QED BY <2>6, <2>8, <2>9, <3>1 DEF Picks, Joined
  <2>11. multipart_candidates(parts) = EachOnce(FlattenSeq(picks))
    BY <2>5, <2>6, <2>8 DEF multipart_candidates, Emitted, Those
  <2>12. j \in shorter
    BY <1>1, <2>7, <2>9
  <2> QED BY <2>7, <2>10, <2>11, <2>12, EmittedHas
<1> QED BY <1>1, <1>2

----------------------------------------------------------------------------
\* A body with no empty chunk is framed as it is.
LEMMA FramedWhole ==
  ASSUME NEW S, NEW chunks \in Seq(S), <<>> \notin S
  PROVE  Framed(chunks) = chunks
<1>1. PICK ss : ss = [k \in DOMAIN chunks |-> IF chunks[k] # <<>> THEN <<chunks[k]>> ELSE <<>>]
  OBVIOUS
<1>2. ss = [k \in DOMAIN chunks |-> <<chunks[k]>>]
  <2>1. \A k \in DOMAIN chunks : chunks[k] # <<>>
    OBVIOUS
  <2> QED BY <1>1, <2>1
<1>3. Framed(chunks) = FlattenSeq(ss)
  BY <1>1 DEF Framed, Those
<1>4. FlattenSeq([k \in DOMAIN chunks |-> <<chunks[k]>>]) = chunks
  BY FlattenOnes
<1> QED BY <1>2, <1>3, <1>4

\* Merging neighbours yields finitely many chunk lists.
LEMMA MergingTyped ==
  ASSUME NEW S, NEW chunks \in Seq(S)
  PROVE  IsSeq(Merging(chunks))
<1>1. PICK tail : tail = SubSeq(chunks, 2, Len(chunks))
  OBVIOUS
<1>2. tail \in Seq(S)
  <2>1. 2 \in Int /\ Len(chunks) \in Int /\ \A k \in 2..Len(chunks) : chunks[k] \in S
    OBVIOUS
  <2> QED BY <1>1, <2>1, SubSeqProperties
<1>3. PICK n \in Nat : DOMAIN tail = 1..n
  BY <1>2, LenProperties
<1> QED BY <1>1, <1>3 DEF Merging, IsSeq

\* What a chunk adds to the encoded body is more than nothing.
LEMMA AnItemCounts == \A a, b \in Nat : b >= 5 => 6 + a < 6 + (a + b)
OBVIOUS

\* A chunked body without one of its chunks is offered, and is shorter.
LEMMA ChunksHave ==
  ASSUME NEW chunks \in Seq(Seq(Nat) \ {<<>>}), NEW i \in 1..Len(chunks)
  PROVE  /\ ChunksSize(RemoveAt(chunks, i)) < ChunksSize(chunks)
         /\ \E k \in DOMAIN chunk_candidates(chunks) : chunk_candidates(chunks)[k] = RemoveAt(chunks, i)
<1> DEFINE Chunk == Seq(Nat) \ {<<>>}
<1>0. PICK less : less = RemoveAt(chunks, i) /\ less \in Seq(Chunk)
  BY Removal
<1>1. ChunksSize(less) < ChunksSize(chunks)
  <2>1. PICK size : size = [c \in Chunk |-> 5 + Len(c)]
    OBVIOUS
  <2>2. size \in [Chunk -> Nat] /\ \A c \in Chunk : size[c] = 5 + Len(c) /\ size[c] >= 5
    <3>1. \A c \in Chunk : 5 + Len(c) \in Nat /\ 5 + Len(c) >= 5
      OBVIOUS
    <3> HIDE DEF Chunk
    <3> QED BY <2>1, <3>1
  <2>4. PICK sizes : sizes = [k \in DOMAIN chunks |-> 5 + Len(chunks[k])]
    OBVIOUS
  <2>5. PICK rest : rest = [k \in DOMAIN less |-> 5 + Len(less[k])]
    OBVIOUS
  <2>6. SizesOf(sizes, chunks, size)
    <3>1. Len(chunks) \in Nat /\ DOMAIN chunks = 1..Len(chunks)
              /\ \A k \in 1..Len(chunks) : chunks[k] \in Chunk
      OBVIOUS
    <3> HIDE DEF Chunk
    <3> QED BY <2>2, <2>4, <3>1 DEF SizesOf
  <2>7. SizesOf(rest, less, size)
    <3>1. Len(less) \in Nat /\ DOMAIN less = 1..Len(less) /\ \A k \in 1..Len(less) : less[k] \in Chunk
      BY <1>0
    <3> HIDE DEF Chunk
    <3> QED BY <2>2, <2>5, <3>1 DEF SizesOf
  <2>8. Sum(rest) \in Nat /\ Sum(sizes) = Sum(rest) + size[chunks[i]]
    BY <1>0, <2>6, <2>7, SumOfItemsWithout
  <2>9. size[chunks[i]] \in Nat /\ size[chunks[i]] >= 5
    <3>1. chunks[i] \in Chunk
      OBVIOUS
    <3> HIDE DEF Chunk
    <3> QED BY <2>2, <3>1
  <2>10. ChunksSize(chunks) = 6 + Sum(sizes) /\ ChunksSize(less) = 6 + Sum(rest)
    BY <2>4, <2>5 DEF ChunksSize
  <2>11. PICK a, b : a = Sum(rest) /\ b = size[chunks[i]] /\ a \in Nat /\ b \in Nat /\ b >= 5
    BY <2>8, <2>9
  <2>12. 6 + a < 6 + (a + b)
    BY <2>11, AnItemCounts
  <2> QED BY <2>8, <2>10, <2>11, <2>12
<1>2. \E k \in DOMAIN chunk_candidates(chunks) : chunk_candidates(chunks)[k] = less
  <2>1. IsSeq(chunks)
    BY SeqsAreSeqs
  <2>2. PICK ss : ss = [m \in DOMAIN chunks |->
                         LET reduced == string_reductions(chunks[m])
                         IN  [j \in DOMAIN reduced |-> [chunks EXCEPT ![m] = reduced[j]]]]
    OBVIOUS
  <2>3. ASSUME NEW m \in DOMAIN chunks PROVE IsSeq(ss[m])
    <3>1. PICK reduced : reduced = string_reductions(chunks[m]) /\ IsSeq(reduced)
      BY TextReductionsTyped
    <3>2. PICK q \in Nat : DOMAIN reduced = 1..q
      BY <3>1, MappedTyped
    <3>3. ss[m] = [j \in 1..q |-> [chunks EXCEPT ![m] = reduced[j]]]
      BY <2>2, <3>1, <3>2
    <3> QED BY <3>3 DEF IsSeq
  <2>4. PICK shortened : shortened = FlattenSeq(ss) /\ IsSeq(shortened)
    <3>1. DOMAIN ss = DOMAIN chunks /\ ss = [m \in DOMAIN ss |-> ss[m]]
      BY <2>2
    <3>2. \A m \in DOMAIN chunks : IsSeq(ss[m])
      BY <2>3
    <3> QED BY ONLY <2>1, <3>1, <3>2, EditingTyped
  <2>5. shortened = Editing(chunks, string_reductions)
    BY <2>2, <2>4 DEF Editing
  <2>6. PICK merged : merged = Deleting(chunks) \o Merging(chunks) /\ Joined(merged,
            Deleting(chunks), Merging(chunks))
    BY DeletingHas, MergingTyped, Concatenated
  <2>7. PICK edits : edits = merged \o shortened /\ Joined(edits, merged, shortened)
    <3>1. IsSeq(merged) /\ IsSeq(shortened)
      BY <2>4, <2>6 DEF Joined
    <3> QED BY <3>1, Concatenated
  <2>8. PICK proposals : proposals = [m \in DOMAIN edits |-> Framed(edits[m])]
    OBVIOUS
  <2>9. IsSeq(proposals) /\ DOMAIN proposals = DOMAIN edits
    BY <2>7, <2>8, MappedTyped DEF IsSeq, Joined
  <2>10. PICK j \in DOMAIN proposals : proposals[j] = less
    <3>1. i \in DOMAIN Deleting(chunks) /\ Deleting(chunks)[i] = less
      BY <1>0, DeletingHas
    <3>2. PICK m \in DOMAIN merged : merged[m] = less
      BY <2>6, <3>1 DEF Joined
    <3>3. PICK n \in DOMAIN edits : edits[n] = less
      BY <2>7, <3>2 DEF Joined
    <3>4. Framed(less) = less
      BY <1>0, FramedWhole
    <3> QED BY <2>8, <2>9, <3>3, <3>4
  <2>11. PICK picks : picks = [m \in DOMAIN proposals |->
                               IF ChunksSize(proposals[m]) < ChunksSize(chunks) THEN <<proposals[m]>> ELSE <<>>]
    OBVIOUS
  <2>12. PICK shorter : shorter = {m \in DOMAIN proposals : ChunksSize(proposals[m]) < ChunksSize(chunks)}
    OBVIOUS
  <2>13. Picks(picks, proposals, shorter)
    <3>1. IsSeq(picks) /\ DOMAIN picks = DOMAIN proposals
      BY <2>9, <2>11, MappedTyped DEF IsSeq
    <3> QED BY <2>9, <2>11, <2>12, <3>1 DEF Picks
  <2>14. chunk_candidates(chunks) = EachOnce(FlattenSeq(picks))
    BY <2>5, <2>6, <2>7, <2>8, <2>11 DEF chunk_candidates, Emitted, Those
  <2>15. j \in shorter
    BY <1>1, <2>10, <2>12
  <2> QED BY <2>10, <2>13, <2>14, <2>15, EmittedHas
<1> QED BY <1>0, <1>1, <1>2

----------------------------------------------------------------------------
(* URLSearchParams requests: the initial pairs and the operations.         *)

Records == Seq(Seq(Seq(Nat)))
PairsSum(pairs) == Sum([k \in DOMAIN pairs |-> 8 + Bytes(FlattenSeq(pairs[k]))])
OperationsSum(operations) ==
  Sum([k \in DOMAIN operations |-> 1 + 4 * Len(operations[k]) + Bytes(FlattenSeq(operations[k]))])

\* A record has a number of fields and of bytes.
LEMMA RecordTyped ==
  ASSUME NEW record \in Seq(Seq(Nat))
  PROVE  Len(record) \in Nat /\ Bytes(FlattenSeq(record)) \in Nat
<1>1. FlattenSeq(record) \in Seq(Nat)
  BY FlattenTyped
<1> QED BY <1>1, BytesTyped, LenProperties

\* The pairs of a request have a size.
LEMMA PairsSumTyped ==
  ASSUME NEW pairs \in Records
  PROVE  PairsSum(pairs) \in Nat
<1>1. PICK sizes : sizes = [k \in DOMAIN pairs |-> 8 + Bytes(FlattenSeq(pairs[k]))]
  OBVIOUS
<1>2. \A k \in 1..Len(pairs) : 8 + Bytes(FlattenSeq(pairs[k])) \in Nat
  BY RecordTyped DEF Records
<1>3. DOMAIN pairs = 1..Len(pairs) /\ Len(pairs) \in Nat
  BY LenProperties DEF Records
<1>4. sizes \in Seq(Nat)
  BY <1>1, <1>2, <1>3
<1> QED BY <1>1, <1>4, SumTyped DEF PairsSum

\* So have its operations.
LEMMA OperationsSumTyped ==
  ASSUME NEW operations \in Records
  PROVE  OperationsSum(operations) \in Nat
<1>1. PICK sizes : sizes = [k \in DOMAIN operations |->
                             1 + 4 * Len(operations[k]) + Bytes(FlattenSeq(operations[k]))]
  OBVIOUS
<1>2. \A k \in 1..Len(operations) : 1 + 4 * Len(operations[k]) + Bytes(FlattenSeq(operations[k])) \in Nat
  BY RecordTyped DEF Records
<1>3. DOMAIN operations = 1..Len(operations) /\ Len(operations) \in Nat
  BY LenProperties DEF Records
<1>4. sizes \in Seq(Nat)
  <2>1. \A k \in 1..Len(operations) : sizes[k] \in Nat
    BY <1>1, <1>2, <1>3
  <2>2. sizes = [k \in 1..Len(operations) |-> sizes[k]]
    BY <1>1, <1>3
  <2> QED BY ONLY <1>3, <2>1, <2>2
<1> QED BY <1>1, <1>4, SumTyped DEF OperationsSum

\* A request without one of its pairs is shorter.
LEMMA OnePairLess ==
  ASSUME NEW pairs \in Records, NEW i \in 1..Len(pairs)
  PROVE  PairsSum(RemoveAt(pairs, i)) < PairsSum(pairs)
<1> DEFINE Pair == Seq(Seq(Nat))
<1>1. PICK size : size = [p \in Pair |-> 8 + Bytes(FlattenSeq(p))]
  OBVIOUS
<1>2. \A p \in Pair : size[p] = 8 + Bytes(FlattenSeq(p)) /\ size[p] \in Nat /\ size[p] >= 8
  <2>1. \A p \in Pair : Bytes(FlattenSeq(p)) \in Nat
    BY RecordTyped
  <2> HIDE DEF Pair
  <2> QED BY <1>1, <2>1
<1>3. pairs \in Seq(Pair)
  BY DEF Records
<1> HIDE DEF Pair
<1>4. PICK less : less = RemoveAt(pairs, i) /\ less \in Seq(Pair)
  BY <1>3, Removal
<1>5. PICK sizes : sizes = [k \in DOMAIN pairs |-> 8 + Bytes(FlattenSeq(pairs[k]))]
  OBVIOUS
<1>6. PICK rest : rest = [k \in DOMAIN less |-> 8 + Bytes(FlattenSeq(less[k]))]
  OBVIOUS
<1>7. SizesOf(sizes, pairs, size)
  <2>1. Len(pairs) \in Nat /\ DOMAIN pairs = 1..Len(pairs)
            /\ \A k \in 1..Len(pairs) : pairs[k] \in Pair
    BY <1>3
  <2>2. \A k \in 1..Len(pairs) : sizes[k] = size[pairs[k]] /\ sizes[k] \in Nat
    BY <1>2, <1>5, <2>1
  <2>3. sizes \in Seq(Nat) /\ Len(sizes) = Len(pairs)
    BY <1>5, <2>1, <2>2
  <2> QED BY <2>2, <2>3 DEF SizesOf
<1>8. SizesOf(rest, less, size)
  <2>1. Len(less) \in Nat /\ DOMAIN less = 1..Len(less) /\ \A k \in 1..Len(less) : less[k] \in Pair
    BY <1>4
  <2>2. \A k \in 1..Len(less) : rest[k] = size[less[k]] /\ rest[k] \in Nat
    BY <1>2, <1>6, <2>1
  <2>3. rest \in Seq(Nat) /\ Len(rest) = Len(less)
    BY <1>6, <2>1, <2>2
  <2> QED BY <2>2, <2>3 DEF SizesOf
<1>9. Sum(rest) \in Nat /\ Sum(sizes) = Sum(rest) + size[pairs[i]]
  BY <1>3, <1>4, <1>7, <1>8, SumOfItemsWithout
<1>10. size[pairs[i]] \in Nat /\ size[pairs[i]] >= 8
  BY <1>2, <1>3
<1>11. PairsSum(pairs) = Sum(sizes) /\ PairsSum(less) = Sum(rest)
  BY <1>5, <1>6 DEF PairsSum
<1>12. Sum(rest) < Sum(sizes)
  BY <1>9, <1>10
<1> QED BY <1>4, <1>11, <1>12

\* So is one without one of its operations.
LEMMA OneOperationLess ==
  ASSUME NEW operations \in Records, NEW i \in 1..Len(operations)
  PROVE  OperationsSum(RemoveAt(operations, i)) < OperationsSum(operations)
<1> DEFINE Operation == Seq(Seq(Nat))
<1>1. PICK size : size = [o \in Operation |-> 1 + 4 * Len(o) + Bytes(FlattenSeq(o))]
  OBVIOUS
<1>2. \A o \in Operation : size[o] = 1 + 4 * Len(o) + Bytes(FlattenSeq(o)) /\ size[o] \in Nat
          /\ size[o] >= 1
  <2>1. \A o \in Operation : Bytes(FlattenSeq(o)) \in Nat /\ Len(o) \in Nat
    BY RecordTyped
  <2> HIDE DEF Operation
  <2> QED BY <1>1, <2>1
<1>3. operations \in Seq(Operation)
  BY DEF Records
<1> HIDE DEF Operation
<1>4. PICK less : less = RemoveAt(operations, i) /\ less \in Seq(Operation)
  BY <1>3, Removal
<1>5. PICK sizes : sizes = [k \in DOMAIN operations |->
                             1 + 4 * Len(operations[k]) + Bytes(FlattenSeq(operations[k]))]
  OBVIOUS
<1>6. PICK rest : rest = [k \in DOMAIN less |-> 1 + 4 * Len(less[k]) + Bytes(FlattenSeq(less[k]))]
  OBVIOUS
<1>7. SizesOf(sizes, operations, size)
  <2>1. /\ Len(operations) \in Nat /\ DOMAIN operations = 1..Len(operations)
        /\ \A k \in 1..Len(operations) : operations[k] \in Operation
    BY <1>3
  <2>2. \A k \in 1..Len(operations) : sizes[k] = size[operations[k]] /\ sizes[k] \in Nat
    BY <1>2, <1>5, <2>1
  <2>3. sizes \in Seq(Nat) /\ Len(sizes) = Len(operations)
    <3>1. sizes = [k \in 1..Len(operations) |-> sizes[k]]
      BY <1>5, <2>1
    <3> QED BY ONLY <2>1, <2>2, <3>1
  <2> QED BY <2>2, <2>3 DEF SizesOf
<1>8. SizesOf(rest, less, size)
  <2>1. Len(less) \in Nat /\ DOMAIN less = 1..Len(less)
            /\ \A k \in 1..Len(less) : less[k] \in Operation
    BY <1>4
  <2>2. \A k \in 1..Len(less) : rest[k] = size[less[k]] /\ rest[k] \in Nat
    BY <1>2, <1>6, <2>1
  <2>3. rest \in Seq(Nat) /\ Len(rest) = Len(less)
    <3>1. rest = [k \in 1..Len(less) |-> rest[k]]
      BY <1>6, <2>1
    <3> QED BY ONLY <2>1, <2>2, <3>1
  <2> QED BY <2>2, <2>3 DEF SizesOf
<1>9. Sum(rest) \in Nat /\ Sum(sizes) = Sum(rest) + size[operations[i]]
  BY <1>3, <1>4, <1>7, <1>8, SumOfItemsWithout
<1>10. size[operations[i]] \in Nat /\ size[operations[i]] >= 1
  BY <1>2, <1>3
<1>11. OperationsSum(operations) = Sum(sizes) /\ OperationsSum(less) = Sum(rest)
  BY <1>5, <1>6 DEF OperationsSum
<1>12. Sum(rest) < Sum(sizes)
  BY <1>9, <1>10
<1> QED BY <1>4, <1>11, <1>12

\* The edits of every field of every record are finitely many.
LEMMA FieldEditsTyped ==
  ASSUME NEW records \in Records
  PROVE  IsSeq(Editing(records, LAMBDA r : Editing(r, field_reductions)))
<1>1. IsSeq(records) /\ \A m \in DOMAIN records : records[m] \in Seq(Seq(Nat))
  BY SeqsAreSeqs, LenProperties DEF Records
<1>2. PICK ss : ss = [m \in DOMAIN records |->
                       LET reduced == Editing(records[m], field_reductions)
                       IN  [j \in DOMAIN reduced |-> [records EXCEPT ![m] = reduced[j]]]]
  OBVIOUS
<1>3. ASSUME NEW m \in DOMAIN records PROVE IsSeq(ss[m])
  <2>1. PICK record : record = records[m] /\ IsSeq(record)
    BY <1>1, SeqsAreSeqs
  <2>2. PICK tt : tt = [l \in DOMAIN record |->
                         LET reduced == field_reductions(record[l])
                         IN  [j \in DOMAIN reduced |-> [record EXCEPT ![l] = reduced[j]]]]
    OBVIOUS
  <2>3. ASSUME NEW l \in DOMAIN record PROVE IsSeq(tt[l])
    <3>1. PICK reduced : reduced = field_reductions(record[l]) /\ IsSeq(reduced)
      BY TextReductionsTyped
    <3>2. PICK q \in Nat : DOMAIN reduced = 1..q
      BY <3>1, MappedTyped
    <3>3. tt[l] = [j \in 1..q |-> [record EXCEPT ![l] = reduced[j]]]
      BY <2>2, <3>1, <3>2
    <3> QED BY <3>3 DEF IsSeq
  <2>4. PICK reduced : reduced = Editing(records[m], field_reductions) /\ IsSeq(reduced)
    <3>1. IsSeq(FlattenSeq(tt))
      <4>1. DOMAIN tt = DOMAIN record /\ tt = [l \in DOMAIN tt |-> tt[l]]
        BY <2>2
      <4>2. \A l \in DOMAIN record : IsSeq(tt[l])
        BY <2>3
      <4> QED BY ONLY <2>1, <4>1, <4>2, EditingTyped
    <3>2. Editing(records[m], field_reductions) = FlattenSeq(tt)
      BY <2>1, <2>2 DEF Editing
    <3> QED BY <3>1, <3>2
  <2>5. PICK q \in Nat : DOMAIN reduced = 1..q
    BY <2>4, MappedTyped
  <2>6. ss[m] = [j \in 1..q |-> [records EXCEPT ![m] = reduced[j]]]
    BY <1>2, <2>4, <2>5
  <2> QED BY <2>6 DEF IsSeq
<1>4. IsSeq(FlattenSeq(ss))
  <2>1. DOMAIN ss = DOMAIN records /\ ss = [m \in DOMAIN ss |-> ss[m]]
    BY <1>2
  <2>2. \A m \in DOMAIN records : IsSeq(ss[m])
    BY <1>3
  <2> QED BY ONLY <1>1, <2>1, <2>2, EditingTyped
<1>5. Editing(records, LAMBDA r : Editing(r, field_reductions)) = FlattenSeq(ss)
  BY <1>2 DEF Editing
<1> QED BY <1>4, <1>5

\* A request without one of its pairs or operations is offered, and is shorter.
LEMMA UrlHas ==
  ASSUME NEW pairs \in Records, NEW operations \in Records, NEW request, request = <<pairs,
      operations>>,
         NEW d, \/ \E i \in 1..Len(pairs) : d = <<RemoveAt(pairs, i), operations>>
                \/ \E i \in 1..Len(operations) : d = <<pairs, RemoveAt(operations, i)>>
  PROVE  /\ RequestSize(d) < RequestSize(request)
         /\ \E k \in DOMAIN url_candidates(request) : url_candidates(request)[k] = d
<1>1. RequestSize(d) < RequestSize(request)
  <2>0. \A p, o : RequestSize(<<p, o>>) = 8 + PairsSum(p) + OperationsSum(o)
    BY DEF RequestSize, PairsSum, OperationsSum
  <2>1. PairsSum(pairs) \in Nat /\ OperationsSum(operations) \in Nat
    BY PairsSumTyped, OperationsSumTyped
  <2>2. ASSUME NEW i \in 1..Len(pairs), d = <<RemoveAt(pairs, i), operations>>
        PROVE  RequestSize(d) < RequestSize(request)
    <3>1. PICK less : less = RemoveAt(pairs, i) /\ less \in Records
      BY Removal DEF Records
    <3>2. PairsSum(less) \in Nat /\ PairsSum(less) < PairsSum(pairs)
      BY <3>1, PairsSumTyped, OnePairLess
    <3>3. /\ RequestSize(d) = 8 + PairsSum(less) + OperationsSum(operations)
          /\ RequestSize(request) = 8 + PairsSum(pairs) + OperationsSum(operations)
      BY <2>0, <2>2, <3>1
    <3> QED BY <2>1, <3>2, <3>3
  <2>3. ASSUME NEW i \in 1..Len(operations), d = <<pairs, RemoveAt(operations, i)>>
        PROVE  RequestSize(d) < RequestSize(request)
    <3>1. PICK less : less = RemoveAt(operations, i) /\ less \in Records
      BY Removal DEF Records
    <3>2. OperationsSum(less) \in Nat /\ OperationsSum(less) < OperationsSum(operations)
      BY <3>1, OperationsSumTyped, OneOperationLess
    <3>3. /\ RequestSize(d) = 8 + PairsSum(pairs) + OperationsSum(less)
          /\ RequestSize(request) = 8 + PairsSum(pairs) + OperationsSum(operations)
      BY <2>0, <2>3, <3>1
    <3> QED BY <2>1, <3>2, <3>3
  <2> QED BY <2>2, <2>3
<1>2. \E k \in DOMAIN url_candidates(request) : url_candidates(request)[k] = d
  <2>0. request[1] = pairs /\ request[2] = operations
    OBVIOUS
  <2>1. /\ IsSeq(Deleting(pairs)) /\ DOMAIN Deleting(pairs) = 1..Len(pairs)
        /\ \A i \in 1..Len(pairs) : Deleting(pairs)[i] = RemoveAt(pairs, i)
        /\ IsSeq(Deleting(operations)) /\ DOMAIN Deleting(operations) = 1..Len(operations)
        /\ \A i \in 1..Len(operations) : Deleting(operations)[i] = RemoveAt(operations, i)
    BY DeletingHas DEF Records
  <2>2. PICK edited : edited = Editing(pairs, LAMBDA r : Editing(r, field_reductions))
            /\ IsSeq(edited)
    BY FieldEditsTyped
  <2>3. PICK others : others = Editing(operations, LAMBDA r : Editing(r, field_reductions))
            /\ IsSeq(others)
    BY FieldEditsTyped
  <2>4. PICK a : a = [k \in DOMAIN Deleting(operations) |-> <<pairs, Deleting(operations)[k]>>]
    OBVIOUS
  <2>5. PICK b : b = [k \in DOMAIN Deleting(pairs) |-> <<Deleting(pairs)[k], operations>>]
    OBVIOUS
  <2>6. PICK e : e = [k \in DOMAIN edited |-> <<edited[k], operations>>]
    OBVIOUS
  <2>7. PICK f : f = [k \in DOMAIN others |-> <<pairs, others[k]>>]
    OBVIOUS
  <2>8. IsSeq(a) /\ IsSeq(b) /\ IsSeq(e) /\ IsSeq(f)
    <3>1. IsSeq(a)
      BY <2>1, <2>4, MappedTyped DEF IsSeq
    <3>2. IsSeq(b)
      BY <2>1, <2>5, MappedTyped DEF IsSeq
    <3>3. IsSeq(e)
      BY <2>2, <2>6, MappedTyped DEF IsSeq
    <3>4. IsSeq(f)
      BY <2>3, <2>7, MappedTyped DEF IsSeq
    <3> QED BY <3>1, <3>2, <3>3, <3>4
  <2>9. PICK ab : ab = a \o b /\ Joined(ab, a, b)
    BY <2>8, Concatenated
  <2>10. PICK abe : abe = ab \o e /\ Joined(abe, ab, e)
    <3>1. IsSeq(ab)
      BY <2>9 DEF Joined
    <3> QED BY <2>8, <3>1, Concatenated
  <2>11. PICK proposals : proposals = abe \o f /\ Joined(proposals, abe, f)
    <3>1. IsSeq(abe)
      BY <2>10 DEF Joined
    <3> QED BY <2>8, <3>1, Concatenated
  <2>12. PICK j \in DOMAIN proposals : proposals[j] = d
    <3>1. (\E k \in DOMAIN a : a[k] = d) \/ (\E k \in DOMAIN b : b[k] = d)
      BY <2>1, <2>4, <2>5
    <3>2. \E k \in DOMAIN ab : ab[k] = d
      <4>1. CASE \E k \in DOMAIN a : a[k] = d
        BY <2>9, <4>1 DEF Joined
      <4>2. CASE \E k \in DOMAIN b : b[k] = d
        <5>1. PICK k \in DOMAIN b : b[k] = d
          BY <4>2
        <5>2. \E m \in DOMAIN ab : ab[m] = b[k]
          BY <2>9 DEF Joined
        <5> QED BY <5>1, <5>2
      <4> QED BY <3>1, <4>1, <4>2
    <3>3. \E k \in DOMAIN abe : abe[k] = d
      BY <2>10, <3>2 DEF Joined
    <3> QED BY <2>11, <3>3 DEF Joined
  <2>13. PICK picks : picks = [m \in DOMAIN proposals |->
                                IF RequestSize(proposals[m]) < RequestSize(request) THEN <<proposals[m]>> ELSE <<>>]
    OBVIOUS
  <2>14. PICK shorter : shorter = {m \in DOMAIN proposals : RequestSize(proposals[m]) < RequestSize(request)}
    OBVIOUS
  <2>15. Picks(picks, proposals, shorter)
    <3>1. IsSeq(picks) /\ DOMAIN picks = DOMAIN proposals
      BY <2>11, <2>13, MappedTyped DEF IsSeq, Joined
    <3> QED BY <2>11, <2>13, <2>14, <3>1 DEF Picks, Joined
  <2>16. url_candidates(request) = EachOnce(FlattenSeq(picks))
    <3>1. Emitted(request, proposals, RequestSize) = EachOnce(FlattenSeq(picks))
      BY <2>13 DEF Emitted, Those
    <3>2. proposals = a \o b \o e \o f
      BY <2>9, <2>10, <2>11
    <3>3. url_candidates(request) = Emitted(request, a \o b \o e \o f, RequestSize)
      BY <2>0, <2>2, <2>3, <2>4, <2>5, <2>6, <2>7 DEF url_candidates
    <3> QED BY <3>1, <3>2, <3>3
  <2>17. j \in shorter
    BY <1>1, <2>12, <2>14
  <2> QED BY <2>12, <2>15, <2>16, <2>17, EmittedHas
<1> QED BY <1>1, <1>2

----------------------------------------------------------------------------
(***************************************************************************)
(* What every phase's adapter does to its case: what an earlier phase      *)
(* measured it leaves alone, and what one deletion less makes it offers.   *)
(***************************************************************************)
Offer(c, i) == <<c[1], c[2], Candidates[c][i]>>

\* The phases of each family.
LEMMA PhasesOfOne ==
  /\ \A f \in {"bytes", "form", "url", "multipart", "chunked", "json"} : Phases(f) = <<f>>
  /\ Phases("two_connection") = <<"steps", "setup", "parameters">>
  /\ Phases("transaction") = <<"occurrence", "statements", "parameters">>
  /\ Phases("query") = <<"occurrence", "setup", "parameters">>
BY DEF Phases

\* The families and phases there are.
LEMMA WhichPhase ==
  ASSUME NEW c \in Case, c[1] # "any"
  PROVE  \/ c[1] \in {"bytes", "form", "url", "multipart", "chunked", "json"} /\ c[2] = c[1]
         \/ c[1] = "two_connection" /\ c[2] \in {"steps", "setup", "parameters"}
         \/ c[1] = "transaction" /\ c[2] \in {"occurrence", "statements", "parameters"}
         \/ c[1] = "query" /\ c[2] \in {"occurrence", "setup", "parameters"}
<1>1. c[1] \in Tabulated \cup {"json"} /\ c[2] \in Range(Phases(c[1]))
  BY PhasesAssumption
<1>2. \A f : Range(<<f>>) = {f}
  BY DEF Range
<1>3. \A f, g, h : Range(<<f, g, h>>) = {f, g, h}
  BY DEF Range
<1>4. CASE c[1] \in {"bytes", "form", "url", "multipart", "chunked", "json"}
  BY <1>1, <1>2, <1>4, PhasesOfOne
<1>5. CASE c[1] \in {"two_connection", "transaction", "query"}
  BY <1>1, <1>3, <1>5, PhasesOfOne
<1> QED BY <1>1, <1>4, <1>5 DEF Tabulated

\* What the adapter of a later phase yields is worth the same to an earlier phase.
LEMMA MeasuresAreKept ==
  ASSUME NEW c \in Case, c[1] # "any", NEW j \in 1..Len(Phases(c[1])), c[2] = Phases(c[1])[j],
         NEW k \in 1..(j - 1), NEW i \in DOMAIN Candidates[c]
  PROVE  measure(c[1], Phases(c[1])[k], Candidates[c][i]) = measure(c[1], Phases(c[1])[k], c[3])
<1>1. c[1] \in {"two_connection", "transaction", "query"}
  <2>1. CASE c[1] \in {"bytes", "form", "url", "multipart", "chunked", "json"}
    <3>1. Len(Phases(c[1])) = 1
      BY <2>1, PhasesOfOne
    <3> QED BY <3>1
  <2> QED BY <2>1, WhichPhase
<1>2. c[1] \in Tabulated /\ c[3] \in SqliteValue /\ Candidates[c] = candidates(c[1], c[2], c[3])
  <2>1. c[1] \in Tabulated
    BY <1>1 DEF Tabulated
  <2> QED BY <1>1, <2>1, AdaptersAssumption DEF Values
<1>3. PICK v : v = c[3] /\ v \in SqliteValue /\ DOMAIN v = {"setup", "body", "observe", "occurrence"}
  BY <1>2 DEF SqliteValue
<1>4. PICK w : w = Candidates[c][i]
  OBVIOUS
<1>5. \A p : measure(c[1], p, v) = sqlite_measure(p, v) /\ measure(c[1], p, w) = sqlite_measure(p, w)
  BY <1>1 DEF measure
<1>6. j \in 1..3 /\ k \in 1..2 /\ k < j
  <2>1. Len(Phases(c[1])) = 3
    BY <1>1, PhasesOfOne
  <2> QED BY <2>1
<1>7. CASE c[2] = "parameters"
  <2>1. Candidates[c] = parameter_reductions(v)
    BY <1>1, <1>2, <1>3, <1>7 DEF candidates, two_connection_candidates, transaction_candidates,
        query_candidates
  <2>2. SameButParameters(w, v)
    BY <1>3, <1>4, <2>1, ParametersKeep
  <2>3. Phases(c[1])[k] \in {"steps", "setup", "occurrence", "statements"}
    BY <1>1, <1>6, PhasesOfOne
  <2>4. \A p \in {"steps", "setup", "occurrence", "statements"} : sqlite_measure(p,
            w) = sqlite_measure(p, v)
    BY <2>2 DEF sqlite_measure, SameButParameters, occurrence_complexity
  <2> QED BY <1>3, <1>4, <1>5, <2>3, <2>4
<1>8. CASE c[1] = "two_connection" /\ c[2] = "setup"
  <2>1. Candidates[c] = setup_deletions(v)
    BY <1>2, <1>3, <1>8 DEF candidates, two_connection_candidates
  <2>2. PICK x : w = [v EXCEPT !.setup = x]
    <3>1. w = [v EXCEPT !.setup = list_deletions(v.setup, 0)[i]]
      BY <1>3, <1>4, <2>1, DeletionsKeep
    <3> QED BY <3>1
  <2>3. w.body = v.body
    BY <1>3, <2>2
  <2>4. Phases(c[1])[k] = "steps"
    <3>1. j = 2
      BY <1>6, <1>8, PhasesOfOne
    <3> QED BY <1>6, <1>8, <3>1, PhasesOfOne
  <2>5. sqlite_measure("steps", w) = sqlite_measure("steps", v)
    BY <2>3 DEF sqlite_measure
  <2> QED BY <1>3, <1>4, <1>5, <2>4, <2>5
<1>9. CASE c[1] \in {"transaction", "query"} /\ c[2] \in {"setup", "statements"}
  <2>1. w.occurrence = v.occurrence
    <3>1. CASE c[2] = "setup"
      <4>1. Candidates[c] = setup_deletions(v)
        <5>1. c[1] = "query"
          BY <1>9, <3>1, WhichPhase
        <5> QED BY <1>2, <1>3, <3>1, <5>1 DEF candidates, query_candidates
      <4>2. PICK x : w = [v EXCEPT !.setup = x]
        <5>1. w = [v EXCEPT !.setup = list_deletions(v.setup, 0)[i]]
          BY <1>3, <1>4, <4>1, DeletionsKeep
        <5> QED BY <5>1
      <4> QED BY <1>3, <4>2
    <3>2. CASE c[2] = "statements"
      <4>1. Candidates[c] = body_deletions(v) \o setup_deletions(v)
        <5>1. c[1] = "transaction"
          BY <1>9, <3>2, WhichPhase
        <5> QED BY <1>2, <1>3, <3>2, <5>1 DEF candidates, transaction_candidates
      <4>2. Joined(Candidates[c], body_deletions(v), setup_deletions(v))
        BY <1>3, <4>1, DeletionsKeep, Concatenated
      <4>3. \/ \E m \in DOMAIN body_deletions(v) : w = body_deletions(v)[m]
            \/ \E m \in DOMAIN setup_deletions(v) : w = setup_deletions(v)[m]
        BY <1>4, <4>2 DEF Joined
      <4>4. (\E x : w = [v EXCEPT !.body = x]) \/ (\E x : w = [v EXCEPT !.setup = x])
        <5>1. CASE \E m \in DOMAIN body_deletions(v) : w = body_deletions(v)[m]
          <6>1. PICK m \in DOMAIN body_deletions(v) : w = body_deletions(v)[m]
            BY <5>1
          <6>2. w = [v EXCEPT !.body = list_deletions(v.body, 1)[m]]
            BY <1>3, <6>1, DeletionsKeep
          <6> QED BY <6>2
        <5>2. CASE \E m \in DOMAIN setup_deletions(v) : w = setup_deletions(v)[m]
          <6>1. PICK m \in DOMAIN setup_deletions(v) : w = setup_deletions(v)[m]
            BY <5>2
          <6>2. w = [v EXCEPT !.setup = list_deletions(v.setup, 0)[m]]
            BY <1>3, <6>1, DeletionsKeep
          <6> QED BY <6>2
        <5> QED BY <4>3, <5>1, <5>2
      <4> QED BY <1>3, <4>4
    <3> QED BY <1>9, <3>1, <3>2
  <2>2. Phases(c[1])[k] = "occurrence"
    <3>1. j = 2
      BY <1>6, <1>9, PhasesOfOne
    <3> QED BY <1>6, <1>9, <3>1, PhasesOfOne
  <2>3. sqlite_measure("occurrence", w) = sqlite_measure("occurrence", v)
    BY <2>1 DEF sqlite_measure, occurrence_complexity
  <2> QED BY <1>3, <1>4, <1>5, <2>2, <2>3
<1>10. c[2] # "occurrence" /\ c[2] # "steps"
  BY <1>1, <1>6, PhasesOfOne
<1> QED BY <1>1, <1>7, <1>8, <1>9, <1>10, WhichPhase

\* Each case with one item less is among the candidates, and is smaller.
LEMMA OneLessIsOffered ==
  ASSUME NEW c \in Case, c[1] # "any", NEW d \in OneLess(c[2], c[3])
  PROVE  \E i \in DOMAIN Candidates[c] :
           Candidates[c][i] = d /\ Measure[Offer(c, i)] < Measure[c]
<1>1. PICK f, p, v : f = c[1] /\ p = c[2] /\ v = c[3]
  OBVIOUS
<1>2. f \in Tabulated
  <2>1. OneLess("json", v) = {}
    BY DEF OneLess
  <2> QED BY <1>1, <2>1, WhichPhase DEF Tabulated
<1>3. v \in Values(f) /\ Candidates[c] = candidates(f, p, v) /\ Measure[c] = measure(f, p, v)
  BY <1>1, <1>2, AdaptersAssumption
<1>4. ASSUME NEW i \in DOMAIN Candidates[c], Candidates[c][i] = d
      PROVE  Measure[Offer(c, i)] = measure(f, p, d)
  <2>1. Offer(c, i) \in Case /\ Offer(c, i)[1] = f /\ Offer(c, i)[2] = p /\ Offer(c, i)[3] = d
    BY <1>1, <1>4, PhasesAssumption DEF Offer
  <2> QED BY <1>2, <2>1, AdaptersAssumption
<1>5. SUFFICES /\ measure(f, p, d) < measure(f, p, v)
               /\ \E i \in DOMAIN candidates(f, p, v) : candidates(f, p, v)[i] = d
  BY <1>3, <1>4
<1>6. d \in OneLess(p, v)
  BY <1>1
<1>7. CASE f = "bytes"
  <2>1. p = "bytes" /\ v \in Seq(Nat)
    BY <1>1, <1>3, <1>7, WhichPhase DEF Values
  <2>2. PICK i \in 1..Len(v) : d = RemoveAt(v, i)
    <3>1. DOMAIN v = 1..Len(v)
      BY <2>1, LenProperties
    <3>2. OneLess(p, v) = {RemoveAt(v, i) : i \in DOMAIN v}
      BY ONLY <2>1 DEF OneLess
    <3> QED BY ONLY <1>6, <3>1, <3>2
  <2>3. /\ Len(RemoveAt(v, i)) < Len(v)
        /\ \E m \in DOMAIN list_deletions(v, 0) : list_deletions(v, 0)[m] = RemoveAt(v, i)
    BY <2>1, <2>2, EachDeletionIsOffered
  <2>4. candidates(f, p, v) = list_deletions(v, 0) /\ \A x : measure(f, p, x) = Len(x)
    BY <1>7 DEF candidates, hierarchical_byte_deletions, measure
  <2> QED BY <2>2, <2>3, <2>4
<1>8. CASE f = "form"
  <2>1. p = "form" /\ v \in Seq(Seq(Nat) \X Seq(Nat))
    BY <1>1, <1>3, <1>8, WhichPhase DEF Values
  <2>2. PICK i \in 1..Len(v) : d = RemoveAt(v, i)
    <3>1. DOMAIN v = 1..Len(v)
      BY <2>1, LenProperties
    <3>2. OneLess(p, v) = {RemoveAt(v, i) : i \in DOMAIN v}
      BY ONLY <2>1 DEF OneLess
    <3> QED BY ONLY <1>6, <3>1, <3>2
  <2>3. candidates(f, p, v) = form_candidates(v) /\ \A x : measure(f, p, x) = FormSize(x)
    BY <1>8 DEF candidates, measure
  <2> QED BY <2>1, <2>2, <2>3, FormHas
<1>9. CASE f = "chunked"
  <2>1. p = "chunked" /\ v \in Seq(Seq(Nat) \ {<<>>})
    BY <1>1, <1>3, <1>9, WhichPhase DEF Values
  <2>2. PICK i \in 1..Len(v) : d = RemoveAt(v, i)
    <3>1. DOMAIN v = 1..Len(v)
      BY <2>1, LenProperties
    <3>2. OneLess(p, v) = {RemoveAt(v, i) : i \in DOMAIN v}
      BY ONLY <2>1 DEF OneLess
    <3> QED BY ONLY <1>6, <3>1, <3>2
  <2>3. candidates(f, p, v) = chunk_candidates(v) /\ \A x : measure(f, p, x) = ChunksSize(x)
    BY <1>9 DEF candidates, measure
  <2> QED BY <2>1, <2>2, <2>3, ChunksHave
<1>10. CASE f = "multipart"
  <2>1. p = "multipart" /\ v \in Seq(Seq(Nat) \X Nat)
    BY <1>1, <1>3, <1>10, WhichPhase DEF Values
  <2>2. PICK i \in 1..Len(v) : d = RemoveAt(v, i) /\ Len(v) > 1
    <3>1. DOMAIN v = 1..Len(v)
      BY <2>1, LenProperties
    <3>2. OneLess(p, v) = IF Len(v) > 1 THEN {RemoveAt(v, i) : i \in DOMAIN v} ELSE {}
      BY ONLY <2>1 DEF OneLess
    <3> QED BY ONLY <1>6, <3>1, <3>2
  <2>3. candidates(f, p, v) = multipart_candidates(v) /\ \A x : measure(f, p, x) = PartsSize(x)
    BY <1>10 DEF candidates, measure
  <2> QED BY <2>1, <2>2, <2>3, MultipartHas
<1>11. CASE f = "url"
  <2>1. p = "url" /\ v \in Records \X Records
    BY <1>1, <1>3, <1>11, WhichPhase DEF Values, Records
  <2>2. PICK pairs \in Records, operations \in Records : v = <<pairs, operations>>
    BY <2>1
  <2>3. \/ \E i \in 1..Len(pairs) : d = <<RemoveAt(pairs, i), operations>>
        \/ \E i \in 1..Len(operations) : d = <<pairs, RemoveAt(operations, i)>>
    <3>1. DOMAIN pairs = 1..Len(pairs) /\ DOMAIN operations = 1..Len(operations)
      BY LenProperties DEF Records
    <3> QED BY <1>6, <2>1, <2>2, <3>1 DEF OneLess
  <2>4. candidates(f, p, v) = url_candidates(v) /\ \A x : measure(f, p, x) = RequestSize(x)
    BY <1>11 DEF candidates, measure
  <2> QED BY <2>2, <2>3, <2>4, UrlHas
<1>12. CASE f \in {"two_connection", "transaction", "query"}
  <2>1. v \in SqliteValue /\ p \in {"steps", "setup", "statements"}
    <3>1. OneLess("parameters", v) = {} /\ OneLess("occurrence", v) = {}
      BY DEF OneLess
    <3>2. v \in SqliteValue
      BY <1>3, <1>12 DEF Values
    <3> QED BY <1>1, <1>6, <1>12, <3>1, <3>2, WhichPhase
  <2>2. /\ v.body \in Seq(Seq(Scalar)) /\ v.setup \in Seq(STRING)
        /\ DOMAIN v = {"setup", "body", "observe", "occurrence"}
        /\ DOMAIN v.body = 1..Len(v.body) /\ DOMAIN v.setup = 1..Len(v.setup)
    BY <2>1, LenProperties DEF SqliteValue
  <2> DEFINE bodies == body_deletions(v)
             setups == setup_deletions(v)
  <2>3. \A x : measure(f, p, x) = sqlite_measure(p, x)
    BY <1>12 DEF measure
  <2>4. ASSUME NEW i \in 1..Len(v.body), Len(v.body) > 1, d = [v EXCEPT !.body = RemoveAt(v.body, i)],
               p \in {"steps", "statements"}
        PROVE  /\ measure(f, p, d) < measure(f, p, v)
               /\ \E m \in DOMAIN bodies : bodies[m] = d
    <3>1. /\ Len(RemoveAt(v.body, i)) = Len(v.body) - 1 /\ Len(v.body) \in Nat
          /\ \E m \in DOMAIN list_deletions(v.body, 1) : list_deletions(v.body,
              1)[m] = RemoveAt(v.body, i)
      <4>1. v.body \in Seq(Seq(Scalar)) /\ Len(v.body) \in Nat /\ i \in 1..Len(v.body)
                /\ Len(v.body) > 1
        BY <2>2, <2>4, LenProperties
      <4>2. Len(RemoveAt(v.body, i)) = Len(v.body) - 1
        BY ONLY <4>1, Removal
      <4>3. \E m \in DOMAIN list_deletions(v.body, 1) : list_deletions(v.body,
                1)[m] = RemoveAt(v.body, i)
        BY ONLY <4>1, EachDeletionIsOffered
      <4> QED BY <4>1, <4>2, <4>3
    <3>2. d.body = RemoveAt(v.body, i) /\ d.setup = v.setup /\ Len(v.setup) \in Nat
      BY <2>2, <2>4
    <3>3. sqlite_measure(p, d) < sqlite_measure(p, v)
      <4>1. CASE p = "steps"
        BY ONLY <3>1, <3>2, <4>1 DEF sqlite_measure
      <4>2. CASE p = "statements"
        <5>1. sqlite_measure(p, d) = Len(d.setup) + Len(d.body)
          BY ONLY <4>2 DEF sqlite_measure
        <5>6. sqlite_measure(p, v) = Len(v.setup) + Len(v.body)
          BY ONLY <4>2 DEF sqlite_measure
        <5>2. Len(d.setup) \in Nat /\ Len(d.body) \in Nat /\ Len(v.setup) \in Nat
                  /\ Len(v.body) \in Nat
          BY <2>2, <3>1, <3>2, LenProperties
        <5>3. \/ Len(d.setup) = Len(v.setup) /\ Len(d.body) = Len(v.body) - 1
              \/ Len(d.body) = Len(v.body) /\ Len(d.setup) = Len(v.setup) - 1
          BY ONLY <3>1, <3>2
        <5>4. \A a, b, x, y \in Nat : (a = x /\ b = y - 1) \/ (b = y /\ a = x - 1) => a + b < x + y
          OBVIOUS
        <5>5. Len(d.setup) + Len(d.body) < Len(v.setup) + Len(v.body)
          BY ONLY <5>2, <5>3, <5>4
        <5> QED BY ONLY <5>1, <5>5, <5>6
      <4> QED BY <2>4, <4>1, <4>2
    <3>4. \E m \in DOMAIN bodies : bodies[m] = d
      BY <2>1, <2>4, <3>1, DeletionsKeep
    <3> QED BY <2>3, <3>3, <3>4
  <2>5. ASSUME NEW i \in 1..Len(v.setup), d = [v EXCEPT !.setup = RemoveAt(v.setup, i)],
               p \in {"setup", "statements"}
        PROVE  /\ measure(f, p, d) < measure(f, p, v)
               /\ \E m \in DOMAIN setups : setups[m] = d
    <3>1. /\ Len(RemoveAt(v.setup, i)) = Len(v.setup) - 1 /\ Len(v.setup) \in Nat
          /\ \E m \in DOMAIN list_deletions(v.setup, 0) : list_deletions(v.setup,
              0)[m] = RemoveAt(v.setup, i)
      <4>1. Len(v.setup) > 0
        BY <2>2
      <4> QED BY <2>2, <4>1, EachDeletionIsOffered, Removal
    <3>2. d.setup = RemoveAt(v.setup, i) /\ d.body = v.body /\ Len(v.body) \in Nat
      BY <2>2, <2>5
    <3>3. sqlite_measure(p, d) < sqlite_measure(p, v)
      <4>1. CASE p = "setup"
        BY ONLY <3>1, <3>2, <4>1 DEF sqlite_measure
      <4>2. CASE p = "statements"
        <5>1. sqlite_measure(p, d) = Len(d.setup) + Len(d.body)
          BY ONLY <4>2 DEF sqlite_measure
        <5>6. sqlite_measure(p, v) = Len(v.setup) + Len(v.body)
          BY ONLY <4>2 DEF sqlite_measure
        <5>2. Len(d.setup) \in Nat /\ Len(d.body) \in Nat /\ Len(v.setup) \in Nat
                  /\ Len(v.body) \in Nat
          BY <2>2, <3>1, <3>2, LenProperties
        <5>3. \/ Len(d.setup) = Len(v.setup) /\ Len(d.body) = Len(v.body) - 1
              \/ Len(d.body) = Len(v.body) /\ Len(d.setup) = Len(v.setup) - 1
          BY ONLY <3>1, <3>2
        <5>4. \A a, b, x, y \in Nat : (a = x /\ b = y - 1) \/ (b = y /\ a = x - 1) => a + b < x + y
          OBVIOUS
        <5>5. Len(d.setup) + Len(d.body) < Len(v.setup) + Len(v.body)
          BY ONLY <5>2, <5>3, <5>4
        <5> QED BY ONLY <5>1, <5>5, <5>6
      <4> QED BY <2>5, <4>1, <4>2
    <3>4. \E m \in DOMAIN setups : setups[m] = d
      BY <2>1, <2>5, <3>1, DeletionsKeep
    <3> QED BY <2>3, <3>3, <3>4
  <2>6. CASE p = "steps"
    <3>1. f = "two_connection"
      BY <1>1, <1>12, <2>6, WhichPhase
    <3>2. candidates(f, p, v) = bodies
      BY <2>6, <3>1 DEF candidates, two_connection_candidates
    <3>3. PICK i \in 1..Len(v.body) : Len(v.body) > 1 /\ d = [v EXCEPT !.body = RemoveAt(v.body, i)]
      BY <1>6, <2>2, <2>6 DEF OneLess
    <3> HIDE DEF bodies, setups
    <3> QED BY <2>4, <2>6, <3>2, <3>3
  <2>7. CASE p = "setup"
    <3>1. f \in {"two_connection", "query"}
      BY <1>1, <1>12, <2>7, WhichPhase
    <3>2. candidates(f, p, v) = setups
      BY <2>7, <3>1 DEF candidates, two_connection_candidates, query_candidates
    <3>3. PICK i \in 1..Len(v.setup) : d = [v EXCEPT !.setup = RemoveAt(v.setup, i)]
      BY <1>6, <2>2, <2>7 DEF OneLess
    <3> HIDE DEF bodies, setups
    <3> QED BY <2>5, <2>7, <3>2, <3>3
  <2>8. CASE p = "statements"
    <3>1. f = "transaction"
      BY <1>1, <1>12, <2>8, WhichPhase
    <3>2. candidates(f, p, v) = bodies \o setups
      BY <2>8, <3>1 DEF candidates, transaction_candidates
    <3>3. Joined(bodies \o setups, bodies, setups)
      BY <2>1, DeletionsKeep, Concatenated
    <3>4. \/ \E i \in 1..Len(v.body) : Len(v.body) > 1 /\ d = [v EXCEPT !.body = RemoveAt(v.body, i)]
          \/ \E i \in 1..Len(v.setup) : d = [v EXCEPT !.setup = RemoveAt(v.setup, i)]
      BY <1>6, <2>2, <2>8 DEF OneLess
    <3> HIDE DEF bodies, setups
    <3>5. CASE \E i \in 1..Len(v.body) : Len(v.body) > 1
              /\ d = [v EXCEPT !.body = RemoveAt(v.body, i)]
      <4>1. measure(f, p, d) < measure(f, p, v) /\ \E m \in DOMAIN bodies : bodies[m] = d
        BY <2>4, <2>8, <3>5
      <4>2. PICK m \in DOMAIN bodies : bodies[m] = d
        BY <4>1
      <4>3. \E k \in DOMAIN (bodies \o setups) : (bodies \o setups)[k] = bodies[m]
        BY <3>3, <4>2 DEF Joined
      <4> QED BY <3>2, <4>1, <4>2, <4>3
    <3>6. CASE \E i \in 1..Len(v.setup) : d = [v EXCEPT !.setup = RemoveAt(v.setup, i)]
      <4>1. measure(f, p, d) < measure(f, p, v) /\ \E m \in DOMAIN setups : setups[m] = d
        BY <2>5, <2>8, <3>6
      <4>2. PICK m \in DOMAIN setups : setups[m] = d
        BY <4>1
      <4>3. \E k \in DOMAIN (bodies \o setups) : (bodies \o setups)[k] = setups[m]
        BY <3>3, <4>2 DEF Joined
      <4> QED BY <3>2, <4>1, <4>2, <4>3
    <3> QED BY <3>4, <3>5, <3>6
  <2> QED BY <2>1, <2>6, <2>7, <2>8
<1> QED BY <1>2, <1>7, <1>8, <1>9, <1>10, <1>11, <1>12 DEF Tabulated

----------------------------------------------------------------------------
(***************************************************************************)
(* The phases of a triage.  Whatever a phase has gained, the adapters of   *)
(* later phases do not touch; and what the generator of a pass has not yet *)
(* yielded is still to come, so that a pass that ends has seen all.        *)
(***************************************************************************)
Concrete == family # "any"
Kept(f, gained, v) == \A k \in DOMAIN gained : measure(f, Phases(f)[k], v) <= gained[k]
Place(f, p, c, gained) ==
  /\ gained \in Seq(Int) /\ Len(gained) + 1 \in 1..Len(Phases(f))
  /\ c[1] = f /\ c[2] = p /\ p = Phases(f)[Len(gained) + 1] /\ Kept(f, gained, c[3])
AllPulled(c, pulled) == \A i \in DOMAIN Candidates[c] : Offer(c, i) \in pulled
StillToCome(c, coming, pulled) ==
  /\ coming \in Seq(Range(Candidates[c]))
  /\ \A i \in DOMAIN Candidates[c] :
       (\E j \in DOMAIN coming : coming[j] = Candidates[c][i]) \/ Offer(c, i) \in pulled
PhasesInv ==
  /\ IInv
  /\ family = "any" => reached = <<>> /\ remaining = <<>>
  /\ Concrete =>
       /\ Place(family, phase, current, reached)
       /\ \A c \in work.rejected : c[3] \in passing
       /\ pc = "pull" => StillToCome(current, remaining, work.pulled)
       /\ outcome = "returned" /\ ~exhausted_budget => AllPulled(current, work.pulled)

\* What a phase yields is finite, and cases of the same family and phase.
LEMMA CandidatesAreCases ==
  ASSUME NEW c \in Case, c[1] # "any"
  PROVE  /\ Len(Candidates[c]) \in Nat /\ Candidates[c] \in Seq(Range(Candidates[c]))
         /\ DOMAIN Candidates[c] = 1..Len(Candidates[c])
         /\ \A i \in DOMAIN Candidates[c] : Offer(c, i) \in Case /\ Offer(c, i)[1] = c[1]
              /\ Offer(c, i)[2] = c[2] /\ Offer(c, i)[3] = Candidates[c][i]
BY PhasesAssumption DEF Offer

\* A reduce_case that begins satisfies the invariant, whatever case it is handed.
LEMMA RestartInvariant ==
  ASSUME IInv, NEW case \in Case, Restart(case)
  PROVE  IInv'
<1> USE DEF Restart, NoWork
<1>1. TypeOK' /\ NotOver' /\ CountersAreTrue'
  BY DEF IInv, TypeOK, NotOver, CountersAreTrue, Outcomes
<1>2. InLoop' /\ InPass' /\ ReducedStillFails' /\ FixedPointIsEarned'
  BY DEF InLoop, InPass, ReducedStillFails, FixedPointIsEarned
<1>3. BudgetsAreCeilings'
  BY BudgetAssumption DEF BudgetsAreCeilings, IInv, TypeOK
<1> QED BY <1>1, <1>2, <1>3 DEF IInv

\* A triage begins with no gain and nothing to come.
LEMMA PhasesStart == PhasedInit => PhasesInv
<1> SUFFICES ASSUME PhasedInit PROVE PhasesInv
  OBVIOUS
<1>1. IInv /\ initial \in Case /\ initial \in InitialCases /\ current = initial
  BY InitInvariant, InitialAssumption DEF PhasedInit, Init
<1>2. reached = <<>> /\ remaining = <<>> /\ pc = "start" /\ outcome = "none" /\ work.rejected = {}
  BY DEF PhasedInit, Init, NoWork
<1>3. Concrete => Place(family, phase, current, reached)
  <2> SUFFICES ASSUME Concrete PROVE Place(family, phase, current, reached)
    OBVIOUS
  <2>1. family = initial[1] /\ phase = initial[2] /\ phase = Phases(family)[1]
    BY <1>1, InitialAssumption DEF Concrete, family, phase
  <2>2. Len(Phases(family)) \in Nat \ {0}
    <3>1. family \in Tabulated \cup {"json"}
      BY <1>1, PhasesAssumption DEF Concrete, family
    <3> QED BY <3>1, PhasesOfOne DEF Tabulated
  <2> QED BY <1>1, <1>2, <2>1, <2>2 DEF Place, Kept
<1> QED BY <1>1, <1>2, <1>3 DEF PhasesInv

\* Validation, the initial evaluation and the exits of the loops leave the cases alone.
LEMMA ControlStays ==
  ASSUME \/ RejectArguments
         \/ \E answer \in {"yes", "no", "raises"} : EvaluateInitial(answer)
         \/ StopAtEvaluationBudget \/ StopAtVisitBudget \/ StartPass
         \/ EnumerationRaises \/ EndOfStream
  PROVE  initial' = initial /\ current' = current
BY DEF RejectArguments, EvaluateInitial, StopAtEvaluationBudget, StopAtVisitBudget, StartPass,
   EnumerationRaises, EndOfStream, inputs, counters

\* One candidate: pulled, and then accepted, or not, or the call is over.
LEMMA StepsArePulls ==
  ASSUME IInv, NEW candidate \in Case, Step(candidate)
  PROVE  /\ pc = "pull" /\ initial' = initial /\ work'.pulled = work.pulled \cup {candidate}
         /\ outcome' = "returned" => exhausted_budget'
         /\ \/ current' = candidate /\ pc' = "pass" /\ outcome' = outcome
            \/ current' = current /\ (pc' = "pull" => outcome' = outcome)
<1>1. outcome # "returned" \/ pc # "pull"
  BY DEF IInv, NotOver
<1>2. /\ Pulled(work, candidate).pulled = work.pulled \cup {candidate}
      /\ \A answer \in {"yes", "no", "raises"} :
           Pulled(Asked(candidate, answer), candidate).pulled = work.pulled \cup {candidate}
  BY DEF Pulled, Asked
<1>3. CASE VisitBrokenMeasure(candidate) \/ Skip(candidate) \/ StopBeforeEvaluation(candidate)
  BY <1>1, <1>2, <1>3 DEF VisitBrokenMeasure, Skip, StopBeforeEvaluation, Visit, Raise, Return, inputs
<1>4. CASE Accept(candidate) \/ Reject(candidate) \/ PredicateRaises(candidate)
  BY <1>1, <1>2, <1>4 DEF Accept, Reject, PredicateRaises, Visit, Raise, inputs
<1> QED BY <1>3, <1>4 DEF Step

\* Pulling what the generator yields next takes it from what is still to come, and an accepted
\* one keeps what earlier phases gained.
LEMMA YieldKeeps ==
  ASSUME PhasesInv, Yield, Concrete
  PROVE  PhasesInv'
<1>1. PICK candidate : candidate = <<family, phase, Head(remaining)>>
  OBVIOUS
<1>2. Step(candidate)
  BY <1>1 DEF Yield
<1>3. pc = "pull"
  BY <1>2 DEF Step, VisitBrokenMeasure, Skip, StopBeforeEvaluation, Accept, Reject,
      PredicateRaises, Visit
<1>4. /\ StillToCome(current, remaining, work.pulled) /\ Place(family, phase, current, reached)
      /\ current \in Case /\ current[1] # "any" /\ IInv
  BY <1>3 DEF PhasesInv, IInv, TypeOK, Concrete, Place
<1>5. /\ remaining \in Seq(Range(Candidates[current])) /\ remaining # <<>>
          /\ remaining' = Tail(remaining)
      /\ reached' = reached
  BY <1>4 DEF StillToCome, Yield
<1>6. PICK i \in DOMAIN Candidates[current] : Head(remaining) = Candidates[current][i]
  <2>1. Head(remaining) \in Range(Candidates[current])
    BY <1>5
  <2> QED BY <2>1 DEF Range
<1>7. candidate = Offer(current, i) /\ candidate \in Case
  BY <1>1, <1>4, <1>6, CandidatesAreCases DEF Offer, Place
<1>8. IInv'
  BY <1>2, <1>4, <1>7, StepInvariant
<1>9. /\ initial' = initial /\ work'.pulled = work.pulled \cup {candidate}
      /\ outcome' = "returned" => exhausted_budget'
      /\ \/ current' = candidate /\ pc' = "pass" /\ outcome' = outcome
         \/ current' = current /\ (pc' = "pull" => outcome' = outcome)
  BY <1>2, <1>4, <1>7, StepsArePulls
<1>10. family' = family /\ phase' = phase /\ Concrete'
  BY <1>9 DEF family, phase, Concrete
<1>11. \A c \in work'.rejected : c[3] \in passing'
  BY DEF Yield, Answered
<1>12. Place(family, phase, current', reached)
  <2>1. CASE current' = current
    BY <1>4, <2>1
  <2>2. CASE current' = candidate
    <3>1. PICK j : j = Len(reached) + 1 /\ j \in 1..Len(Phases(family))
              /\ current[2] = Phases(family)[j]
                   /\ current[1] = family /\ DOMAIN reached = 1..(j - 1) /\ Kept(family, reached,
                       current[3])
      BY <1>4 DEF Place
    <3>2. ASSUME NEW k \in DOMAIN reached
          PROVE  measure(family, Phases(family)[k], candidate[3]) <= reached[k]
      <4>1. measure(family, Phases(family)[k], Candidates[current][i])
              = measure(family, Phases(family)[k], current[3])
        BY <1>4, <1>6, <3>1, MeasuresAreKept
      <4>2. candidate[3] = Candidates[current][i]
        BY <1>7 DEF Offer
      <4>3. measure(family, Phases(family)[k], current[3]) <= reached[k]
        BY <3>1 DEF Kept
      <4> QED BY <4>1, <4>2, <4>3
    <3>3. candidate[1] = family /\ candidate[2] = phase
      BY <1>1
    <3> QED BY <1>4, <2>2, <3>2, <3>3 DEF Place, Kept
  <2> QED BY <1>9, <2>1, <2>2
<1>13. pc' = "pull" => StillToCome(current, remaining', work'.pulled) /\ current' = current
  <2>1. ASSUME NEW n \in DOMAIN Candidates[current]
        PROVE  (\E j \in DOMAIN remaining' : remaining'[j] = Candidates[current][n])
                 \/ Offer(current, n) \in work'.pulled
    <3>1. CASE Offer(current, n) \in work.pulled
      BY <1>9, <3>1
    <3>2. CASE \E j \in DOMAIN remaining : remaining[j] = Candidates[current][n]
      <4>1. PICK j \in DOMAIN remaining : remaining[j] = Candidates[current][n]
        BY <3>2
      <4>2. CASE j = 1
        <5>1. Candidates[current][n] = Candidates[current][i]
          BY <1>5, <1>6, <4>1, <4>2
        <5> QED BY <1>7, <1>9, <5>1 DEF Offer
      <4>3. CASE j # 1
        <5>1. j - 1 \in DOMAIN Tail(remaining) /\ Tail(remaining)[j - 1] = remaining[j]
          BY <1>5, <4>3
        <5> QED BY <1>5, <4>1, <5>1
      <4> QED BY <4>2, <4>3
    <3> QED BY <1>4, <3>1, <3>2 DEF StillToCome
  <2>2. Tail(remaining) \in Seq(Range(Candidates[current]))
    BY <1>5
  <2> QED BY <1>5, <1>9, <2>1, <2>2 DEF StillToCome
<1>14. Place(family', phase', current', reached')
  BY <1>5, <1>10, <1>12
<1>15. pc' = "pull" => StillToCome(current', remaining', work'.pulled)
  BY <1>13
<1>16. (Concrete)' /\ family' # "any"
  BY <1>10 DEF Concrete
<1> QED BY <1>8, <1>9, <1>11, <1>14, <1>15, <1>16 DEF PhasesInv

\* A pass starts with all its candidates to come, and ends at a fixed point when none is left.
LEMMA ControlKeeps ==
  ASSUME PhasesInv, Concrete, Begin \/ Generate \/ Stop
  PROVE  PhasesInv'
<1>1. /\ \/ RejectArguments
         \/ \E answer \in {"yes", "no", "raises"} : EvaluateInitial(answer)
         \/ StopAtEvaluationBudget \/ StopAtVisitBudget \/ StartPass
         \/ EnumerationRaises \/ EndOfStream
      /\ reached' = reached
  BY DEF Begin, Generate, Stop, phased
<1>2. IInv' /\ initial' = initial /\ current' = current
  BY <1>1, ControlInvariant, ControlStays DEF PhasesInv
<1>3. family' = family /\ phase' = phase
  BY <1>2 DEF family, phase
<1>4. Place(family', phase', current', reached') /\ family' # "any"
  BY <1>1, <1>2, <1>3 DEF PhasesInv, Concrete
<1>5. current \in Case /\ current[1] # "any"
  BY DEF PhasesInv, IInv, TypeOK, Place, Concrete
<1>6. CASE Begin
  <2>1. \A c \in work'.rejected : c[3] \in passing'
    BY <1>6 DEF Begin, Answered
  <2>2. pc' # "pull" /\ outcome' # "returned"
    BY <1>6 DEF Begin, RejectArguments, EvaluateInitial, Raise, PhasesInv, IInv, NotOver
  <2> QED BY <1>2, <1>4, <2>1, <2>2 DEF PhasesInv
<1>7. CASE Generate
  <2>1. work'.rejected = {} /\ outcome' # "returned"
    BY <1>7 DEF Generate, StartPass, PhasesInv, IInv, NotOver, TypeOK
  <2>2. StillToCome(current, Candidates[current], work'.pulled)
    BY <1>5, CandidatesAreCases DEF StillToCome
  <2>3. StillToCome(current', remaining', work'.pulled)
    BY <1>2, <1>7, <2>2 DEF Generate
  <2> QED BY <1>2, <1>4, <2>1, <2>3 DEF PhasesInv
<1>8. CASE Stop
  <2>1. /\ UNCHANGED <<passing, work>> /\ pc' = "done"
        /\ \A c \in work'.rejected : c[3] \in passing'
    BY <1>8 DEF Stop, phased, StopAtEvaluationBudget, StopAtVisitBudget, EndOfStream, Return,
        Raise, PhasesInv
  <2>2. outcome' = "returned" /\ ~exhausted_budget' => AllPulled(current, work.pulled)
    <3>1. CASE remaining = <<>> /\ EndOfStream
      <4>1. StillToCome(current, remaining, work.pulled)
        BY <3>1 DEF EndOfStream, PhasesInv
      <4> QED BY <3>1, <4>1 DEF StillToCome, AllPulled
    <3>2. CASE StopAtEvaluationBudget \/ StopAtVisitBudget
      BY <3>2 DEF StopAtEvaluationBudget, StopAtVisitBudget, Return, Raise
    <3> QED BY <1>8, <3>1, <3>2 DEF Stop
  <2> QED BY <1>2, <1>4, <2>1, <2>2 DEF PhasesInv
<1> QED BY <1>6, <1>7, <1>8

\* The next phase starts from the case the last one returned, and its measure is the new gain.
LEMMA NextPhaseKeeps ==
  ASSUME PhasesInv, NextPhase
  PROVE  PhasesInv'
<1>1. PICK n : n = Len(reached) + 2
  OBVIOUS
<1>2. PICK case : case = <<family, Phases(family)[n], value>>
  OBVIOUS
<1>3. /\ Restart(case) /\ reached' = Append(reached, Measure[current])
      /\ Concrete /\ Len(reached) + 1 < Len(Phases(family))
  BY <1>1, <1>2 DEF NextPhase, MorePhases, Concrete
<1>4. Place(family, phase, current, reached) /\ current \in Case /\ current[1] # "any" /\ IInv
  BY <1>3 DEF PhasesInv, IInv, TypeOK, Place, Concrete
<1>5. /\ n - 1 \in 1..Len(Phases(family)) - 1 /\ n \in 1..Len(Phases(family))
      /\ current[2] = Phases(family)[n - 1] /\ current[1] = family /\ current[3] = value
  <2>1. Len(Phases(family)) \in Nat
    <3>1. family \in Tabulated \cup {"json"}
      BY <1>4, PhasesAssumption DEF Place
    <3> QED BY <3>1, PhasesOfOne DEF Tabulated
  <2> QED BY <1>1, <1>3, <1>4, <2>1 DEF Place, value
<1>6. case \in Case
  BY <1>2, <1>4, <1>5, PhasesAssumption
<1>7. IInv'
  BY <1>3, <1>4, <1>6, RestartInvariant
<1>8. /\ initial' = case /\ current' = case /\ pc' = "start" /\ outcome' = "none"
          /\ work'.rejected = {}
  BY <1>3 DEF Restart, NoWork
<1>9. family' = family /\ phase' = Phases(family)[n] /\ family' # "any"
  BY <1>2, <1>3, <1>8 DEF family, phase, Concrete
<1>10. Measure[current] \in Int /\ Measure[current] = measure(family, Phases(family)[n - 1], value)
  <2>1. family \in Tabulated
    <3>1. family \in Tabulated \cup {"json"}
      BY <1>4, PhasesAssumption DEF Place
    <3>2. family # "json"
      BY <1>3, <1>4, PhasesOfOne DEF Place
    <3> QED BY <3>1, <3>2
  <2> QED BY <1>4, <1>5, <2>1, AdaptersAssumption, MeasureAssumption
<1>11. Place(family, Phases(family)[n], case, Append(reached, Measure[current]))
  <2>1. PICK gained, m : gained = Append(reached, m) /\ m = Measure[current]
    OBVIOUS
  <2>2. reached \in Seq(Int) /\ Len(reached) = n - 2 /\ Kept(family, reached, value)
    BY <1>1, <1>4, <1>5 DEF Place
  <2>3. /\ gained \in Seq(Int) /\ Len(gained) + 1 = n /\ gained[n - 1] = m
        /\ \A k \in DOMAIN gained : k # n - 1 => k \in DOMAIN reached /\ gained[k] = reached[k]
    <3>1. Len(reached) \in Nat /\ DOMAIN reached = 1..(n - 2) /\ n - 2 \in Nat
      BY <2>2, LenProperties
    <3>2. /\ gained \in Seq(Int) /\ Len(gained) = (n - 2) + 1 /\ DOMAIN gained = 1..((n - 2) + 1)
          /\ gained[(n - 2) + 1] = m /\ \A k \in 1..(n - 2) : gained[k] = reached[k]
      <4>1. m \in Int
        BY <1>10, <2>1
      <4>2. Len(gained) = Len(reached) + 1 /\ DOMAIN gained = 1..(Len(reached) + 1)
                /\ gained \in Seq(Int)
        BY <2>1, <2>2, <4>1, AppendProperties, LenProperties
      <4>3. gained[Len(reached) + 1] = m /\ \A k \in 1..Len(reached) : gained[k] = reached[k]
        BY <2>1, <2>2, <4>1, AppendProperties
      <4> QED BY <2>2, <4>2, <4>3
    <3>3. (n - 2) + 1 = n - 1 /\ n \in Int
      BY <1>1, <2>2, <3>1
    <3>4. gained[n - 1] = m /\ Len(gained) + 1 = n
      BY <3>1, <3>2, <3>3
    <3>5. \A k \in 1..(n - 1) : k # n - 1 => k \in 1..(n - 2)
      BY <3>3
    <3> QED BY <3>1, <3>2, <3>3, <3>4, <3>5
  <2>4. Kept(family, gained, value)
    <3> SUFFICES ASSUME NEW k \in DOMAIN gained PROVE measure(family, Phases(family)[k],
        value) <= gained[k]
      BY DEF Kept
    <3>1. CASE k = n - 1
      BY <1>10, <2>1, <2>3, <3>1
    <3>2. CASE k # n - 1
      BY <2>2, <2>3, <3>2 DEF Kept
    <3> QED BY <3>1, <3>2
  <2>5. case[1] = family /\ case[2] = Phases(family)[n] /\ case[3] = value
    BY <1>2
  <2> QED BY <1>5, <2>1, <2>3, <2>4, <2>5 DEF Place
<1>12. Place(family', phase', current', reached')
  BY <1>3, <1>8, <1>9, <1>11
<1> QED BY <1>7, <1>8, <1>9, <1>12 DEF PhasesInv

\* Every step of a triage keeps the phases' invariant.
LEMMA PhasesStep ==
  ASSUME PhasesInv, [PhasedNext]_allvars
  PROVE  PhasesInv'
<1>1. CASE AnyReduce
  <2>1. reached' = reached /\ remaining' = remaining /\ family = "any"
    BY <1>1 DEF AnyReduce, phased
  <2>2. IInv' /\ initial' = initial
    <3>1. ASSUME NEW candidate \in Case, Step(candidate) PROVE IInv' /\ initial' = initial
      BY <3>1, StepInvariant, StepsArePulls DEF PhasesInv
    <3>2. CASE \/ RejectArguments
               \/ \E answer \in {"yes", "no", "raises"} : EvaluateInitial(answer)
               \/ StopAtEvaluationBudget \/ StopAtVisitBudget \/ StartPass
               \/ EnumerationRaises \/ EndOfStream
      BY <3>2, ControlInvariant, ControlStays DEF PhasesInv
    <3> QED BY <1>1, <3>1, <3>2 DEF AnyReduce
  <2>3. family' = "any"
    BY <2>1, <2>2 DEF family
  <2> QED BY <2>1, <2>2, <2>3 DEF PhasesInv, Concrete
<1>2. CASE Begin \/ Generate \/ Stop \/ Yield
  <2>1. CASE Concrete
    BY <1>2, <2>1, ControlKeeps, YieldKeeps
  <2>2. CASE ~Concrete
    <3>1. Yield
      BY <1>2, <2>2 DEF Begin, Generate, Stop, Concrete
    <3>2. remaining = <<>>
      BY <2>2 DEF PhasesInv, Concrete
    <3> QED BY <3>1, <3>2 DEF Yield
  <2> QED BY <2>1, <2>2
<1>3. CASE NextPhase
  BY <1>3, NextPhaseKeeps
<1>4. CASE UNCHANGED allvars
  <2>1. IInv'
    BY <1>4 DEF allvars, vars, inputs, counters, PhasesInv, IInv, TypeOK, NotOver,
        CountersAreTrue, InLoop,
       InPass, ReducedStillFails, FixedPointIsEarned, BudgetsAreCeilings, ArgumentsValid,
           termination_reason
  <2> QED BY <1>4, <2>1 DEF allvars, vars, phased, inputs, counters, PhasesInv, Concrete, family,
      phase
<1>5. Finished /\ UNCHANGED phased => UNCHANGED allvars
  BY DEF Finished, allvars
<1> QED BY <1>1, <1>2, <1>3, <1>4, <1>5 DEF PhasedNext, Triage

----------------------------------------------------------------------------
\* What a phase has and is yet to see, and what the phases before it gained, in every
\* reachable state of a triage.
THEOREM PhasesInvariance == PhasedSpec => []PhasesInv
<1>1. PhasedInit => PhasesInv
  BY PhasesStart
<1>2. PhasesInv /\ [PhasedNext]_allvars => PhasesInv'
  BY PhasesStep
<1> QED BY <1>1, <1>2, PTL DEF PhasedSpec

\* Every phase of a triage, whichever adapter it runs, keeps the types of reduce_case, the
\* failure of the case it reduces, the budgets it was given and the truth of what it reports.
THEOREM PhasesAreReductions ==
  PhasedSpec => [](/\ TypeOK /\ ReducedStillFails /\ FixedPointIsEarned /\ BudgetsAreCeilings
                   /\ EvidenceIsAcceptedAndTrue)
<1>1. PhasesInv => /\ TypeOK /\ ReducedStillFails /\ FixedPointIsEarned /\ BudgetsAreCeilings
                   /\ EvidenceIsAcceptedAndTrue
  BY EvidenceFollows DEF PhasesInv, IInv
<1> QED BY <1>1, PhasesInvariance, PTL

\* A phase that reports a fixed point ends with a case that is 1-minimal: the target was seen
\* to handle each of the cases with one item less.
THEOREM FixedPointsAreOneMinimal == PhasedSpec => []OneMinimal
<1>1. PhasesInv => OneMinimal
  <2> SUFFICES ASSUME PhasesInv, family # "any", outcome = "returned",
      termination_reason = "fixed_point",
                      NEW d \in OneLess(phase, value)
               PROVE  d \in passing
    BY DEF OneMinimal
  <2>1. Concrete /\ ~exhausted_budget
    BY DEF Concrete, termination_reason
  <2>2. /\ AllPulled(current, work.pulled) /\ FixedPointIsEarned
        /\ \A c \in work.rejected : c[3] \in passing
    BY <2>1 DEF PhasesInv, IInv
  <2>3. current \in Case /\ current[1] # "any" /\ current[2] = phase /\ current[3] = value
    BY <2>1 DEF PhasesInv, IInv, TypeOK, Place, value
  <2>4. PICK i \in DOMAIN Candidates[current] :
          Candidates[current][i] = d /\ Measure[Offer(current, i)] < Measure[current]
    BY <2>3, OneLessIsOffered
  <2>5. Offer(current, i) \in work.rejected
    BY <2>2, <2>4 DEF AllPulled, FixedPointIsEarned
  <2> QED BY <2>2, <2>4, <2>5 DEF Offer
<1> QED BY <1>1, PhasesInvariance, PTL

\* No phase of a SQLite triage loses what one before it has gained.
THEOREM PhasesKeepGains == PhasedSpec => []GainsAreKept
<1>1. PhasesInv => GainsAreKept
  <2> SUFFICES ASSUME PhasesInv PROVE GainsAreKept
    OBVIOUS
  <2>1. CASE Concrete
    BY <2>1 DEF PhasesInv, Place, Kept, GainsAreKept, value
  <2>2. CASE ~Concrete
    <3>1. reached = <<>>
      BY <2>2 DEF PhasesInv, Concrete
    <3> QED BY <3>1 DEF GainsAreKept
  <2> QED BY <2>1, <2>2
<1> QED BY <1>1, PhasesInvariance, PTL
=============================================================================
