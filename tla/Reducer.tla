------------------------------ MODULE Reducer ------------------------------
(***************************************************************************)
(* reduce_case (reducer.py): greedy, budgeted reduction of a failing case. *)
(*                                                                         *)
(* The case adapter is untrusted: candidates(current) may yield any cases, *)
(* repeat them, never end, or raise, and preserves_failure may answer      *)
(* differently each time it is asked (it runs a real target) or raise.     *)
(* Every call of the adapter is one nondeterministic choice here, so an    *)
(* infinite stream is a behaviour in which EndOfStream is never chosen.    *)
(*                                                                         *)
(* Operators named <definition>_<bug> are bugs put into <definition>; no   *)
(* action of Next uses them.                                               *)
(***************************************************************************)
EXTENDS Integers

CONSTANTS Case,               \* the cases an adapter can produce
          Measure,            \* measure(case), negative when the adapter is broken
          EvaluationBudgets,  \* values a caller passes as max_evaluations
          VisitBudgets        \* values a caller passes as max_candidate_visits

ASSUME MeasureAssumption == Measure \in [Case -> Int]
ASSUME BudgetAssumption == EvaluationBudgets \subseteq Int /\ VisitBudgets \subseteq Int

VARIABLES pc,                 \* "start", "pass" (line 90), "pull" (line 98) or "done"
          max_evaluations, max_candidate_visits, initial,
          current, evaluations, candidate_visits, accepted_steps,
          outcome,            \* how the call ended
          exhausted_budget,   \* field of the ReductionResult
          work                \* what the adapter saw, for the properties only

inputs == <<max_evaluations, max_candidate_visits, initial>>
counters == <<current, evaluations, candidate_visits, accepted_steps>>
vars == <<pc, inputs, counters, outcome, exhausted_budget, work>>

Outcomes == {"none", "returned", "visit_budget", "value_error", "adapter_error"}

\* The adapter's own record of the calls it got: how often preserves_failure and
\* next() ran, which cases it called failing, and which it rejected in this pass.
NoWork == [answers |-> 0, pulls |-> 0, failing |-> {}, rejected |-> {}, pulled |-> {}]

Asked(case, answer) ==
  [answers |-> work.answers + 1, pulls |-> work.pulls,
   failing |-> work.failing \cup {c \in {case} : answer = "yes"},
   rejected |-> work.rejected \cup {c \in {case} : answer = "no"},
   pulled |-> work.pulled]

Pulled(w, case) ==
  [answers |-> w.answers, pulls |-> w.pulls + 1, failing |-> w.failing,
   rejected |-> w.rejected, pulled |-> w.pulled \cup {case}]

TypeOK ==
  /\ pc \in {"start", "pass", "pull", "done"}
  /\ max_evaluations \in EvaluationBudgets /\ max_candidate_visits \in VisitBudgets
  /\ initial \in Case /\ current \in Case
  /\ evaluations \in Nat /\ candidate_visits \in Nat /\ accepted_steps \in Nat
  /\ outcome \in Outcomes /\ exhausted_budget \in BOOLEAN
  /\ work \in [answers : Nat, pulls : Nat, failing : SUBSET Case,
               rejected : SUBSET Case, pulled : SUBSET Case]

Init ==
  /\ pc = "start"
  /\ max_evaluations \in EvaluationBudgets /\ max_candidate_visits \in VisitBudgets
  /\ initial \in Case /\ current = initial
  /\ evaluations = 0 /\ candidate_visits = 0 /\ accepted_steps = 0
  /\ outcome = "none" /\ exhausted_budget = FALSE
  /\ work = NoWork

Raise(error) == pc' = "done" /\ outcome' = error /\ UNCHANGED exhausted_budget

Return(exhausted) ==
  pc' = "done" /\ outcome' = "returned" /\ exhausted_budget' = exhausted

\* exhausted_budget alone decides the published reason (ReductionResult.__post_init__).
termination_reason == IF exhausted_budget THEN "evaluation_budget" ELSE "fixed_point"

----------------------------------------------------------------------------
(* Validation of the arguments and the evaluation of the initial case.     *)

ArgumentsValid ==
  max_evaluations > 0 /\ max_candidate_visits > 0 /\ Measure[initial] >= 0

RejectArguments ==
  /\ pc = "start" /\ ~ArgumentsValid
  /\ Raise("value_error")
  /\ UNCHANGED <<inputs, counters, work>>

EvaluateInitial(answer) ==
  /\ pc = "start" /\ ArgumentsValid
  /\ evaluations' = 1
  /\ work' = Asked(initial, answer)
  /\ CASE answer = "yes"    -> pc' = "pass" /\ UNCHANGED <<outcome, exhausted_budget>>
       [] answer = "no"     -> Raise("value_error")
       [] answer = "raises" -> Raise("adapter_error")
  /\ UNCHANGED <<inputs, current, candidate_visits, accepted_steps>>

----------------------------------------------------------------------------
(* The two loops.                                                          *)

EvaluationsLeft == evaluations < max_evaluations

VisitsSpent_AllowsOneMore == candidate_visits > max_candidate_visits
VisitsSpent == candidate_visits >= max_candidate_visits

\* Line 143: the last allowed evaluation was an accepted step.
StopAtEvaluationBudget ==
  /\ pc = "pass" /\ ~EvaluationsLeft
  /\ Return(TRUE)
  /\ UNCHANGED <<inputs, counters, work>>

\* Lines 91 and 99: checked before candidates() and before every next().
StopAtVisitBudget ==
  /\ \/ pc = "pass" /\ EvaluationsLeft
     \/ pc = "pull"
  /\ VisitsSpent
  /\ Raise("visit_budget")
  /\ UNCHANGED <<inputs, counters, work>>

StartPass ==
  /\ pc = "pass" /\ EvaluationsLeft /\ ~VisitsSpent
  /\ pc' = "pull"
  /\ work' = [work EXCEPT !.rejected = {}, !.pulled = {}]
  /\ UNCHANGED <<inputs, counters, outcome, exhausted_budget>>

\* candidates() or next() raises: nothing is swallowed.
EnumerationRaises ==
  /\ \/ pc = "pass" /\ EvaluationsLeft
     \/ pc = "pull"
  /\ ~VisitsSpent
  /\ Raise("adapter_error")
  /\ UNCHANGED <<inputs, counters, work>>

\* A pass that accepts leaves the inner loop at once, so the stream can only end in
\* a pass that accepted nothing.
EndOfStream_StartsOver ==
  /\ pc = "pull" /\ ~VisitsSpent
  /\ pc' = "pass"
  /\ UNCHANGED <<inputs, counters, outcome, exhausted_budget, work>>
EndOfStream ==
  /\ pc = "pull" /\ ~VisitsSpent
  /\ Return(FALSE)
  /\ UNCHANGED <<inputs, counters, work>>

Progressing_AllowsEqual(candidate) == Measure[candidate] <= Measure[current]
Progressing(candidate) == Measure[candidate] < Measure[current]

Visit(candidate) ==
  /\ pc = "pull" /\ ~VisitsSpent
  /\ candidate_visits' = candidate_visits + 1

VisitBrokenMeasure(candidate) ==
  /\ Visit(candidate) /\ Measure[candidate] < 0
  /\ Raise("value_error")
  /\ work' = Pulled(work, candidate)
  /\ UNCHANGED <<inputs, current, evaluations, accepted_steps>>

Skip_Uncounted(candidate) ==
  /\ pc = "pull" /\ ~VisitsSpent /\ Measure[candidate] >= 0 /\ ~Progressing(candidate)
  /\ work' = Pulled(work, candidate)
  /\ UNCHANGED <<pc, inputs, counters, outcome, exhausted_budget>>
Skip(candidate) ==
  /\ Visit(candidate) /\ Measure[candidate] >= 0 /\ ~Progressing(candidate)
  /\ work' = Pulled(work, candidate)
  /\ UNCHANGED <<pc, inputs, current, evaluations, accepted_steps, outcome, exhausted_budget>>

StopBeforeEvaluation_ClaimsFixedPoint(candidate) ==
  /\ Visit(candidate) /\ Measure[candidate] >= 0 /\ Progressing(candidate)
  /\ ~EvaluationsLeft
  /\ Return(FALSE)
  /\ work' = Pulled(work, candidate)
  /\ UNCHANGED <<inputs, current, evaluations, accepted_steps>>
\* Line 115: a progressing candidate turns up after the last allowed evaluation.
StopBeforeEvaluation(candidate) ==
  /\ Visit(candidate) /\ Measure[candidate] >= 0 /\ Progressing(candidate)
  /\ ~EvaluationsLeft
  /\ Return(TRUE)
  /\ work' = Pulled(work, candidate)
  /\ UNCHANGED <<inputs, current, evaluations, accepted_steps>>

Evaluable(candidate) ==
  Measure[candidate] >= 0 /\ Progressing(candidate) /\ EvaluationsLeft

Accept(candidate) ==
  /\ Visit(candidate) /\ Evaluable(candidate)
  /\ evaluations' = evaluations + 1
  /\ work' = Pulled(Asked(candidate, "yes"), candidate)
  /\ current' = candidate
  /\ accepted_steps' = accepted_steps + 1
  /\ pc' = "pass"
  /\ UNCHANGED <<inputs, outcome, exhausted_budget>>

Reject(candidate) ==
  /\ Visit(candidate) /\ Evaluable(candidate)
  /\ evaluations' = evaluations + 1
  /\ work' = Pulled(Asked(candidate, "no"), candidate)
  /\ UNCHANGED <<pc, inputs, current, accepted_steps, outcome, exhausted_budget>>

PredicateRaises(candidate) ==
  /\ Visit(candidate) /\ Evaluable(candidate)
  /\ evaluations' = evaluations + 1
  /\ work' = Pulled(Asked(candidate, "raises"), candidate)
  /\ Raise("adapter_error")
  /\ UNCHANGED <<inputs, current, accepted_steps>>

Step(candidate) ==
  \/ VisitBrokenMeasure(candidate) \/ Skip(candidate) \/ StopBeforeEvaluation(candidate)
  \/ Accept(candidate) \/ Reject(candidate) \/ PredicateRaises(candidate)

Reduce ==
  \/ RejectArguments
  \/ \E answer \in {"yes", "no", "raises"} : EvaluateInitial(answer)
  \/ StopAtEvaluationBudget \/ StopAtVisitBudget \/ StartPass
  \/ EnumerationRaises \/ EndOfStream
  \/ \E candidate \in Case : Step(candidate)

Finished == pc = "done" /\ UNCHANGED vars

Next == Reduce \/ Finished

Spec == Init /\ [][Next]_vars

----------------------------------------------------------------------------
(* Properties.                                                             *)

\* What validate_reduction_evidence (repro_evidence.py) requires of the counters.
validate_reduction_evidence(e) ==
  /\ e.evaluations >= 1
  /\ e.candidate_visits >= e.evaluations - 1
  /\ e.accepted_steps <= e.evaluations - 1
  /\ e.accepted_steps <= e.candidate_visits
  /\ e.termination_reason = IF e.exhausted_budget THEN "evaluation_budget" ELSE "fixed_point"

Evidence ==
  [evaluations |-> evaluations, candidate_visits |-> candidate_visits,
   accepted_steps |-> accepted_steps, exhausted_budget |-> exhausted_budget,
   termination_reason |-> termination_reason]

\* Every result reduce_case returns carries work counters that the loader of the
\* published repro accepts, and that are the calls the adapter really got:
\* reducer.py counts, triage.py stores, repro_evidence.py rejects bundles otherwise.
EvidenceIsAcceptedAndTrue ==
  outcome = "returned" =>
    /\ validate_reduction_evidence(Evidence)
    /\ evaluations = work.answers /\ candidate_visits = work.pulls

\* The reduced case is one the predicate called failing during this run, and every
\* accepted step made it strictly smaller: no cycle, no drift to a passing case.
ReducedStillFails ==
  pc \in {"pass", "pull"} \/ outcome = "returned" =>
    /\ current \in work.failing
    /\ Measure[current] >= 0
    /\ Measure[current] + accepted_steps <= Measure[initial]

\* A result that claims a fixed point was reached after rejecting, in the last pass,
\* every smaller candidate the adapter offered for the reduced case.
FixedPointIsEarned ==
  outcome = "returned" /\ termination_reason = "fixed_point" =>
    \A c \in work.pulled : Measure[c] < Measure[current] => c \in work.rejected

\* The adapter never does work beyond the ceilings, and a result or error that blames
\* a budget is only reported when that budget is really spent.
BudgetsAreCeilings ==
  /\ max_evaluations > 0 => work.answers <= max_evaluations
  /\ max_candidate_visits > 0 => work.pulls <= max_candidate_visits
  /\ outcome = "returned" /\ exhausted_budget => work.answers = max_evaluations
  /\ outcome = "visit_budget" => work.pulls = max_candidate_visits
=============================================================================
