---------------------------- MODULE Reductions -----------------------------
(***************************************************************************)
(* reduce_case (Reducer) with the adapters this repository gives it, as    *)
(* its callers compose them: one phase for bytes and for each format, and  *)
(* the three phases of the SQLite triages, each a reduce_case of its own   *)
(* that starts from the case the one before it returned.                   *)
(*                                                                         *)
(* A case is <<family, phase, value>>.  The family "any" is an adapter     *)
(* nothing is known of, against a target that may answer anything; the     *)
(* others run against a target that answers the same when asked twice.     *)
(***************************************************************************)
EXTENDS Reducer, SqliteCases, FrameCases

CONSTANTS InitialCases,  \* the failures handed to a triage, in their first phase
          Candidates     \* the cases the adapter of a phase yields: candidates, tabulated

VARIABLES remaining,         \* what the running generator has yet to yield
          passing, failing,  \* values the target has been seen to handle, and to fail on
          reached            \* the measures the finished phases ended with

phased == <<remaining, passing, failing, reached>>
allvars == <<vars, phased>>

Phases(family) ==
  CASE family = "two_connection" -> <<"steps", "setup", "parameters">>
    [] family = "transaction"    -> <<"occurrence", "statements", "parameters">>
    [] family = "query"          -> <<"occurrence", "setup", "parameters">>
    [] OTHER                     -> <<family>>

family == initial[1]
phase == initial[2]
value == current[3]

\* JSON documents are recursive: JsonCases has their candidates and measure.
candidates(f, p, v) ==
  CASE f = "bytes"          -> hierarchical_byte_deletions(v)
    [] f = "two_connection" -> two_connection_candidates(p, v)
    [] f = "transaction"    -> transaction_candidates(p, v)
    [] f = "query"          -> query_candidates(p, v)
    [] f = "form"           -> form_candidates(v)
    [] f = "url"            -> url_candidates(v)
    [] f = "multipart"      -> multipart_candidates(v)
    [] f = "chunked"        -> chunk_candidates(v)

\* len of the encoded case, except for SQLite cases.
measure(f, p, v) ==
  CASE f = "bytes"     -> Len(v)
    [] f = "form"      -> FormSize(v)
    [] f = "url"       -> RequestSize(v)
    [] f = "multipart" -> PartsSize(v)
    [] f = "chunked"   -> ChunksSize(v)
    [] OTHER           -> sqlite_measure(p, v)

\* The values a case of a family has.
Scalar == {"null", "bool", "int", "float", "str"} \X Int
SqliteValue ==
  [setup : Seq(STRING), body : Seq(Seq(Scalar)), observe : Seq(Scalar), occurrence : Int]
Values(f) ==
  CASE f = "bytes"     -> Seq(Nat)
    [] f = "form"      -> Seq(Seq(Nat) \X Seq(Nat))
    [] f = "url"       -> Seq(Seq(Seq(Nat))) \X Seq(Seq(Seq(Nat)))
    [] f = "multipart" -> Seq(Seq(Nat) \X Nat)
    [] f = "chunked"   -> Seq(Seq(Nat) \ {<<>>})
    [] OTHER           -> SqliteValue
Tabulated == {"bytes", "form", "url", "multipart", "chunked", "two_connection", "transaction", "query"}

\* A triage starts in its first phase.  A phase only yields cases, of its own kind, and what
\* it returns is a case of the next one.
ASSUME InitialAssumption ==
  /\ InitialCases \subseteq Case
  /\ \A c \in InitialCases : c[1] # "any" => c[2] = Phases(c[1])[1]
ASSUME PhasesAssumption ==
  \A c \in Case : c[1] # "any" =>
    /\ c[1] \in Tabulated \cup {"json"} /\ c[2] \in Range(Phases(c[1]))
    /\ Candidates[c] \in Seq(Range(Candidates[c]))
    /\ \A i \in DOMAIN Candidates[c] : <<c[1], c[2], Candidates[c][i]>> \in Case
    /\ \A k \in 1..Len(Phases(c[1])) - 1 :
         c[2] = Phases(c[1])[k] => <<c[1], Phases(c[1])[k + 1], c[3]>> \in Case
\* The adapters are those of the repository.
ASSUME AdaptersAssumption ==
  \A c \in Case : c[1] \in Tabulated =>
    /\ c[3] \in Values(c[1])
    /\ Candidates[c] = candidates(c[1], c[2], c[3]) /\ Measure[c] = measure(c[1], c[2], c[3])

----------------------------------------------------------------------------

PhasedInit ==
  /\ initial \in InitialCases
  /\ Init
  /\ remaining = <<>> /\ passing = {} /\ failing = {} /\ reached = <<>>

\* An adapter nothing is known of.
AnyReduce ==
  /\ family = "any"
  /\ \/ RejectArguments
     \/ \E answer \in {"yes", "no", "raises"} : EvaluateInitial(answer)
     \/ StopAtEvaluationBudget \/ StopAtVisitBudget \/ StartPass
     \/ EnumerationRaises \/ EndOfStream
     \/ \E candidate \in {c \in Case : c[1] = "any"} : Step(candidate)
  /\ UNCHANGED phased

\* The target has answered for cases, and never differently from before.
Answered ==
  /\ passing' = passing \cup {c[3] : c \in work'.rejected}
  /\ failing' = failing \cup {c[3] : c \in work'.failing}
  /\ passing' \cap failing' = {}
  /\ outcome' # "adapter_error"

Begin ==
  /\ family # "any"
  /\ RejectArguments \/ \E answer \in {"yes", "no"} : EvaluateInitial(answer)
  /\ Answered /\ UNCHANGED <<remaining, reached>>

Generate ==
  /\ family # "any" /\ StartPass
  /\ remaining' = Candidates[current]
  /\ UNCHANGED <<passing, failing, reached>>

Yield ==
  /\ remaining # <<>>
  /\ Step(<<family, phase, Head(remaining)>>)
  /\ Answered
  /\ remaining' = Tail(remaining) /\ UNCHANGED reached

Stop ==
  /\ family # "any"
  /\ \/ StopAtEvaluationBudget
     \/ StopAtVisitBudget
     \/ remaining = <<>> /\ EndOfStream
  /\ UNCHANGED phased

Restart(case) ==
  /\ pc' = "start" /\ initial' = case /\ current' = case
  /\ evaluations' = 0 /\ candidate_visits' = 0 /\ accepted_steps' = 0
  /\ outcome' = "none" /\ exhausted_budget' = FALSE /\ work' = NoWork
  /\ UNCHANGED <<max_evaluations, max_candidate_visits>>

MorePhases == family # "any" /\ Len(reached) + 1 < Len(Phases(family))

NextPhase_FromTheFailure ==
  /\ pc = "done" /\ outcome = "returned" /\ MorePhases
  /\ Restart(<<family, Phases(family)[Len(reached) + 2], initial[3]>>)
  /\ reached' = Append(reached, Measure[current])
  /\ remaining' = <<>> /\ UNCHANGED <<passing, failing>>
\* The phase returned; the next one reduces what it returned under its own budgets.
NextPhase ==
  /\ pc = "done" /\ outcome = "returned" /\ MorePhases
  /\ Restart(<<family, Phases(family)[Len(reached) + 2], value>>)
  /\ reached' = Append(reached, Measure[current])
  /\ remaining' = <<>> /\ UNCHANGED <<passing, failing>>

Triage == AnyReduce \/ Begin \/ Generate \/ Yield \/ Stop \/ NextPhase

PhasedNext == Triage \/ (Finished /\ UNCHANGED phased)

PhasedSpec == PhasedInit /\ [][PhasedNext]_allvars

\* Triage is sequential code: it makes progress as long as each adapter call returns.
FairPhasedSpec == PhasedSpec /\ WF_allvars(Triage)

----------------------------------------------------------------------------
(* Properties.                                                             *)

\* The case with one statement, pair, operation, part, chunk or byte left out.
OneLess(p, v) ==
  LET without(items) == {RemoveAt(items, i) : i \in DOMAIN items}
      keepingOne(items) == IF Len(items) > 1 THEN without(items) ELSE {}
      bodies == {[v EXCEPT !.body = b] : b \in keepingOne(v.body)}
      setups == {[v EXCEPT !.setup = s] : s \in without(v.setup)}
  IN  CASE p \in {"bytes", "form", "chunked"} -> without(v)
        [] p = "multipart"  -> keepingOne(v)
        [] p = "url"        -> {<<v[1], o>> : o \in without(v[2])}
                               \cup {<<n, v[2]>> : n \in without(v[1])}
        [] p = "steps"      -> bodies
        [] p = "setup"      -> setups
        [] p = "statements" -> bodies \cup setups
        [] OTHER            -> {}

\* A phase that ends at a fixed point is 1-minimal in what it deletes: the target was
\* seen to handle every case left by taking out one more byte, step, statement, pair,
\* operation, part or chunk (one step, transaction statement or part always stays).
OneMinimal ==
  family # "any" /\ outcome = "returned" /\ termination_reason = "fixed_point" =>
    OneLess(phase, value) \subseteq passing

\* What an earlier phase of a SQLite triage gained, no later one loses: the case handed
\* on is the reduced one, and no adapter touches what another adapter reduces.
GainsAreKept ==
  \A k \in DOMAIN reached : measure(family, Phases(family)[k], value) <= reached[k]

\* Neither an endless stream of candidates nor one without progress keeps a triage from
\* ending its phases, as long as the adapter's calls return.
Terminates == <>[](pc = "done")
=============================================================================
