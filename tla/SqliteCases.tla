---------------------------- MODULE SqliteCases ----------------------------
(***************************************************************************)
(* What the SQLite reducers yield (sqlite_two_connection_reducer.py,       *)
(* sqlite_transaction_reducer.py, sqlite_query_reducer.py).                *)
(*                                                                         *)
(* A case is [setup, body, observe, occurrence]: the setup statements, the *)
(* steps, transaction statements or (alone) the query, each with its       *)
(* parameters, the parameters of the observation, and the occurrence of    *)
(* the fault, NoFault when the request has none.  A parameter is           *)
(* <<type, n>>: a bool or an integer n, a float of n ten-thousandths, a    *)
(* string of n one-byte characters.                                        *)
(***************************************************************************)
EXTENDS ListDeletions

NoFault == -1
null == <<"null", 0>>

Lesser(a, b) == IF a < b THEN a ELSE b
Magnitude(n) == IF n < 0 THEN -n ELSE n

scalar_complexity(s) ==
  CASE s[1] = "null"  -> 0
    [] s[1] = "bool"  -> 1 + s[2]
    [] s[1] = "int"   -> 3 + Lesser(Magnitude(s[2]), 1000000)
    [] s[1] = "float" -> 1000004 + Lesser(Magnitude(s[2]) \div 10, 1000000)
    [] s[1] = "str"   -> 2000005 + s[2]

\* One unit of the type: 1, 1.0, the string "0".
Unit(type) == IF type = "float" THEN 10000 ELSE 1

\* In the order the reducer tries them; the value itself is left out.
simpler_scalars(s) ==
  LET sign == IF s[1] # "str" /\ s[2] < 0 THEN -1 ELSE 1
      boundary == IF s[1] # "bool" /\ Magnitude(s[2]) > Unit(s[1])
                    THEN << <<s[1], sign * Unit(s[1])>> >> ELSE << >>
  IN  IF s = null THEN << >>
      ELSE Those(<< <<s[1], 0>> >> \o boundary \o <<null>>, LAMBDA c : c # s)

----------------------------------------------------------------------------
(* Deletions.                                                              *)

body_deletions(case) ==
  LET bodies == list_deletions(case.body, 1)
  IN  [i \in DOMAIN bodies |-> [case EXCEPT !.body = bodies[i]]]

setup_deletions(case) ==
  LET setups == list_deletions(case.setup, 0)
  IN  [i \in DOMAIN setups |-> [case EXCEPT !.setup = setups[i]]]

----------------------------------------------------------------------------
(* Parameters, one scalar at a time, and the fault's occurrence.           *)

Complexities(params) == FoldSeq(LAMBDA s, sum : sum + scalar_complexity(s), 0, params)

parameter_complexity(case) ==
  Complexities(FlattenSeq(case.body)) + Complexities(case.observe)

Simplified(params) ==
  FlattenSeq([i \in DOMAIN params |->
    LET simpler == simpler_scalars(params[i])
    IN  [j \in DOMAIN simpler |-> [params EXCEPT ![i] = simpler[j]]]])

parameter_reductions(case) ==
  LET inBody(k) == LET lists == Simplified(case.body[k])
                   IN  [i \in DOMAIN lists |-> [case EXCEPT !.body[k] = lists[i]]]
      observes == Simplified(case.observe)
      proposed == FlattenSeq([k \in DOMAIN case.body |-> inBody(k)])
                  \o [i \in DOMAIN observes |-> [case EXCEPT !.observe = observes[i]]]
  IN  Those(proposed, LAMBDA c : parameter_complexity(c) < parameter_complexity(case))

occurrence_complexity(case) == IF case.occurrence = NoFault THEN 0 ELSE case.occurrence

occurrence_reductions(case) ==
  LET lower == Those(<<0, 1, 2>>, LAMBDA n : n < occurrence_complexity(case))
  IN  [i \in DOMAIN lower |-> [case EXCEPT !.occurrence = lower[i]]]

----------------------------------------------------------------------------
(* The phases of each SQLite triage: what they yield and what they measure. *)

two_connection_candidates(phase, case) ==
  CASE phase = "steps"      -> body_deletions(case)
    [] phase = "setup"      -> setup_deletions(case)
    [] phase = "parameters" -> parameter_reductions(case)

\* At least one transaction statement stays; setup may become empty.
transaction_candidates(phase, case) ==
  CASE phase = "occurrence" -> occurrence_reductions(case)
    [] phase = "statements" -> body_deletions(case) \o setup_deletions(case)
    [] phase = "parameters" -> parameter_reductions(case)

query_candidates(phase, case) ==
  CASE phase = "occurrence" -> occurrence_reductions(case)
    [] phase = "setup"      -> setup_deletions(case)
    [] phase = "parameters" -> parameter_reductions(case)

sqlite_measure(phase, case) ==
  CASE phase = "steps"      -> Len(case.body)
    [] phase = "setup"      -> Len(case.setup)
    [] phase = "statements" -> Len(case.setup) + Len(case.body)
    [] phase = "parameters" -> parameter_complexity(case)
    [] phase = "occurrence" -> occurrence_complexity(case)
=============================================================================
