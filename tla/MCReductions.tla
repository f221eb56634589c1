--------------------------- MODULE MCReductions ----------------------------
(***************************************************************************)
(* Reductions on five cases of an unknown adapter (two of one measure, one *)
(* of measure zero, one whose measure is broken), every byte string of at  *)
(* most MaxLength bytes over Alphabet, and a few cases of each other       *)
(* family with everything their adapters make of them.                     *)
(***************************************************************************)
EXTENDS Reductions, JsonCases, TLC

CONSTANTS big, mid, twin, small, broken, Alphabet, MaxLength

AnyMeasure == (big :> 3) @@ (mid :> 2) @@ (twin :> 2) @@ (small :> 0) @@ (broken :> -1)
AnyCases == {<<"any", "any", c>> : c \in DOMAIN AnyMeasure}

ByteCases ==
  {<<"bytes", "bytes", v>> : v \in UNION {[1..n -> Alphabet] : n \in 0..MaxLength}}

SqliteCase(setup, body, observe, occurrence) ==
  [setup |-> setup, body |-> body, observe |-> observe, occurrence |-> occurrence]

one == << <<"int", 1>> >>
SqliteInitial ==
  {<<"two_connection", "steps",
     SqliteCase(<<"t", "i">>, << <<>>, one, <<>>, << <<"int", -7>> >> >>, <<>>, NoFault)>>,
   <<"two_connection", "steps", SqliteCase(<<"t", "t">>, <<one, one, <<>> >>, <<>>, NoFault)>>,
   <<"transaction", "occurrence",
     SqliteCase(<<"t">>, << <<>>, << <<"bool", 1>> >> >>, << <<"float", 4>> >>, 3)>>,
   <<"transaction", "occurrence",
     SqliteCase(<<>>, << << <<"str", 2>> >> >>, <<>>, NoFault)>>,
   <<"query", "occurrence",
     SqliteCase(<<"t", "i", "t">>, << << <<"int", 2000000>>, <<"float", -25000>> >> >>, <<>>, 1)>>}

FrameInitial ==
  {<<"form", "form", << << <<1, 2>>, <<1>> >>, << <<1>>, <<>> >> >> >>,
   <<"url", "url", << << << <<1>>, <<2, 1>> >> >>, << <<>>, << <<1>> >> >> >> >>,
   <<"multipart", "multipart", << << <<1, 1, 2>>, 3>>, << <<>>, 0>> >> >>,
   <<"chunked", "chunked", << <<1, 2>>, <<1>> >> >>,
   <<"json", "json", <<1, <<"object", << <<0, <<"bool", 1>> >>,
                                         <<1, <<"array", << <<"int", 42>>, <<"string", <<1, 1>> >> >> >> >> >> >> >> >>,
   <<"json", "json", <<0, <<"object", << <<2, <<"int", 7>> >> >> >> >> >>}

InitialFailures == AnyCases \cup ByteCases \cup SqliteInitial \cup FrameInitial
MCInitialCases == InitialFailures

OfferedFor(c) == IF c[1] = "json" THEN json_candidates(c[3]) ELSE candidates(c[1], c[2], c[3])
MeasureOf(c) == IF c[1] = "json" THEN DocumentSize(c[3]) ELSE measure(c[1], c[2], c[3])

\* What an adapter makes of a case, and the case itself in the phase after its own.
Successors(c) ==
  {<<c[1], c[2], v>> : v \in Range(OfferedFor(c))}
  \cup {<<c[1], Phases(c[1])[k + 1], c[3]>> :
          k \in {i \in 1..Len(Phases(c[1])) - 1 : Phases(c[1])[i] = c[2]}}

RECURSIVE Closure(_, _)
Closure(all, new) ==
  IF new = {} THEN all
  ELSE Closure(all \cup new, UNION {Successors(c) : c \in new} \ (all \cup new))

ConcreteCases == ByteCases \cup Closure({}, SqliteInitial \cup FrameInitial)

Measures ==
  [c \in ConcreteCases |-> MeasureOf(c)] @@ [c \in AnyCases |-> AnyMeasure[c[3]]]
Offers == [c \in ConcreteCases |-> OfferedFor(c)] @@ <<>>
Cases == AnyCases \cup ConcreteCases

\* TLC keeps the value of a definition, but not of one that replaces a constant.
MCCase == Cases
MCMeasure == Measures
MCCandidates == Offers

\* The small budgets for the unknown adapter, ample or short ones for the others.
MCInit ==
  /\ PhasedInit
  /\ IF initial[1] = "any" THEN max_evaluations < 5 /\ max_candidate_visits < 5
     ELSE max_evaluations \in {3, 40} /\ max_candidate_visits \in {5, 40}

MCSpec == MCInit /\ [][PhasedNext]_allvars /\ WF_allvars(Triage)
=============================================================================
