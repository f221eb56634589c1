---------------------------- MODULE MCCampaigns ----------------------------
(***************************************************************************)
(* Campaigns under a list of limits, each there to let one ending happen.  *)
(***************************************************************************)
EXTENDS Campaigns

Arguments(seeds, mutations, evaluation, corpus_entries, unique_failures, feature_visits) ==
  [seeds |-> seeds, mutations_per_case |-> mutations, max_evaluations |-> evaluation,
   max_corpus_entries |-> corpus_entries, max_unique_failures |-> unique_failures,
   max_feature_visits |-> feature_visits]

MCLimits ==
  {Arguments(1, 2, 4, 4, 3, 2),     \* a second parent: the budget ends it
   Arguments(2, 1, 4, 4, 3, 2),     \* runs out of parents before the budget
   Arguments(1, 2, 3, 2, 2, 3),     \* the corpus or the failures fill up
   Arguments(3, 1, 2, 2, 1, 2),     \* the budget ends within the seeds
   Arguments(0, 1, 1, 1, 1, 1),     \* no seeds: refused by "feedback" only
   Arguments(1, 1, 1, 1, 0, 1)}     \* no failures wanted: refused but by "fuzz"
=============================================================================
