---------------------------- MODULE MCStatsHash ----------------------------
(***************************************************************************)
(* Instances of StatsHash for TLC: the instances each run starts under      *)
(* stress_parallel_run and under stress_permute_run.                        *)
(***************************************************************************)
EXTENDS StatsHash

ParallelOne == << {1} >>
\* Two stressors with one instance each; one with one instance and one with two.
PermuteTwo == << {1}, {2}, {1, 2} >>
PermuteThree == << {1}, {2, 3}, {1, 2, 3} >>
=============================================================================
