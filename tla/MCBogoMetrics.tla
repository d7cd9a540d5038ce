---------------------------- MODULE MCBogoMetrics ----------------------------
EXTENDS BogoMetrics
\* The permutations of two stressors.
PermuteTwo == << {1}, {2}, {1, 2} >>
\* One SIGALRM stands for the four of them and for SIGTERM: a worker may end by
\* either, or not; by SIGKILL it must.
SignalsOf == << "ALRM", "KILL" >>
=============================================================================
