-------------------------- MODULE MCEvalCoordinator --------------------------
(* EvalCoordinator for TLC: two debuggee threads, a few tasks and           *)
(* evaluations; threads, tasks and evaluations are interchangeable.         *)
EXTENDS EvalCoordinator, TLC

Symmetry == Permutations(Threads) \cup Permutations(Tasks)
            \cup Permutations(Evals)
=============================================================================
