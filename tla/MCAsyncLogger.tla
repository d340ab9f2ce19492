---------------------------- MODULE MCAsyncLogger ----------------------------
(* Instances of AsyncLogger for TLC.                                       *)
EXTENDS AsyncLogger, TLC

\* Threads, and the workers of a pool, differ in their names only.
Symmetry == Permutations(Threads) \cup Permutations(Workers)
=============================================================================
