---------------------------- MODULE MCEstimator ----------------------------
(* EstimatorRetries for TLC: Records that do the same are interchangeable. *)
EXTENDS EstimatorRetries, TLC

Symmetry == Permutations(Calls)
==============================================================================
