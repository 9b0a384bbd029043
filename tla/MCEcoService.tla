---------------------------- MODULE MCEcoService ----------------------------
(* Small instances of EcoService, and of the repository alone, for TLC. *)
EXTENDS EcoService, TLC

\* Saves are interchangeable, and so are reads.
Symmetry == Permutations(Saves) \cup Permutations(Reads)
=============================================================================
