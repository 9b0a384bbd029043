-------------------------- MODULE MCEcoRepository --------------------------
(* Small instances of EcoRepository for TLC. *)
EXTENDS EcoRepository, TLC

\* Saves are interchangeable, and so are reads.
Symmetry == Permutations(Saves) \cup Permutations(Reads)
============================================================================
