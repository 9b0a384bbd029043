-------------------------- MODULE MCEcoMiddleware --------------------------
(* Small instances of EcoMiddleware for TLC. *)
EXTENDS EcoMiddleware, TLC

\* Objects are interchangeable, and so are requests of one kind.
Alike == {Background \ SlowRequests, SlowRequests \ Background,
          Background \cap SlowRequests, Requests \ (Background \cup SlowRequests)}
Symmetry == UNION {Permutations(set) : set \in Alike \cup {Traces, Writers}}
============================================================================
