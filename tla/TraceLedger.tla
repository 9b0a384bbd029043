----------------------------- MODULE TraceLedger -----------------------------
(***************************************************************************)
(* What the eco worker promises, with no channel and no goroutine in it:   *)
(* every trace that is offered is either rejected on the spot (counted as  *)
(* a drop) or accepted; an accepted trace is recorded in the metrics once, *)
(* and only a recorded trace is ever stored in the repository.  EcoWorker  *)
(* is shown to implement this module.                                      *)
(***************************************************************************)

CONSTANT Payloads      \* the traces, one per instrumented request

VARIABLES
  fate,     \* what has become of each trace
  sealed    \* whether the worker has been told to stop taking traces

vars == <<fate, sealed>>

Fates == {"new", "rejected", "accepted", "recorded", "stored"}

TypeOK ==
  /\ fate \in [Payloads -> Fates]
  /\ sealed \in BOOLEAN

Init ==
  /\ fate = [p \in Payloads |-> "new"]
  /\ sealed = FALSE

\* The trace moves from one fate to the next.
Becomes(p, from, to) ==
  /\ fate[p] = from
  /\ fate' = [fate EXCEPT ![p] = to]
  /\ UNCHANGED sealed

Accept(p) == ~sealed /\ Becomes(p, "new", "accepted")
Reject(p) == ~sealed /\ Becomes(p, "new", "rejected")
Record(p) == Becomes(p, "accepted", "recorded")
Store(p)  == Becomes(p, "recorded", "stored")

Seal ==
  /\ ~sealed
  /\ sealed' = TRUE
  /\ UNCHANGED fate

Next ==
  \/ \E p \in Payloads : Accept(p) \/ Reject(p) \/ Record(p) \/ Store(p)
  \/ Seal

Spec == Init /\ [][Next]_vars

\* An accepted trace does not stay unrecorded: storing is optional, recording
\* is not.
FairSpec == Spec /\ \A p \in Payloads : WF_vars(Record(p))
==============================================================================
