-------------------------- MODULE EstimatorRetries --------------------------
(***************************************************************************)
(* Estimator with two history variables about atomicAddFloat64's loop: how *)
(* often a Record's compare-and-swap has failed since its loop began, and  *)
(* how many Records had added to the same sum by then.  The estimator does *)
(* the same with and without them.                                         *)
(***************************************************************************)
EXTENDS Estimator

VARIABLES
  failed,    \* per Record (history): its failed compare-and-swaps in this loop
  since      \* per Record (history): the additions to its sum when the loop began

loopVars    == <<failed, since>>
historyVars == <<vars, loopVars>>

Looping == {"load total", "swap total", "load saved", "swap saved"}
Trying  == {"swap total", "swap saved"}

HistoryInit ==
  /\ Init
  /\ failed = [c \in Calls |-> 0]
  /\ since = [c \in Calls |-> 0]

\* The call of atomicAddFloat64, for the sum to which the calls of set have added.
Enters(c, set) ==
  /\ since' = [since EXCEPT ![c] = Cardinality(set)]
  /\ UNCHANGED failed

\* Every addition changes the sum: a compare-and-swap that does not has failed.
Loops(c) ==
  \/ pc[c] \notin Trying /\ UNCHANGED loopVars
  \/ /\ pc[c] \in Trying /\ mem' = mem
     /\ failed' = [failed EXCEPT ![c] = @ + 1]
     /\ UNCHANGED since
  \/ /\ pc[c] \in Trying /\ mem' # mem
     /\ failed' = [failed EXCEPT ![c] = 0]
     /\ since' = [since EXCEPT ![c] = 0]

HistoryNext ==
  \/ \E c \in Calls :
       \/ Begin(c) /\ Enters(c, InTotal)
       \/ (AddTotal(c) \/ AddSaved(c)) /\ Loops(c)
       \/ CountRequest(c) /\ Enters(c, IF call[c].hit THEN InSaved ELSE {})
       \/ CountHit(c) /\ UNCHANGED loopVars
  \/ (\E q \in Reads : Load(q)) /\ UNCHANGED loopVars
  \/ Finished /\ UNCHANGED loopVars

HistorySpec == HistoryInit /\ [][HistoryNext]_historyVars

------------------------------------------------------------------------------
(* Properties *)

\* The Records whose addition to the sum that c is at is done.
Added(c) == IF pc[c] \in {"load total", "swap total"} THEN InTotal ELSE InSaved

\* Each failure of a Record's compare-and-swap is paid for by an addition that
\* another Record has made to the same sum since the loop began: whenever one is
\* held up, another has got on.  (atomicAddFloat64 reads the sum again before each
\* attempt, co2.go:157-166.)
RetriesPaid ==
  \A c \in In(Looping) : failed[c] <= Cardinality(Added(c)) - since[c]
==============================================================================
