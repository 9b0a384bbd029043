---------------------------- MODULE EcoAggregates ----------------------------
(***************************************************************************)
(* EcoRepository with a history variable: what the slice held when a call  *)
(* of Aggregates made its first load.  The repository does the same with   *)
(* and without it; with it, the repository is a TraceStore.                *)
(***************************************************************************)
EXTENDS EcoRepository

VARIABLE least     \* per Aggregates (history): the totals of the slice when it began

historyVars == <<vars, least>>

\* The traces of a set of Saves, added up as Save adds them up.
Totals(set) ==
  [hits   |-> Cardinality(HitsOf(set)),
   misses |-> Cardinality(set \ HitsOf(set)),
   saved  |-> SumFunctionOnSet([s \in Saves |-> Micrograms(trace[s].saving)], HitsOf(set))]

InSlice == Totals(In({"done"}))

HistoryInit == Init /\ least = [q \in Reads |-> Zero]

Remember(q) == least' = [least EXCEPT ![q] = InSlice]

HistoryNext ==
  \/ (\E s \in Saves : Save(s)) /\ UNCHANGED least
  \/ \E q \in Reads : LoadHits(q) /\ Remember(q)
  \/ (\E q \in Reads : LoadMisses(q) \/ LoadSaved(q)) /\ UNCHANGED least
  \/ (Snapshot \/ Finished) /\ UNCHANGED least

HistorySpec == HistoryInit /\ [][HistoryNext]_historyVars

------------------------------------------------------------------------------
(* Properties *)

\* Where a Save and a call of Aggregates are, as their callers see it.
SaveStage(s) == IF spc[s] = "new" THEN "new"
                ELSE IF spc[s] = "done" THEN "stored" ELSE "under way"
ReadStage(q) == IF rpc[q] = "new" THEN "new"
                ELSE IF rpc[q] = "done" THEN "told" ELSE "asked"
Told(q) == IF rpc[q] = "done" THEN report[q] ELSE Zero

Promised == INSTANCE TraceStore WITH
  saving  <- [s \in Saves |-> SaveStage(s)],
  log     <- traces,
  copy    <- snapshot,
  reading <- [q \in Reads |-> ReadStage(q)],
  told    <- [q \in Reads |-> Told(q)]

\* To its callers, a Save is one step, which puts one trace at the end of the
\* slice, and a Snapshot is the slice.  Aggregates is not one step, but what it
\* returns counts every trace that was in the slice when it began, and none that
\* no Save had brought when it returned.  (inmemory.go:29-61.)
ImplementsStore == Promised!Spec
==============================================================================
