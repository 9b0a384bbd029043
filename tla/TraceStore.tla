----------------------------- MODULE TraceStore -----------------------------
(***************************************************************************)
(* What the repository promises its callers, with no counter, no mutex and *)
(* no order of loads in it: a Save puts its trace into the log in one step *)
(* between its call and its return; a Snapshot is the log; and what        *)
(* Aggregates tells counts everything the log held when it was asked, and  *)
(* nothing that no Save has brought.  EcoAggregates is shown to implement  *)
(* this module.                                                            *)
(***************************************************************************)
EXTENDS Integers, Sequences, FiniteSetsExt

CONSTANTS Saves, Reads, Savings, Unit      \* as in EcoRepository

VARIABLES
  saving,    \* per Save: "new", "under way" or "stored"
  trace,     \* per Save: the trace it brings
  log,       \* the traces stored, in the order of their Saves
  copy,      \* what the latest Snapshot returned
  reading,   \* per Aggregates: "new", "asked" or "told"
  least,     \* per Aggregates: the totals of the log when it was asked
  told       \* per Aggregates: what it returned

saveVars == <<saving, trace, log>>
readVars == <<reading, least, told>>
vars == <<saveVars, copy, readVars>>

------------------------------------------------------------------------------
Traces  == [hit : BOOLEAN, saving : Savings \cup {0}]
Zero    == [hits |-> 0, misses |-> 0, saved |-> 0]

\* What the Saves of a set add up to, in whole micrograms.
HitsAmong(S) == {s \in S : trace[s].hit}
Totals(S) ==
  [hits   |-> Cardinality(HitsAmong(S)),
   misses |-> Cardinality(S \ HitsAmong(S)),
   saved  |-> SumFunctionOnSet([s \in Saves |-> trace[s].saving \div Unit], HitsAmong(S))]

Stored == {s \in Saves : saving[s] = "stored"}
Begun  == {s \in Saves : saving[s] # "new"}

Init ==
  /\ saving = [s \in Saves |-> "new"]
  /\ trace = [s \in Saves |-> [hit |-> FALSE, saving |-> 0]]
  /\ log = <<>> /\ copy = <<>>
  /\ reading = [q \in Reads |-> "new"]
  /\ least = [q \in Reads |-> Zero]
  /\ told = [q \in Reads |-> Zero]

------------------------------------------------------------------------------
Begin(s) ==
  /\ saving[s] = "new"
  /\ saving' = [saving EXCEPT ![s] = "under way"]
  /\ \E t \in Traces : trace' = [trace EXCEPT ![s] = t]
  /\ UNCHANGED <<log, copy, readVars>>

Store(s) ==
  /\ saving[s] = "under way"
  /\ saving' = [saving EXCEPT ![s] = "stored"]
  /\ log' = Append(log, trace[s])
  /\ UNCHANGED <<trace, copy, readVars>>

Copy ==
  /\ copy' = log
  /\ UNCHANGED <<saveVars, readVars>>

Ask(q) ==
  /\ reading[q] = "new"
  /\ reading' = [reading EXCEPT ![q] = "asked"]
  /\ least' = [least EXCEPT ![q] = Totals(Stored)]
  /\ UNCHANGED <<saveVars, copy, told>>

Between(m, n) == [hits   : m.hits .. n.hits,
                  misses : m.misses .. n.misses,
                  saved  : m.saved .. n.saved]

Tell(q) == \E m \in Between(least[q], Totals(Begun)) :
  /\ reading[q] = "asked"
  /\ reading' = [reading EXCEPT ![q] = "told"]
  /\ told' = [told EXCEPT ![q] = m]
  /\ UNCHANGED <<saveVars, copy, least>>

Next ==
  \/ \E s \in Saves : Begin(s) \/ Store(s)
  \/ \E q \in Reads : Ask(q) \/ Tell(q)
  \/ Copy

Spec == Init /\ [][Next]_vars
=============================================================================
