---------------------------- MODULE EcoRepository ----------------------------
(***************************************************************************)
(* internal/repository/inmemory.go: Save updates three atomic counters and *)
(* a slice behind a mutex, one after the other; Aggregates loads the       *)
(* counters one after the other; Snapshot copies the slice.  Each atomic   *)
(* operation and each critical section is a step.                          *)
(*                                                                         *)
(* A saving is counted in tenths of a microgram, so that the conversion to *)
(* whole micrograms in Save has something to truncate.                     *)
(***************************************************************************)
EXTENDS Integers, Sequences, FiniteSetsExt

CONSTANTS
  Saves,       \* calls of Save, by the workers
  Reads,       \* calls of Aggregates, by the service and the badge
  Savings,     \* what a cache hit can have saved, in tenths of a microgram
  Unit         \* tenths in a microgram

ASSUME SavesAssumption   == IsFiniteSet(Saves)
ASSUME ReadsAssumption   == IsFiniteSet(Reads)
ASSUME UnitAssumption    == Unit \in Nat \ {0}
ASSUME SavingsAssumption == Savings \subseteq Nat

VARIABLES
  spc,       \* per Save: what it has done
  trace,     \* per Save: its RequestTrace
  hits, misses, saved, traces,      \* the fields of InMemoryEcoRepository
  rpc,       \* per Aggregates: which counters it has loaded
  report,    \* per Aggregates: the CacheMetrics it is putting together
  snapshot   \* what the latest Snapshot returned

saveVars == <<spc, trace, hits, misses, saved, traces>>
readVars == <<rpc, report>>
vars == <<saveVars, readVars, snapshot>>

------------------------------------------------------------------------------
Traces  == [hit : BOOLEAN, saving : Savings \cup {0}]
NoTrace == [hit |-> FALSE, saving |-> 0]
Zero    == [hits |-> 0, misses |-> 0, saved |-> 0]

TypeOK ==
  /\ spc \in [Saves -> {"new", "hit", "counted", "done"}]
  /\ trace \in [Saves -> Traces]
  /\ hits \in Nat /\ misses \in Nat /\ saved \in Nat
  /\ traces \in Seq(Traces) /\ Len(traces) <= Cardinality(Saves)
  /\ rpc \in [Reads -> {"new", "hits", "misses", "done"}]
  /\ report \in [Reads -> [hits : Nat, misses : Nat, saved : Nat]]
  /\ snapshot \in Seq(Traces)

Init ==
  /\ spc = [s \in Saves |-> "new"]
  /\ trace = [s \in Saves |-> NoTrace]
  /\ hits = 0 /\ misses = 0 /\ saved = 0
  /\ traces = <<>>
  /\ rpc = [q \in Reads |-> "new"]
  /\ report = [q \in Reads |-> Zero]
  /\ snapshot = <<>>

------------------------------------------------------------------------------
\* Save.

SaveGoes(s, from, to) == spc[s] = from /\ spc' = [spc EXCEPT ![s] = to]

\* if trace.CacheHit: r.hits.Add(1)
CountHit(s) == \E g \in Savings :
  /\ SaveGoes(s, "new", "hit")
  /\ trace' = [trace EXCEPT ![s] = [hit |-> TRUE, saving |-> g]]
  /\ hits' = hits + 1
  /\ UNCHANGED <<misses, saved, traces, readVars, snapshot>>

\* uint64(trace.CO2Saved * 1_000_000)
MicrogramsRounded(g) == (g + Unit \div 2) \div Unit       \* mutant
Micrograms(g) == g \div Unit

AddSaving(s) ==
  /\ SaveGoes(s, "hit", "counted")
  /\ saved' = saved + Micrograms(trace[s].saving)
  /\ UNCHANGED <<trace, hits, misses, traces, readVars, snapshot>>

CountMiss(s) ==
  /\ SaveGoes(s, "new", "counted")
  /\ misses' = misses + 1
  /\ UNCHANGED <<trace, hits, saved, traces, readVars, snapshot>>

\* Mutant: without the mutex, two appends can write the same place of the slice.
AppendUnlocked(s) ==
  /\ SaveGoes(s, "counted", "done")
  /\ traces' \in {Append(before, trace[s]) :
                   before \in {traces, SubSeq(traces, 1, Len(traces) - 1)}}
  /\ UNCHANGED <<trace, hits, misses, saved, readVars, snapshot>>

\* Mutant: a hit is appended in its branch as well.
AppendHitTwice(s) ==
  /\ SaveGoes(s, "counted", "done")
  /\ traces' = traces \o IF trace[s].hit THEN <<trace[s], trace[s]>> ELSE <<trace[s]>>
  /\ UNCHANGED <<trace, hits, misses, saved, readVars, snapshot>>

\* The critical section of r.mu.
AppendTrace(s) ==
  /\ SaveGoes(s, "counted", "done")
  /\ traces' = Append(traces, trace[s])
  /\ UNCHANGED <<trace, hits, misses, saved, readVars, snapshot>>

Save(s) == CountHit(s) \/ AddSaving(s) \/ CountMiss(s) \/ AppendTrace(s)

------------------------------------------------------------------------------
\* Aggregates and Snapshot.

Load(q, from, to, field, value) ==
  /\ rpc[q] = from
  /\ rpc' = [rpc EXCEPT ![q] = to]
  /\ report' = [report EXCEPT ![q][field] = value]
  /\ UNCHANGED <<saveVars, snapshot>>

LoadHits(q)   == Load(q, "new", "hits", "hits", hits)
LoadMissesOfHits(q) == Load(q, "hits", "misses", "misses", hits)   \* mutant
LoadMisses(q) == Load(q, "hits", "misses", "misses", misses)
LoadSaved(q)  == Load(q, "misses", "done", "saved", saved)

Aggregates(q) == LoadHits(q) \/ LoadMisses(q) \/ LoadSaved(q)

\* The copy is made under the read lock.
Snapshot ==
  /\ snapshot # traces
  /\ snapshot' = traces
  /\ UNCHANGED <<saveVars, readVars>>

Finished ==
  /\ \A s \in Saves : spc[s] = "done"
  /\ \A q \in Reads : rpc[q] = "done"
  /\ UNCHANGED vars

Next ==
  \/ \E s \in Saves : Save(s)
  \/ \E q \in Reads : Aggregates(q)
  \/ Snapshot
  \/ Finished

Spec == Init /\ [][Next]_vars

------------------------------------------------------------------------------
(* Properties *)

In(places)  == {s \in Saves : spc[s] \in places}
HitsOf(set) == {s \in set : trace[s].hit}
SumOf(set)  == SumFunctionOnSet([s \in Saves |-> trace[s].saving], set)

\* The counters and the slice are updated apart, but they agree about every
\* Save that has returned, and differ by no more than the Saves under way: the
\* slice never knows of a trace that the counters do not.  (inmemory.go:29-42.)
CountersLeadTraces ==
  /\ hits + misses = Cardinality(In({"hit", "counted", "done"}))
  /\ Len(traces) = Cardinality(In({"done"}))
  /\ In({"hit", "counted"}) = {} =>
       hits = Cardinality({i \in 1..Len(traces) : traces[i].hit})

\* Truncation loses less than a microgram for each hit and never adds any.
\* (inmemory.go:33.)
TruncationBounded ==
  LET added == HitsOf(In({"counted", "done"}))
      exact == SumOf(added)
  IN  /\ saved * Unit <= exact
      /\ exact - saved * Unit <= Cardinality(added) * (Unit - 1)

\* A report may mix moments, but it never runs ahead: no field exceeds its counter,
\* so no report counts a request that has not been saved, nor more savings than
\* were added.  (Aggregates, inmemory.go:45-51.)
ReportBounded ==
  \A q \in Reads :
    rpc[q] = "done" =>
      /\ report[q].hits <= hits /\ report[q].misses <= misses /\ report[q].saved <= saved
      /\ report[q].hits + report[q].misses <= Cardinality(In({"hit", "counted", "done"}))
      /\ report[q].saved * Unit <= SumOf(HitsOf(In({"counted", "done"})))

\* What Snapshot returns only ever grows at its end: traces are neither lost nor
\* reordered by concurrent Saves.  (Save and Snapshot, inmemory.go:38-61.)
SnapshotsGrow ==
  [][/\ Len(snapshot) <= Len(snapshot')
     /\ SubSeq(snapshot', 1, Len(snapshot)) = snapshot]_snapshot

\* "Aggregates returns a read-consistent snapshot" (inmemory.go:44).  At no
\* moment does the repository hold a saving without a hit, since Save counts
\* the hit first; so no snapshot of it should show one.
AggregatesConsistent ==
  \A q \in Reads :
    rpc[q] = "done" => (report[q].hits = 0 => report[q].saved = 0)
==============================================================================
