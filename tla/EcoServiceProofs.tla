-------------------------- MODULE EcoServiceProofs --------------------------
(***************************************************************************)
(* Theorems about EcoRepository and about EcoAggregates and EcoService,    *)
(* which extend it, for any number of calls and Saves, any savings, Unit,  *)
(* times to live and bound on the clock.  First the repository alone: the  *)
(* counters, the slice and the reports agree as far as the module says,    *)
(* and it implements TraceStore.  Then the service runs the repository, so *)
(* that all of this holds in it too, and what its answers promise follows  *)
(* from what the cache can hold.                                           *)
(***************************************************************************)
EXTENDS EcoService, EcoAggregates, SumFacts

------------------------------------------------------------------------------
(* The inductive invariant. *)

Begun   == In({"hit", "counted", "done"})
Added   == HitsOf(In({"counted", "done"}))
HitsIn(q) == Cardinality({i \in 1..Len(q) : q[i].hit})

\* TypeOK but for the length of the slice, which Slice gives.
Typed ==
  /\ spc \in [Saves -> {"new", "hit", "counted", "done"}]
  /\ trace \in [Saves -> Traces]
  /\ hits \in Nat /\ misses \in Nat /\ saved \in Nat
  /\ traces \in Seq(Traces)
  /\ rpc \in [Reads -> {"new", "hits", "misses", "done"}]
  /\ report \in [Reads -> [hits : Nat, misses : Nat, saved : Nat]]
  /\ snapshot \in Seq(Traces)

\* A Save has its trace when it has begun, and takes the branch of it.
Branches == \A s \in Saves :
  /\ spc[s] = "new" => ~trace[s].hit
  /\ spc[s] = "hit" => trace[s].hit

Counters ==
  /\ hits = Cardinality(HitsOf(Begun))
  /\ misses = Cardinality(Begun \ HitsOf(Begun))

Slice ==
  /\ Len(traces) = Cardinality(In({"done"}))
  /\ HitsIn(traces) = Cardinality(HitsOf(In({"done"})))

Reports == \A q \in Reads :
  report[q].hits <= hits /\ report[q].misses <= misses /\ report[q].saved <= saved

Prefix(p, q) == Len(p) <= Len(q) /\ \A i \in 1..Len(p) : p[i] = q[i]

IInv ==
  /\ Typed /\ Branches /\ Counters /\ Slice /\ TruncationBounded /\ Reports
  /\ Prefix(snapshot, traces)

------------------------------------------------------------------------------
(* Sets of Saves, and sequences. *)

LEMMA FiniteSaves ==
  \A S \in SUBSET Saves : IsFiniteSet(S) /\ Cardinality(S) \in Nat
BY SavesAssumption, FS_Subset, FS_CardinalityType

LEMMA OneMore ==
  ASSUME NEW S \in SUBSET Saves, NEW s, s \notin S
  PROVE  Cardinality(S \cup {s}) = Cardinality(S) + 1
BY FiniteSaves, FS_AddElement

LEMMA Parts ==
  ASSUME NEW S \in SUBSET Saves, NEW T \in SUBSET S
  PROVE  Cardinality(S) = Cardinality(T) + Cardinality(S \ T)
<1>1. T \cap (S \ T) = {} /\ T \cup (S \ T) = S
  OBVIOUS
<1>2. IsFiniteSet(T) /\ IsFiniteSet(S \ T) /\ Cardinality(T) \in Nat
      /\ Cardinality(S \ T) \in Nat
  BY FiniteSaves
<1>. QED BY <1>1, <1>2, FS_Union, FS_EmptySet

LEMMA AppendHits ==
  ASSUME NEW q \in Seq(Traces), NEW e \in Traces
  PROVE  HitsIn(Append(q, e)) = HitsIn(q) + IF e.hit THEN 1 ELSE 0
<1>. DEFINE H == {i \in 1..Len(q) : q[i].hit}
            K == {i \in 1..Len(Append(q, e)) : Append(q, e)[i].hit}
<1>1. IsFiniteSet(H) /\ Cardinality(H) \in Nat
  <2>1. H \in SUBSET (1..Len(q)) /\ Len(q) \in Int
    OBVIOUS
  <2>. HIDE DEF H
  <2>2. IsFiniteSet(1..Len(q))
    BY <2>1, FS_Interval
  <2>. QED BY <2>1, <2>2, FS_Subset, FS_CardinalityType
<1>0. HitsIn(q) = Cardinality(H) /\ HitsIn(Append(q, e)) = Cardinality(K)
  BY DEF HitsIn
<1>2. CASE e.hit
  <2>1. K = H \cup {Len(q) + 1} /\ Len(q) + 1 \notin H
    BY <1>2
  <2>. HIDE DEF H, K
  <2>. QED BY <1>0, <1>1, <1>2, <2>1, FS_AddElement
<1>3. CASE ~e.hit
  <2>1. K = H
    BY <1>3
  <2>. HIDE DEF H, K
  <2>. QED BY <1>0, <1>1, <1>3, <2>1
<1>. QED BY <1>2, <1>3

LEMMA AppendPrefix ==
  ASSUME NEW p \in Seq(Traces), NEW q \in Seq(Traces), NEW e \in Traces, Prefix(p, q)
  PROVE  Prefix(p, Append(q, e))
BY DEF Prefix

\* The whole micrograms of a saving, and what the conversion drops.
LEMMA Truncated ==
  ASSUME NEW g \in Nat
  PROVE  /\ Micrograms(g) \in Nat
         /\ Micrograms(g) * Unit <= g /\ g - Micrograms(g) * Unit <= Unit - 1
BY UnitAssumption DEF Micrograms

LEMMA Distributes ==
  ASSUME NEW a \in Int, NEW b \in Int, NEW u \in Int
  PROVE  /\ (a + b) * u = a * u + b * u /\ (a + 1) * u = a * u + u
         /\ a * u \in Int
OBVIOUS

LEMMA SavingType == ASSUME Typed PROVE \A s \in Saves : trace[s].saving \in Nat
<1>. SUFFICES ASSUME NEW s \in Saves PROVE trace[s].saving \in Nat
  OBVIOUS
<1>1. trace[s] \in Traces
  BY DEF Typed
<1>2. trace[s].saving \in Savings \cup {0}
  BY <1>1 DEF Traces
<1>. DEFINE v == trace[s].saving
<1>. HIDE DEF v
<1>3. v \in Savings \cup {0}
  BY <1>2 DEF v
<1>4. v \in Nat
  BY <1>3, SavingsAssumption
<1>. QED BY <1>4 DEF v

LEMMA InitInv == Init => IInv
<1>. SUFFICES ASSUME Init PROVE IInv
  OBVIOUS
<1>1. Typed /\ Branches /\ Reports
  BY DEF Init, Typed, Branches, Reports, Traces, NoTrace, Zero
<1>2. Begun = {} /\ In({"done"}) = {} /\ Added = {}
  BY DEF Init, Begun, Added, In, HitsOf
<1>3. Counters
  BY <1>2, FS_EmptySet DEF Init, Counters, HitsOf
<1>4. Slice
  <2>1. {i \in 1..Len(traces) : traces[i].hit} = {}
    BY DEF Init
  <2>. QED BY <1>2, <2>1, FS_EmptySet DEF Init, Slice, HitsIn, HitsOf
<1>5. TruncationBounded
  <2>1. SumOf(Added) = 0 /\ Cardinality(Added) = 0
    BY <1>2, SumEmpty, FS_EmptySet DEF SumOf
  <2>. QED BY <2>1, UnitAssumption DEF Init, TruncationBounded, Added
<1>6. Prefix(snapshot, traces)
  BY DEF Init, Prefix
<1>. QED BY <1>1, <1>3, <1>4, <1>5, <1>6 DEF IInv

------------------------------------------------------------------------------
(* The steps of Save. *)

LEMMA CountHitInv == ASSUME IInv, NEW s \in Saves, CountHit(s) PROVE IInv'
<1>1. PICK g \in Savings :
        /\ spc[s] = "new" /\ spc' = [spc EXCEPT ![s] = "hit"]
        /\ trace' = [trace EXCEPT ![s] = [hit |-> TRUE, saving |-> g]]
        /\ hits' = hits + 1
        /\ UNCHANGED <<misses, saved, traces, readVars, snapshot>>
  BY DEF CountHit, SaveGoes
<1>. USE DEF IInv, Typed
<1>2. Typed' /\ Branches'
  BY <1>1, SavingsAssumption DEF Branches, Traces, readVars
<1>3. Counters'
  <2>1. /\ HitsOf(Begun)' = HitsOf(Begun) \cup {s} /\ s \notin HitsOf(Begun)
        /\ (Begun \ HitsOf(Begun))' = Begun \ HitsOf(Begun)
    BY <1>1 DEF Begun, In, HitsOf
  <2>2. Cardinality(HitsOf(Begun)') = Cardinality(HitsOf(Begun)) + 1
    BY <2>1, OneMore DEF HitsOf, Begun, In
  <2>. QED BY <1>1, <2>1, <2>2 DEF Counters
<1>4. Slice'
  <2>1. In({"done"})' = In({"done"}) /\ HitsOf(In({"done"}))' = HitsOf(In({"done"}))
    BY <1>1 DEF In, HitsOf
  <2>. QED BY <1>1, <2>1 DEF Slice, HitsIn
<1>5. TruncationBounded'
  <2>1. Added' = Added
    BY <1>1 DEF Added, In, HitsOf
  <2>2. SumOf(Added)' = SumOf(Added)
    <3>. DEFINE f == [r \in Saves |-> trace[r].saving]
                h == [r \in Saves |-> trace'[r].saving]
    <3>1. \A r \in Added : f[r] = h[r]
      BY <1>1 DEF Added, In, HitsOf
    <3>2. IsFiniteSet(Added)
      BY FiniteSaves DEF Added, In, HitsOf
    <3>. HIDE DEF f, h
    <3>3. SumFunctionOnSet(f, Added) = SumFunctionOnSet(h, Added)
      BY <3>1, <3>2, SumSame
    <3>. QED BY <2>1, <3>3 DEF SumOf, f, h
  <2>. QED BY <1>1, <2>1, <2>2 DEF TruncationBounded, Added
<1>6. Reports' /\ Prefix(snapshot, traces)'
  BY <1>1 DEF Reports, readVars, Prefix
<1>. QED BY <1>2, <1>3, <1>4, <1>5, <1>6

LEMMA CountMissInv == ASSUME IInv, NEW s \in Saves, CountMiss(s) PROVE IInv'
<1>. USE DEF IInv, Typed, CountMiss, SaveGoes
<1>2. Typed' /\ Branches'
  BY DEF Branches, readVars
<1>3. Counters'
  <2>1. /\ (Begun \ HitsOf(Begun))' = (Begun \ HitsOf(Begun)) \cup {s}
        /\ s \notin Begun \ HitsOf(Begun) /\ HitsOf(Begun)' = HitsOf(Begun)
    BY DEF Begun, In, HitsOf, Branches
  <2>2. Cardinality((Begun \ HitsOf(Begun))') = Cardinality(Begun \ HitsOf(Begun)) + 1
    BY <2>1, OneMore DEF Begun, In
  <2>. QED BY <2>1, <2>2 DEF Counters
<1>4. In({"done"})' = In({"done"}) /\ HitsOf(In({"done"}))' = HitsOf(In({"done"}))
  BY DEF In, HitsOf
<1>5. Slice'
  BY <1>4 DEF Slice, HitsIn
<1>6. Added' = Added /\ SumOf(Added)' = SumOf(Added)
  BY DEF Added, In, HitsOf, Branches, SumOf
<1>7. TruncationBounded'
  BY <1>6 DEF TruncationBounded, Added
<1>8. Reports' /\ Prefix(snapshot, traces)'
  BY DEF Reports, readVars, Prefix
<1>. QED BY <1>2, <1>3, <1>5, <1>7, <1>8

LEMMA AddSavingInv == ASSUME IInv, NEW s \in Saves, AddSaving(s) PROVE IInv'
<1>. USE DEF IInv, Typed, AddSaving, SaveGoes
<1>. DEFINE g == trace[s].saving
<1>1. g \in Nat
  BY SavingType
<1>2. saved' = saved + Micrograms(g) /\ Micrograms(g) \in Nat
  BY <1>1, Truncated
<1>3. Typed' /\ Branches'
  BY <1>2 DEF Branches, readVars
<1>4. /\ HitsOf(Begun)' = HitsOf(Begun) /\ Begun' = Begun
      /\ In({"done"})' = In({"done"}) /\ HitsOf(In({"done"}))' = HitsOf(In({"done"}))
  BY DEF Begun, In, HitsOf
<1>5. Counters' /\ Slice'
  BY <1>4 DEF Counters, Slice, HitsIn
<1>6. TruncationBounded'
  <2>. DEFINE f == [r \in Saves |-> trace[r].saving]
  <2>1. Added' = Added \cup {s} /\ s \notin Added /\ f[s] = g /\ Added \in SUBSET Saves
    BY DEF Added, In, HitsOf, Branches
  <2>2. Cardinality(Added') = Cardinality(Added) + 1 /\ Cardinality(Added) \in Nat
    BY <2>1, OneMore, FiniteSaves
  <2>3. \A r \in Saves : f[r] \in Int
    BY SavingType
  <2>4. SumOf(Added) = SumFunctionOnSet(f, Added)
        /\ SumOf(Added)' = SumFunctionOnSet(f, Added')
    BY DEF SumOf
  <2>. HIDE DEF f
  <2>5. SumFunctionOnSet(f, Added') = f[s] + SumFunctionOnSet(f, Added)
        /\ SumFunctionOnSet(f, Added) \in Int
    BY <2>1, <2>3, FiniteSaves, SumAdd, SumType
  <2>. DEFINE old == SumOf(Added)
              n   == Cardinality(Added)
              m   == Micrograms(g)
  <2>6. SumOf(Added)' = g + old /\ old \in Int /\ n \in Nat /\ m \in Nat
        /\ Cardinality(Added') = n + 1 /\ saved' = saved + m
    BY <1>2, <2>1, <2>2, <2>4, <2>5
  <2>7. saved * Unit <= old /\ old - saved * Unit <= n * (Unit - 1)
    BY DEF TruncationBounded, Added
  <2>8. m * Unit <= g /\ g - m * Unit <= Unit - 1
    BY <1>1, Truncated
  <2>9. /\ saved' * Unit <= SumOf(Added)'
        /\ SumOf(Added)' - saved' * Unit <= Cardinality(Added') * (Unit - 1)
    <3>1. saved' * Unit = saved * Unit + m * Unit
          /\ (n + 1) * (Unit - 1) = n * (Unit - 1) + (Unit - 1)
      <4>. HIDE DEF m, n
      <4>1. saved \in Int /\ m \in Int /\ n \in Int /\ Unit \in Int /\ Unit - 1 \in Int
        BY <2>6, UnitAssumption
      <4>2. (saved + m) * Unit = saved * Unit + m * Unit
        <5>. DEFINE x == saved
        <5>. HIDE DEF x
        <5>1. x \in Int
          BY <4>1 DEF x
        <5>2. (x + m) * Unit = x * Unit + m * Unit
          BY <4>1, <5>1, Distributes
        <5>. QED BY <5>2 DEF x
      <4>3. (n + 1) * (Unit - 1) = n * (Unit - 1) + (Unit - 1)
        BY ONLY <4>1, Distributes, Zenon
      <4>. QED BY <2>6, <4>2, <4>3
    <3>2. saved * Unit \in Int /\ m * Unit \in Int /\ n * (Unit - 1) \in Int
      <4>. HIDE DEF m, n
      <4>1. saved \in Int /\ m \in Int /\ n \in Int /\ Unit \in Int /\ Unit - 1 \in Int
        BY <2>6, UnitAssumption
      <4>. QED BY <4>1, Distributes
    <3>. HIDE DEF m, n, old, g
    <3>. QED BY <1>1, <2>6, <2>7, <2>8, <3>1, <3>2, UnitAssumption
  <2>. QED BY <2>9 DEF TruncationBounded, Added
<1>7. Reports' /\ Prefix(snapshot, traces)'
  BY <1>2 DEF Reports, readVars, Prefix
<1>. QED BY <1>3, <1>5, <1>6, <1>7

LEMMA AppendTraceInv == ASSUME IInv, NEW s \in Saves, AppendTrace(s) PROVE IInv'
<1>. USE DEF IInv, Typed, AppendTrace, SaveGoes
<1>1. trace[s] \in Traces
  OBVIOUS
<1>2. Typed' /\ Branches'
  BY DEF Branches, readVars
<1>3. /\ HitsOf(Begun)' = HitsOf(Begun) /\ Begun' = Begun
      /\ Added' = Added /\ SumOf(Added)' = SumOf(Added)
  BY DEF Begun, Added, In, HitsOf, SumOf
<1>4. Counters'
  BY <1>3 DEF Counters
<1>5. TruncationBounded'
  BY <1>3 DEF TruncationBounded, Added
<1>6. Slice'
  <2>1. In({"done"})' = In({"done"}) \cup {s} /\ s \notin In({"done"})
    BY DEF In
  <2>2. Len(traces') = Cardinality(In({"done"})')
    <3>1. Cardinality(In({"done"})') = Cardinality(In({"done"})) + 1
      BY <2>1, OneMore DEF In
    <3>2. Len(traces') = Len(traces) + 1
      OBVIOUS
    <3>. QED BY <3>1, <3>2 DEF Slice
  <2>3. HitsIn(traces)' = HitsIn(traces) + IF trace[s].hit THEN 1 ELSE 0
    <3>1. HitsIn(traces)' = HitsIn(Append(traces, trace[s]))
      BY DEF HitsIn
    <3>. QED BY <1>1, <3>1, AppendHits
  <2>4. CASE trace[s].hit
    <3>1. HitsOf(In({"done"}))' = HitsOf(In({"done"})) \cup {s}
          /\ s \notin HitsOf(In({"done"}))
      BY <2>4 DEF In, HitsOf
    <3>2. Cardinality(HitsOf(In({"done"}))') = Cardinality(HitsOf(In({"done"}))) + 1
      BY <3>1, OneMore DEF HitsOf, In
    <3>. QED BY <2>2, <2>3, <2>4, <3>2 DEF Slice
  <2>5. CASE ~trace[s].hit
    <3>1. HitsOf(In({"done"}))' = HitsOf(In({"done"}))
      BY <2>5 DEF In, HitsOf
    <3>2. HitsIn(traces) \in Nat
      BY FiniteSaves DEF Slice, HitsOf, In
    <3>. QED BY <2>2, <2>3, <2>5, <3>1, <3>2 DEF Slice
  <2>. QED BY <2>4, <2>5
<1>7. Prefix(snapshot, traces)'
  BY <1>1, AppendPrefix
<1>8. Reports'
  BY DEF Reports, readVars
<1>. QED BY <1>2, <1>4, <1>5, <1>6, <1>7, <1>8

------------------------------------------------------------------------------
(* Aggregates, Snapshot and the theorems. *)

LEMMA AggregatesInv == ASSUME IInv, NEW q \in Reads, Aggregates(q) PROVE IInv'
<1>1. UNCHANGED <<saveVars, snapshot>>
  BY DEF Aggregates, LoadHits, LoadMisses, LoadSaved, Load
<1>2. Typed'
  <2>1. CASE LoadHits(q)
    BY <2>1 DEF IInv, Typed, LoadHits, Load, saveVars
  <2>2. CASE LoadMisses(q)
    BY <2>2 DEF IInv, Typed, LoadMisses, Load, saveVars
  <2>3. CASE LoadSaved(q)
    BY <2>3 DEF IInv, Typed, LoadSaved, Load, saveVars
  <2>. QED BY <2>1, <2>2, <2>3 DEF Aggregates
<1>3. Reports'
  <2>. USE <1>1 DEF IInv, Typed, Reports, Load, saveVars
  <2>1. CASE LoadHits(q)
    BY <2>1 DEF LoadHits
  <2>2. CASE LoadMisses(q)
    BY <2>2 DEF LoadMisses
  <2>3. CASE LoadSaved(q)
    BY <2>3 DEF LoadSaved
  <2>. QED BY <2>1, <2>2, <2>3 DEF Aggregates
<1>4. Branches' /\ Counters' /\ Slice' /\ TruncationBounded' /\ Prefix(snapshot, traces)'
  BY <1>1 DEF IInv, Branches, Counters, Slice, HitsIn, TruncationBounded, Prefix, Begun,
     In, HitsOf, SumOf, saveVars
<1>. QED BY <1>2, <1>3, <1>4 DEF IInv

LEMMA SnapshotInv == ASSUME IInv, Snapshot PROVE IInv'
<1>1. snapshot' = traces /\ UNCHANGED <<saveVars, readVars>>
  BY DEF Snapshot
<1>2. Typed' /\ Branches' /\ Reports'
  BY <1>1 DEF IInv, Typed, Branches, Reports, saveVars, readVars
<1>3. Counters' /\ Slice' /\ TruncationBounded'
  BY <1>1 DEF IInv, Counters, Slice, HitsIn, TruncationBounded, Begun, In, HitsOf, SumOf,
     saveVars
<1>4. Prefix(snapshot, traces)'
  BY <1>1 DEF IInv, Typed, Prefix, saveVars
<1>. QED BY <1>2, <1>3, <1>4 DEF IInv

LEMMA StutterInv == ASSUME IInv, UNCHANGED vars PROVE IInv'
BY DEF IInv, Typed, Branches, Counters, Slice, HitsIn, TruncationBounded, Reports,
   Prefix, Begun, In, HitsOf, SumOf, vars, saveVars, readVars

LEMMA NextInv == IInv /\ [Next]_vars => IInv'
BY CountHitInv, CountMissInv, AddSavingInv, AppendTraceInv, AggregatesInv, SnapshotInv,
   StutterInv DEF Next, Save, Finished

THEOREM Invariance == Spec => []IInv
BY InitInv, NextInv, PTL DEF Spec

\* Every variable keeps its type, and the slice holds one trace per Save at most.
THEOREM TypeCorrectness == Spec => []TypeOK
<1>1. ASSUME IInv PROVE TypeOK
  <2>1. Cardinality(In({"done"})) <= Cardinality(Saves)
    BY SavesAssumption, FS_Subset DEF In
  <2>. QED BY <1>1, <2>1 DEF IInv, Typed, TypeOK, Slice
<1>. QED BY <1>1, Invariance, PTL

\* The counters and the slice agree about every Save that has returned, however
\* many run at once (inmemory.go:29-42).
THEOREM CountersLead == Spec => []CountersLeadTraces
<1>1. ASSUME IInv PROVE CountersLeadTraces
  <2>. USE <1>1 DEF IInv
  <2>1. hits + misses = Cardinality(Begun)
    <3>1. HitsOf(Begun) \in SUBSET Begun /\ Begun \in SUBSET Saves
      BY DEF HitsOf, Begun, In
    <3>. QED BY <3>1, Parts DEF Counters
  <2>2. ASSUME In({"hit", "counted"}) = {}
        PROVE  hits = Cardinality({i \in 1..Len(traces) : traces[i].hit})
    <3>1. Begun = In({"done"})
      BY <2>2 DEF Begun, In
    <3>. QED BY <3>1 DEF Counters, Slice, HitsIn
  <2>. QED BY <2>1, <2>2 DEF CountersLeadTraces, Slice, Begun
<1>. QED BY <1>1, Invariance, PTL

\* The truncation in Save loses less than a microgram for each hit and never adds
\* any, for any number of hits (inmemory.go:33).
THEOREM TruncationIsBounded == Spec => []TruncationBounded
<1>1. IInv => TruncationBounded
  BY DEF IInv
<1>. QED BY <1>1, Invariance, PTL

LEMMA TimesUnit ==
  ASSUME NEW a \in Nat, NEW b \in Nat, a <= b, NEW u \in Nat
  PROVE  a * u <= b * u /\ a * u \in Nat /\ b * u \in Nat
<1>1. PICK d \in Nat : b = a + d
  <2>1. b - a \in Nat /\ b = a + (b - a)
    OBVIOUS
  <2>. QED BY <2>1
<1>2. b * u = a * u + d * u /\ a * u \in Nat /\ d * u \in Nat
  BY <1>1
<1>. QED BY <1>2

\* A report of Aggregates never counts a request that has not been saved, nor a
\* saving that was not made, whatever it overlaps with (inmemory.go:45-51).
THEOREM ReportsAreBounded == Spec => []ReportBounded
<1>1. ASSUME IInv, CountersLeadTraces PROVE ReportBounded
  <2>1. SUFFICES ASSUME NEW q \in Reads
        PROVE  /\ report[q].hits <= hits /\ report[q].misses <= misses
               /\ report[q].saved <= saved
               /\ report[q].hits + report[q].misses <=
                    Cardinality(In({"hit", "counted", "done"}))
               /\ report[q].saved * Unit <= SumOf(HitsOf(In({"counted", "done"})))
    BY DEF ReportBounded
  <2>2. /\ report[q].hits <= hits /\ report[q].misses <= misses
        /\ report[q].saved <= saved
        /\ report[q].hits \in Nat /\ report[q].misses \in Nat /\ report[q].saved \in Nat
        /\ hits \in Nat /\ misses \in Nat /\ saved \in Nat
    BY <1>1 DEF IInv, Typed, Reports
  <2>3. hits + misses = Cardinality(In({"hit", "counted", "done"}))
    BY <1>1 DEF CountersLeadTraces
  <2>. DEFINE mine == report[q].saved
              all  == SumOf(HitsOf(In({"counted", "done"})))
  <2>4. mine * Unit <= saved * Unit /\ mine * Unit \in Nat /\ saved * Unit \in Nat
    <3>1. Unit \in Nat /\ mine \in Nat /\ saved \in Nat /\ mine <= saved
      BY <2>2, UnitAssumption
    <3>. HIDE DEF mine
    <3>. QED BY <3>1, TimesUnit
  <2>5. saved * Unit <= all
    BY <1>1 DEF IInv, TruncationBounded
  <2>6. all \in Int
    <3>. DEFINE f == [s \in Saves |-> trace[s].saving]
                A == HitsOf(In({"counted", "done"}))
    <3>1. A \in SUBSET Saves /\ \A s \in A : f[s] \in Int
      BY <1>1, SavingType DEF IInv, HitsOf, In
    <3>2. all = SumFunctionOnSet(f, A)
      BY DEF SumOf
    <3>. HIDE DEF f, A, all
    <3>. QED BY <3>1, <3>2, FiniteSaves, SumType
  <2>7. mine * Unit <= all
    <3>. HIDE DEF mine, all
    <3>. QED BY <2>4, <2>5, <2>6
  <2>. QED BY <2>2, <2>3, <2>7
<1>. QED BY <1>1, Invariance, CountersLead, PTL

\* What Snapshot returns is always a continuation of what it returned before
\* (inmemory.go:38-61).
THEOREM SnapshotsOnlyGrow == Spec => SnapshotsGrow
<1>1. ASSUME IInv, [Next]_vars
      PROVE  [/\ Len(snapshot) <= Len(snapshot')
              /\ SubSeq(snapshot', 1, Len(snapshot)) = snapshot]_snapshot
  <2>1. CASE UNCHANGED snapshot
    BY <2>1
  <2>2. CASE Snapshot
    <3>1. snapshot' = traces /\ Len(snapshot) <= Len(traces)
          /\ \A i \in 1..Len(snapshot) : snapshot[i] = traces[i]
      BY <1>1, <2>2 DEF Snapshot, IInv, Prefix
    <3>2. snapshot \in Seq(Traces) /\ traces \in Seq(Traces)
      BY <1>1 DEF IInv, Typed
    <3>3. SubSeq(traces, 1, Len(snapshot)) = snapshot
      BY <3>1, <3>2
    <3>. QED BY <3>1, <3>3
  <2>. QED BY <1>1, <2>1, <2>2 DEF Next, Save, CountHit, AddSaving, CountMiss, AppendTrace,
         Aggregates, LoadHits, LoadMisses, LoadSaved, Load, Finished, vars
<1>. QED BY <1>1, Invariance, PTL DEF Spec, SnapshotsGrow

------------------------------------------------------------------------------
(* The repository keeps the promises of TraceStore. *)

\* What Save adds to saved.
Micros == [s \in Saves |-> Micrograms(trace[s].saving)]

\* saved is exactly the whole micrograms of the hits that are past their addition.
SavedExactly == saved = SumFunctionOnSet(Micros, Added)

\* What the slice held when an Aggregates began is in the counters, and in what
\* it has loaded of them.
LeastReported ==
  /\ least \in [Reads -> [hits : Nat, misses : Nat, saved : Nat]]
  /\ \A q \in Reads :
       /\ least[q].misses <= misses /\ least[q].saved <= saved
       /\ rpc[q] # "new" => least[q].hits <= report[q].hits
       /\ rpc[q] \in {"misses", "done"} => least[q].misses <= report[q].misses
       /\ rpc[q] = "done" => least[q].saved <= report[q].saved

HInv == IInv /\ SavedExactly /\ LeastReported

LEMMA MicrosType ==
  ASSUME Typed
  PROVE  /\ \A s \in Saves : Micros[s] \in Nat
         /\ \A S \in SUBSET Saves : SumFunctionOnSet(Micros, S) \in Nat
<1>1. \A s \in Saves : Micros[s] \in Nat
  BY SavingType, Truncated DEF Micros
<1>2. ASSUME NEW S \in SUBSET Saves PROVE SumFunctionOnSet(Micros, S) \in Nat
  <2>1. IsFiniteSet(S) /\ \A s \in S : Micros[s] \in Int /\ Micros[s] >= 0
    BY <1>1, FiniteSaves
  <2>. HIDE DEF Micros
  <2>2. SumFunctionOnSet(Micros, S) \in Int /\ SumFunctionOnSet(Micros, S) >= 0
    BY <2>1, SumType
  <2>. QED BY <2>2
<1>. QED BY <1>1, <1>2

LEMMA MoreMicros ==
  ASSUME Typed, NEW S \in SUBSET Saves, NEW R \in SUBSET S
  PROVE  SumFunctionOnSet(Micros, R) <= SumFunctionOnSet(Micros, S)
<1>1. IsFiniteSet(S) /\ \A s \in S : Micros[s] \in Nat
  BY MicrosType, FiniteSaves
<1>. HIDE DEF Micros
<1>. QED BY <1>1, SumMonotonic

LEMMA SavedNext ==
  ASSUME IInv, SavedExactly, [Next]_vars PROVE SavedExactly'
<1>. USE DEF IInv, Typed
<1>1. ASSUME NEW s \in Saves, CountHit(s) PROVE SavedExactly'
  <2>1. PICK g \in Savings :
          /\ spc[s] = "new" /\ spc' = [spc EXCEPT ![s] = "hit"]
          /\ trace' = [trace EXCEPT ![s] = [hit |-> TRUE, saving |-> g]]
          /\ saved' = saved
    BY <1>1 DEF CountHit, SaveGoes
  <2>2. Added' = Added /\ s \notin Added /\ Added \in SUBSET Saves
    BY <2>1 DEF Added, In, HitsOf
  <2>. DEFINE f == Micros
              h == Micros'
  <2>3. \A r \in Added : f[r] = h[r]
    BY <2>1, <2>2 DEF Micros
  <2>4. IsFiniteSet(Added)
    BY <2>2, FiniteSaves
  <2>. HIDE DEF f, h
  <2>5. SumFunctionOnSet(f, Added) = SumFunctionOnSet(h, Added)
    BY <2>3, <2>4, SumSame
  <2>. QED BY <2>1, <2>2, <2>5 DEF SavedExactly, f, h
<1>2. ASSUME NEW s \in Saves, AddSaving(s) PROVE SavedExactly'
  <2>1. /\ saved' = saved + Micros[s] /\ Micros' = Micros
    BY <1>2 DEF AddSaving, Micros
  <2>2. Added' = Added \cup {s} /\ s \notin Added /\ Added \in SUBSET Saves
    BY <1>2 DEF AddSaving, SaveGoes, Added, In, HitsOf, Branches
  <2>3. IsFiniteSet(Added) /\ \A r \in Added \cup {s} : Micros[r] \in Int
    BY <2>2, FiniteSaves, MicrosType
  <2>4. SumFunctionOnSet(Micros, Added \cup {s}) = Micros[s] + SumFunctionOnSet(Micros, Added)
    <3>. HIDE DEF Micros
    <3>. QED BY <2>2, <2>3, SumAdd
  <2>5. SumFunctionOnSet(Micros, Added) \in Int /\ Micros[s] \in Int
    BY <2>2, <2>3, MicrosType
  <2>. QED BY <2>1, <2>2, <2>4, <2>5 DEF SavedExactly
<1>3. ASSUME UNCHANGED <<saved, Added, trace>> PROVE SavedExactly'
  BY <1>3 DEF SavedExactly, Micros
<1>4. ASSUME NEW s \in Saves, CountMiss(s) \/ AppendTrace(s)
      PROVE  UNCHANGED <<saved, Added, trace>>
  BY <1>4 DEF CountMiss, AppendTrace, SaveGoes, Added, In, HitsOf, Branches
<1>5. ASSUME NEW q \in Reads, Aggregates(q) PROVE UNCHANGED <<saved, Added, trace>>
  BY <1>5 DEF Aggregates, LoadHits, LoadMisses, LoadSaved, Load, saveVars, Added, In, HitsOf
<1>6. CASE Snapshot \/ Finished \/ UNCHANGED vars
  BY <1>6 DEF Snapshot, Finished, vars, saveVars, SavedExactly, Micros, Added, In, HitsOf
<1>. QED BY <1>1, <1>2, <1>3, <1>4, <1>5, <1>6 DEF Next, Save

\* The slice holds no more than the counters count, and they count no more than
\* the Saves have brought.
LEMMA InTheCounters ==
  ASSUME IInv, SavedExactly
  PROVE  /\ InSlice \in [hits : Nat, misses : Nat, saved : Nat]
         /\ InSlice.hits <= hits /\ InSlice.misses <= misses /\ InSlice.saved <= saved
         /\ hits = Totals(Begun).hits /\ misses = Totals(Begun).misses
         /\ saved <= Totals(Begun).saved
         /\ Totals(Begun) \in [hits : Nat, misses : Nat, saved : Nat]
<1>. DEFINE D == In({"done"})
<1>0. Typed
  BY DEF IInv
<1>1. /\ D \subseteq Begun /\ HitsOf(D) \subseteq HitsOf(Begun)
      /\ D \ HitsOf(D) \subseteq Begun \ HitsOf(Begun)
      /\ HitsOf(D) \subseteq Added /\ Added \subseteq HitsOf(Begun)
      /\ Begun \in SUBSET Saves /\ HitsOf(Begun) \in SUBSET Saves /\ Added \in SUBSET Saves
      /\ D \in SUBSET Saves /\ HitsOf(D) \in SUBSET Saves
  BY DEF Begun, Added, In, HitsOf
<1>. HIDE DEF D
<1>2. /\ Cardinality(HitsOf(D)) <= Cardinality(HitsOf(Begun))
      /\ Cardinality(D \ HitsOf(D)) <= Cardinality(Begun \ HitsOf(Begun))
      /\ Cardinality(HitsOf(D)) \in Nat /\ Cardinality(D \ HitsOf(D)) \in Nat
      /\ Cardinality(HitsOf(Begun)) \in Nat /\ Cardinality(Begun \ HitsOf(Begun)) \in Nat
  <2>1. Begun \ HitsOf(Begun) \in SUBSET Saves /\ D \ HitsOf(D) \in SUBSET Saves
    BY <1>1
  <2>2. \A S, T \in SUBSET Saves : S \subseteq T => Cardinality(S) <= Cardinality(T)
    BY FiniteSaves, FS_Subset
  <2>. QED BY ONLY <1>1, <2>1, <2>2, FiniteSaves
<1>3. /\ SumFunctionOnSet(Micros, HitsOf(D)) <= SumFunctionOnSet(Micros, Added)
      /\ SumFunctionOnSet(Micros, Added) <= SumFunctionOnSet(Micros, HitsOf(Begun))
      /\ SumFunctionOnSet(Micros, HitsOf(D)) \in Nat
      /\ SumFunctionOnSet(Micros, HitsOf(Begun)) \in Nat
  BY <1>0, <1>1, MoreMicros, MicrosType
<1>4. /\ InSlice = [hits   |-> Cardinality(HitsOf(D)),
                    misses |-> Cardinality(D \ HitsOf(D)),
                    saved  |-> SumFunctionOnSet(Micros, HitsOf(D))]
      /\ Totals(Begun) = [hits   |-> Cardinality(HitsOf(Begun)),
                          misses |-> Cardinality(Begun \ HitsOf(Begun)),
                          saved  |-> SumFunctionOnSet(Micros, HitsOf(Begun))]
  BY DEF InSlice, Totals, Micros, D
<1>5. hits = Cardinality(HitsOf(Begun)) /\ misses = Cardinality(Begun \ HitsOf(Begun))
  BY DEF IInv, Counters
<1>6. saved = SumFunctionOnSet(Micros, Added)
  BY DEF SavedExactly
<1>. QED BY ONLY <1>2, <1>3, <1>4, <1>5, <1>6

LEMMA HistoryInitInv == HistoryInit => HInv
<1>. SUFFICES ASSUME HistoryInit PROVE HInv
  OBVIOUS
<1>1. IInv
  BY InitInv DEF HistoryInit
<1>2. SavedExactly
  <2>1. Added = {} /\ saved = 0
    BY DEF HistoryInit, Init, Added, In, HitsOf
  <2>2. SumFunctionOnSet(Micros, {}) = 0
    <3>. HIDE DEF Micros
    <3>. QED BY SumEmpty
  <2>. QED BY <2>1, <2>2 DEF SavedExactly
<1>3. LeastReported
  BY DEF HistoryInit, Init, Zero, LeastReported
<1>. QED BY <1>1, <1>2, <1>3 DEF HInv

LEMMA HistoryRuns == [HistoryNext]_historyVars => [Next]_vars
BY DEF HistoryNext, historyVars, Next, Aggregates

\* The counters never fall.
LEMMA CountersGrow ==
  ASSUME IInv, [Next]_vars
  PROVE  hits <= hits' /\ misses <= misses' /\ saved <= saved'
<1>. USE DEF IInv, Typed
<1>1. ASSUME NEW s \in Saves, CountHit(s) PROVE hits <= hits' /\ misses <= misses' /\ saved <= saved'
  BY <1>1 DEF CountHit
<1>2. ASSUME NEW s \in Saves, CountMiss(s) PROVE hits <= hits' /\ misses <= misses' /\ saved <= saved'
  BY <1>2 DEF CountMiss
<1>3. ASSUME NEW s \in Saves, AddSaving(s) PROVE hits <= hits' /\ misses <= misses' /\ saved <= saved'
  <2>1. Micros[s] \in Nat /\ Micros[s] = Micrograms(trace[s].saving)
    BY MicrosType DEF Micros
  <2>. QED BY <1>3, <2>1 DEF AddSaving
<1>4. ASSUME NEW s \in Saves, AppendTrace(s) PROVE hits <= hits' /\ misses <= misses' /\ saved <= saved'
  BY <1>4 DEF AppendTrace
<1>5. CASE UNCHANGED saveVars
  BY <1>5 DEF saveVars
<1>6. ASSUME NEW q \in Reads, Aggregates(q) PROVE UNCHANGED saveVars
  BY <1>6 DEF Aggregates, LoadHits, LoadMisses, LoadSaved, Load
<1>7. CASE Snapshot \/ Finished \/ UNCHANGED vars
  BY <1>7 DEF Snapshot, Finished, vars, saveVars
<1>. QED BY <1>1, <1>2, <1>3, <1>4, <1>5, <1>6, <1>7 DEF Next, Save

LEMMA LeastNext ==
  ASSUME HInv, [HistoryNext]_historyVars PROVE LeastReported'
<1>. USE DEF HInv, LeastReported
<1>1. Typed /\ [Next]_vars
  BY HistoryRuns DEF IInv
<1>2. /\ hits <= hits' /\ misses <= misses' /\ saved <= saved'
      /\ hits \in Nat /\ misses \in Nat /\ saved \in Nat
      /\ hits' \in Nat /\ misses' \in Nat /\ saved' \in Nat
  BY <1>1, NextInv, CountersGrow DEF IInv, Typed
<1>3. ASSUME UNCHANGED <<rpc, report, least>> PROVE LeastReported'
  BY <1>2, <1>3
<1>4. ASSUME NEW q \in Reads, LoadHits(q), Remember(q) PROVE LeastReported'
  <2>1. /\ InSlice \in [hits : Nat, misses : Nat, saved : Nat]
        /\ InSlice.hits <= hits /\ InSlice.misses <= misses /\ InSlice.saved <= saved
    BY InTheCounters
  <2>2. /\ rpc[q] = "new" /\ rpc' = [rpc EXCEPT ![q] = "hits"]
        /\ report' = [report EXCEPT ![q].hits = hits]
        /\ least' = [least EXCEPT ![q] = InSlice]
        /\ misses' = misses /\ saved' = saved
    BY <1>4 DEF LoadHits, Load, Remember, saveVars
  <2>3. least' \in [Reads -> [hits : Nat, misses : Nat, saved : Nat]]
    BY <2>1, <2>2
  <2>4. ASSUME NEW r \in Reads, r # q
        PROVE  rpc'[r] = rpc[r] /\ report'[r] = report[r] /\ least'[r] = least[r]
    BY <1>1, <2>2, <2>4 DEF Typed
  <2>5. rpc'[q] = "hits" /\ report'[q].hits = hits /\ least'[q] = InSlice
    BY <1>1, <2>2 DEF Typed
  <2>. QED BY <2>1, <2>2, <2>3, <2>4, <2>5
<1>5. ASSUME NEW q \in Reads, LoadMisses(q), UNCHANGED least PROVE LeastReported'
  <2>1. /\ rpc[q] = "hits" /\ rpc' = [rpc EXCEPT ![q] = "misses"]
        /\ report' = [report EXCEPT ![q].misses = misses]
        /\ misses' = misses /\ saved' = saved /\ least' = least
    BY <1>5 DEF LoadMisses, Load, saveVars
  <2>2. ASSUME NEW r \in Reads, r # q PROVE rpc'[r] = rpc[r] /\ report'[r] = report[r]
    BY <1>1, <2>1, <2>2 DEF Typed
  <2>3. rpc'[q] = "misses" /\ report'[q].misses = misses /\ report'[q].hits = report[q].hits
    BY <1>1, <2>1 DEF Typed
  <2>. QED BY <2>1, <2>2, <2>3
<1>6. ASSUME NEW q \in Reads, LoadSaved(q), UNCHANGED least PROVE LeastReported'
  <2>1. /\ rpc[q] = "misses" /\ rpc' = [rpc EXCEPT ![q] = "done"]
        /\ report' = [report EXCEPT ![q].saved = saved]
        /\ misses' = misses /\ saved' = saved /\ least' = least
    BY <1>6 DEF LoadSaved, Load, saveVars
  <2>2. ASSUME NEW r \in Reads, r # q PROVE rpc'[r] = rpc[r] /\ report'[r] = report[r]
    BY <1>1, <2>1, <2>2 DEF Typed
  <2>3. /\ rpc'[q] = "done" /\ report'[q].saved = saved
        /\ report'[q].hits = report[q].hits /\ report'[q].misses = report[q].misses
    BY <1>1, <2>1 DEF Typed
  <2>. QED BY <2>1, <2>2, <2>3
<1>7. ASSUME NEW s \in Saves, Save(s), UNCHANGED least PROVE UNCHANGED <<rpc, report, least>>
  BY <1>7 DEF Save, CountHit, AddSaving, CountMiss, AppendTrace, readVars
<1>8. ASSUME (Snapshot \/ Finished) /\ UNCHANGED least PROVE UNCHANGED <<rpc, report, least>>
  BY <1>8 DEF Snapshot, Finished, vars, readVars
<1>9. CASE UNCHANGED historyVars
  BY <1>3, <1>9 DEF historyVars, vars, readVars
<1>. QED BY <1>3, <1>4, <1>5, <1>6, <1>7, <1>8, <1>9 DEF HistoryNext

LEMMA HistoryInv == HInv /\ [HistoryNext]_historyVars => HInv'
BY HistoryRuns, NextInv, SavedNext, LeastNext DEF HInv

THEOREM HistoryInvariance == HistorySpec => []HInv
BY HistoryInitInv, HistoryInv, PTL DEF HistorySpec

LEMMA StoreInit == HistoryInit => Promised!Init
BY DEF HistoryInit, Init, NoTrace, Zero, Promised!Init, Promised!Zero, SaveStage, ReadStage, Told

\* The two add up alike.
LEMMA SameTotals ==
  ASSUME Typed
  PROVE  /\ \A S : Totals(S) = Promised!Totals(S)
         /\ Promised!Stored = In({"done"}) /\ Promised!Begun = Begun
<1>1. ASSUME NEW S PROVE Totals(S) = Promised!Totals(S)
  <2>1. ASSUME NEW R PROVE Promised!Cardinality(R) = Cardinality(R)
    BY DEF Cardinality, Promised!Cardinality
  <2>2. ASSUME NEW f, NEW R PROVE Promised!SumFunctionOnSet(f, R) = SumFunctionOnSet(f, R)
    BY DEF SumFunctionOnSet, FoldFunctionOnSet, MapThenFoldSet, Promised!SumFunctionOnSet,
       Promised!FoldFunctionOnSet, Promised!MapThenFoldSet
  <2>. QED BY <2>1, <2>2 DEF Totals, HitsOf, Micrograms, Promised!Totals, Promised!HitsAmong
<1>2. Promised!Stored = In({"done"})
  BY DEF Promised!Stored, SaveStage, In
<1>3. Promised!Begun = Begun
  BY DEF Promised!Begun, SaveStage, Begun, In, Typed
<1>. QED BY <1>1, <1>2, <1>3

\* What the mapping is made of.
Stages  == [s \in Saves |-> SaveStage(s)]
Heard == <<[q \in Reads |-> ReadStage(q)], least, [q \in Reads |-> Told(q)]>>

LEMMA SaveIsStore ==
  ASSUME Typed, NEW s \in Saves, Save(s), UNCHANGED least
  PROVE  Promised!Begin(s) \/ Promised!Store(s) \/ UNCHANGED Promised!vars
<1>. USE DEF Typed
<1>1. UNCHANGED <<snapshot, readVars>>
  BY DEF Save, CountHit, AddSaving, CountMiss, AppendTrace
<1>2. UNCHANGED Promised!readVars /\ UNCHANGED snapshot
  BY <1>1 DEF Promised!readVars, ReadStage, Told, readVars
<1>3. CASE CountHit(s) \/ CountMiss(s)
  <2>1. \E t \in Traces : trace' = [trace EXCEPT ![s] = t]
    <3>1. CASE CountHit(s)
      BY <3>1 DEF CountHit, Traces
    <3>2. CASE CountMiss(s)
      <4>1. trace[s] \in Traces /\ trace' = [trace EXCEPT ![s] = trace[s]]
        BY <3>2 DEF CountMiss
      <4>. QED BY <4>1
    <3>. QED BY <1>3, <3>1, <3>2
  <2>2. SaveStage(s) = "new" /\ Stages' = [Stages EXCEPT ![s] = "under way"]
    BY <1>3 DEF CountHit, CountMiss, SaveGoes, SaveStage, Stages
  <2>3. UNCHANGED traces
    BY <1>3 DEF CountHit, CountMiss
  <2>. QED BY <1>2, <2>1, <2>2, <2>3 DEF Promised!Begin, Promised!Traces, Traces, Stages
<1>4. CASE AddSaving(s)
  <2>1. Stages' = Stages /\ UNCHANGED <<trace, traces>>
    BY <1>4 DEF AddSaving, SaveGoes, SaveStage, Stages
  <2>. QED BY <1>2, <2>1 DEF Promised!vars, Promised!saveVars, Stages
<1>5. CASE AppendTrace(s)
  <2>1. SaveStage(s) = "under way" /\ Stages' = [Stages EXCEPT ![s] = "stored"]
    BY <1>5 DEF AppendTrace, SaveGoes, SaveStage, Stages
  <2>2. traces' = Append(traces, trace[s]) /\ UNCHANGED trace
    BY <1>5 DEF AppendTrace
  <2>. QED BY <1>2, <2>1, <2>2 DEF Promised!Store, Stages
<1>. QED BY <1>3, <1>4, <1>5 DEF Save

LEMMA LoadIsAsk ==
  ASSUME Typed, least \in [Reads -> [hits : Nat, misses : Nat, saved : Nat]],
         NEW q \in Reads, LoadHits(q), Remember(q)
  PROVE  Promised!Ask(q)
<1>. USE DEF Typed
<1>1. UNCHANGED <<Promised!saveVars, snapshot>>
  BY DEF LoadHits, Load, saveVars, Promised!saveVars, SaveStage
<1>2. /\ ReadStage(q) = "new"
      /\ [r \in Reads |-> ReadStage(r)]' = [[r \in Reads |-> ReadStage(r)] EXCEPT ![q] = "asked"]
  BY DEF LoadHits, Load, ReadStage
<1>3. UNCHANGED [r \in Reads |-> Told(r)]
  BY DEF LoadHits, Load, Told
<1>4. least' = [least EXCEPT ![q] = Promised!Totals(Promised!Stored)]
  BY SameTotals DEF Remember, InSlice
<1>. QED BY <1>1, <1>2, <1>3, <1>4 DEF Promised!Ask

LEMMA LoadIsStutter ==
  ASSUME Typed, NEW q \in Reads, LoadMisses(q), UNCHANGED least
  PROVE  UNCHANGED Promised!vars
<1>1. UNCHANGED <<Promised!saveVars, snapshot>>
  BY DEF LoadMisses, Load, saveVars, Promised!saveVars, SaveStage
<1>2. UNCHANGED Heard
  BY DEF Typed, LoadMisses, Load, ReadStage, Told, Heard
<1>. QED BY <1>1, <1>2 DEF Heard, Promised!vars, Promised!readVars

LEMMA LoadIsTell ==
  ASSUME HInv, HInv', NEW q \in Reads, LoadSaved(q), UNCHANGED least
  PROVE  Promised!Tell(q)
<1>1. Typed /\ Typed'
  BY DEF HInv, IInv
<1>2. UNCHANGED <<Promised!saveVars, snapshot>>
  BY DEF LoadSaved, Load, saveVars, Promised!saveVars, SaveStage
<1>3. UNCHANGED saveVars /\ rpc' = [rpc EXCEPT ![q] = "done"] /\ rpc[q] = "misses"
  BY DEF LoadSaved, Load
<1>4. /\ ReadStage(q) = "asked"
      /\ [r \in Reads |-> ReadStage(r)]' = [[r \in Reads |-> ReadStage(r)] EXCEPT ![q] = "told"]
  BY <1>1, <1>3 DEF ReadStage, Typed
<1>5. [r \in Reads |-> Told(r)]' = [[r \in Reads |-> Told(r)] EXCEPT ![q] = report'[q]]
  BY <1>1, <1>3 DEF Told, Typed, LoadSaved, Load
<1>6. /\ report'[q] \in [hits : Nat, misses : Nat, saved : Nat]
      /\ least[q] \in [hits : Nat, misses : Nat, saved : Nat]
      /\ least[q].hits <= report'[q].hits /\ least[q].misses <= report'[q].misses
      /\ least[q].saved <= report'[q].saved
  BY <1>1, <1>3 DEF HInv, LeastReported, Typed
<1>7. /\ report'[q].hits <= Totals(Begun).hits
      /\ report'[q].misses <= Totals(Begun).misses
      /\ report'[q].saved <= Totals(Begun).saved
      /\ Totals(Begun) \in [hits : Nat, misses : Nat, saved : Nat]
  <2>1. /\ hits = Totals(Begun).hits /\ misses = Totals(Begun).misses
        /\ saved <= Totals(Begun).saved
        /\ Totals(Begun) \in [hits : Nat, misses : Nat, saved : Nat]
    BY InTheCounters DEF HInv
  <2>2. report'[q].hits <= hits /\ report'[q].misses <= misses /\ report'[q].saved <= saved
    BY <1>3 DEF HInv, IInv, Reports, saveVars
  <2>3. hits \in Nat /\ misses \in Nat /\ saved \in Nat
    BY <1>1 DEF Typed
  <2>. HIDE DEF Begun
  <2>. QED BY <1>6, <2>1, <2>2, <2>3
<1>8. report'[q] \in Promised!Between(least[q], Promised!Totals(Promised!Begun))
  <2>1. report'[q] \in Promised!Between(least[q], Totals(Begun))
    <3>. DEFINE most == Totals(Begun)
                mine == report'[q]
                low  == least[q]
    <3>1. /\ mine \in [hits : Nat, misses : Nat, saved : Nat]
          /\ low \in [hits : Nat, misses : Nat, saved : Nat]
          /\ most \in [hits : Nat, misses : Nat, saved : Nat]
          /\ low.hits <= mine.hits /\ low.misses <= mine.misses /\ low.saved <= mine.saved
          /\ mine.hits <= most.hits /\ mine.misses <= most.misses /\ mine.saved <= most.saved
      BY <1>6, <1>7
    <3>. HIDE DEF most, mine, low
    <3>2. mine \in [hits : low.hits .. most.hits, misses : low.misses .. most.misses,
                    saved : low.saved .. most.saved]
      BY <3>1
    <3>. QED BY <3>2 DEF Promised!Between, mine, low, most
  <2>2. Totals(Begun) = Promised!Totals(Promised!Begun)
    BY <1>1, SameTotals
  <2>. QED BY <2>1, <2>2
<1>. QED BY <1>2, <1>4, <1>5, <1>8 DEF Promised!Tell

LEMMA StoreStep ==
  HInv /\ HInv' /\ [HistoryNext]_historyVars => [Promised!Next]_(Promised!vars)
<1>. SUFFICES ASSUME HInv, HInv', [HistoryNext]_historyVars
     PROVE  [Promised!Next]_(Promised!vars)
  OBVIOUS
<1>. USE DEF Promised!Next
<1>1. Typed /\ least \in [Reads -> [hits : Nat, misses : Nat, saved : Nat]]
  BY DEF HInv, IInv, LeastReported
<1>2. ASSUME NEW s \in Saves, Save(s), UNCHANGED least
      PROVE  [Promised!Next]_(Promised!vars)
  BY <1>1, <1>2, SaveIsStore
<1>3. ASSUME NEW q \in Reads, LoadHits(q), Remember(q) PROVE [Promised!Next]_(Promised!vars)
  BY <1>1, <1>3, LoadIsAsk
<1>4. ASSUME NEW q \in Reads, LoadMisses(q) \/ LoadSaved(q), UNCHANGED least
      PROVE  [Promised!Next]_(Promised!vars)
  BY <1>1, <1>4, LoadIsStutter, LoadIsTell
<1>5. CASE Snapshot /\ UNCHANGED least
  <2>1. UNCHANGED <<Promised!saveVars, Promised!readVars>> /\ snapshot' = traces
    BY <1>5 DEF Snapshot, saveVars, readVars, Promised!saveVars, Promised!readVars, SaveStage,
       ReadStage, Told
  <2>. QED BY <2>1 DEF Promised!Copy
<1>6. CASE UNCHANGED historyVars
  BY <1>6 DEF historyVars, vars, saveVars, readVars, Promised!vars, Promised!saveVars,
     Promised!readVars, SaveStage, ReadStage, Told
<1>7. ASSUME Finished, UNCHANGED least PROVE UNCHANGED historyVars
  BY <1>7 DEF Finished, historyVars
<1>. QED BY <1>2, <1>3, <1>4, <1>5, <1>6, <1>7 DEF HistoryNext

\* The repository implements TraceStore: to its callers a Save is one step and a
\* Snapshot is the slice, and what Aggregates returns counts all that was in the
\* slice when it began and nothing no Save has brought (inmemory.go:29-61).
THEOREM StoreIsImplemented == HistorySpec => ImplementsStore
<1>1. HistoryInit => Promised!Init
  BY StoreInit
<1>2. HInv /\ HInv' /\ [HistoryNext]_historyVars => [Promised!Next]_(Promised!vars)
  BY StoreStep
<1>. QED BY <1>1, <1>2, HistoryInvariance, PTL DEF HistorySpec, Promised!Spec, ImplementsStore

\* A report is exactly what the slice held when Aggregates began, if no Save is
\* under way when it ends and none has returned meanwhile.  (Not so otherwise:
\* AggregatesConsistent.)
QuietReportsExact ==
  \A q \in Reads :
    rpc[q] = "done" /\ In({"hit", "counted"}) = {} /\ least[q] = InSlice =>
      report[q] = InSlice

\* What Aggregates returns is exact when no Save overlaps it (inmemory.go:44-51).
THEOREM QuietAggregatesAreExact == HistorySpec => []QuietReportsExact
<1>1. ASSUME HInv PROVE QuietReportsExact
  <2>1. SUFFICES ASSUME NEW q \in Reads, rpc[q] = "done", In({"hit", "counted"}) = {},
                        least[q] = InSlice
        PROVE  report[q] = InSlice
    BY DEF QuietReportsExact
  <2>2. Begun = In({"done"})
    BY <2>1 DEF Begun, In
  <2>3. InSlice = Totals(Begun)
    BY <2>2 DEF InSlice
  <2>4. /\ hits = InSlice.hits /\ misses = InSlice.misses /\ saved <= InSlice.saved
        /\ InSlice \in [hits : Nat, misses : Nat, saved : Nat]
    BY <1>1, <2>3, InTheCounters DEF HInv
  <2>5. /\ InSlice.hits <= report[q].hits /\ InSlice.misses <= report[q].misses
        /\ InSlice.saved <= report[q].saved
    BY <1>1, <2>1 DEF HInv, LeastReported
  <2>6. /\ report[q].hits <= hits /\ report[q].misses <= misses /\ report[q].saved <= saved
        /\ report[q] \in [hits : Nat, misses : Nat, saved : Nat]
        /\ saved \in Nat /\ hits \in Nat /\ misses \in Nat
    BY <1>1 DEF HInv, IInv, Reports, Typed
  <2>. HIDE DEF InSlice
  <2>. QED BY <2>4, <2>5, <2>6
<1>. QED BY <1>1, HistoryInvariance, PTL

------------------------------------------------------------------------------
(* The service. *)

Reading == [hits : Nat, misses : Nat, saved : Nat]
Entries == [data : Reading, expiresAt : -1..MaxTime + TTL]

\* ServiceTypeOK, with the types of the histories.
ServiceTyped ==
  /\ now \in 0..MaxTime
  /\ backend \in {"memory", "redis"}
  /\ entry \in Entries
  /\ pc \in [Reads -> {"new", "get", "check", "delete", "fill", "answered"}]
  /\ held \in [Reads -> Entries]
  /\ answer \in [Reads -> Reading]
  /\ seen \in [Reads -> [arrived : Nat, best : Nat, base : Nat]]
  /\ stored \in [Reads -> Nat]
  /\ disturbed \in BOOLEAN

\* A call reads the repository only in its fill.
Places == \A q \in Reads :
  /\ pc[q] \in {"new", "get", "check", "delete"} => rpc[q] = "new"
  /\ seen[q].arrived <= now

\* What the cache holds, and what a call has loaded from it, is the report of a
\* call that has answered, with the expiry its Set gave it.
Kept(e) == \E f \in Answered :
  /\ e.data = report[f] /\ rpc[f] = "done" /\ e.expiresAt = stored[f] + TTL

Sources ==
  /\ entry # NoEntry => Kept(entry)
  /\ \A q \in Reads : pc[q] = "check" => Kept(held[q])

\* Nothing counts a request that the repository has not.
Known ==
  /\ Counted(entry.data) <= hits + misses
  /\ \A q \in Reads : /\ Counted(held[q].data) <= hits + misses
                      /\ Counted(answer[q]) <= hits + misses

\* A report counts what had been counted when its Aggregates began.
Bases == \A q \in Reads : pc[q] = "fill" =>
  /\ rpc[q] = "new" => seen[q].base <= hits + misses
  /\ rpc[q] = "hits" => seen[q].base <= report[q].hits + misses
  /\ rpc[q] \in {"misses", "done"} => seen[q].base <= Counted(report[q])

Bests == \A q \in Reads :
  \/ seen[q].best = 0
  \/ \E p \in Answered : seen[q].best <= Counted(answer[p])

\* As long as fills do not overlap and Redis refuses none: the one under way
\* began when the repository had counted all that was held or answered; the
\* entry is the newest of what is held or answered; and what a call is about to
\* answer from the cache is as new as the answers it began after.
Alone == \A p, q \in Reads : pc[p] = "fill" /\ pc[q] = "fill" => p = q

Above == \A q \in Reads : pc[q] = "fill" =>
  /\ Counted(entry.data) <= seen[q].base
  /\ \A p \in Reads : /\ Counted(held[p].data) <= seen[q].base
                      /\ Counted(answer[p]) <= seen[q].base

Newest == entry # NoEntry => \A p \in Reads :
  /\ Counted(held[p].data) <= Counted(entry.data)
  /\ Counted(answer[p]) <= Counted(entry.data)

Fresh == \A q \in Reads : pc[q] = "check" => seen[q].best <= Counted(held[q].data)

Ordered == ~disturbed => Alone /\ Above /\ Newest /\ Fresh

SInv ==
  /\ IInv /\ ServiceTyped /\ Places /\ Sources /\ Known /\ Bases /\ Bests
  /\ Ordered

------------------------------------------------------------------------------
(* The service runs the repository. *)

LEMMA ServiceSteps ==
  ASSUME [ServiceNext]_<<vars, serviceVars>> PROVE [Next]_vars
<1>1. ASSUME NEW q \in Reads, CacheMetrics(q) PROVE [Next]_vars
  BY <1>1 DEF CacheMetrics, Arrive, MemoryLoad, MemoryCheck, MemoryDelete, RedisGet,
     ReadRepository, Set, Next
<1>. QED BY <1>1 DEF ServiceNext, Workers, Tick, AllDone, Next

\* Every behaviour of the service is one of the repository, each call being a
\* reader that calls Aggregates once at most: the theorems about EcoRepository
\* hold while the service answers (service/eco.go:35-51).
THEOREM ServiceRunsRepository == ServiceSpec => Spec
<1>1. ServiceInit => Init
  BY DEF ServiceInit
<1>. QED BY <1>1, ServiceSteps, PTL DEF ServiceSpec, Spec

------------------------------------------------------------------------------
(* Facts about the model's operators. *)

LEMMA CountedType == ASSUME NEW m \in Reading PROVE Counted(m) \in Nat
BY DEF Counted, Reading

LEMMA NoEntryType ==
  /\ NoEntry \in Entries /\ NoEntry.data = Zero /\ Zero \in Reading /\ Counted(Zero) = 0
  /\ NoEntry.expiresAt = -1
BY ClockAssumption DEF NoEntry, Entries, Reading, Zero, Counted

\* Max of a finite set of naturals is its greatest element.
LEMMA Maximum ==
  ASSUME NEW S, S \subseteq Nat, IsFiniteSet(S), S # {}
  PROVE  Max(S) \in S /\ \A y \in S : y <= Max(S)
<1>. DEFINE Up(x) == {y \in S : x <= y}
            T == {Up(x) : x \in S}
<1>0. T # {}
  OBVIOUS
<1>1. T \in SUBSET SUBSET S
  OBVIOUS
<1>2. PICK U \in T : \A V \in T : V \subseteq U => V = U
  <2>1. IsFiniteSet(S)
    OBVIOUS
  <2>. HIDE DEF T
  <2>. QED BY ONLY <1>0, <1>1, <2>1, Smallest
<1>3. PICK x \in S : U = Up(x)
  BY <1>2
<1>4. ASSUME NEW y \in S PROVE y <= x
  <2>1. CASE x <= y
    <3>1. Up(y) \subseteq Up(x)
      <4>1. \A z \in S : z \in Int
        OBVIOUS
      <4>2. \A z \in S : y <= z => x <= z
        BY <2>1, <4>1
      <4>. QED BY <4>2
    <3>2. Up(y) = Up(x)
      BY <1>2, <1>3, <3>1
    <3>3. x \in Up(x)
      OBVIOUS
    <3>. QED BY <3>2, <3>3
  <2>2. CASE ~(x <= y)
    <3>1. x \in Int /\ y \in Int
      OBVIOUS
    <3>. QED BY <2>2, <3>1
  <2>. QED BY <2>1, <2>2
<1>5. \E m \in S : \A y \in S : m >= y
  <2>1. \A y \in S : y \in Int
    OBVIOUS
  <2>. QED BY <1>4, <2>1
<1>6. Max(S) \in S /\ \A y \in S : Max(S) >= y
  BY <1>5 DEF Max
<1>7. \A y \in S : y \in Int
  OBVIOUS
<1>. QED BY <1>6, <1>7

\* What Arrive records as best: an upper bound of the answers given, and one of
\* them if there are any.
LEMMA BestOfAnswers ==
  ASSUME ServiceTyped
  PROVE  LET m == Max({0} \cup {Counted(answer[p]) : p \in Answered})
         IN  m \in Nat /\ (m = 0 \/ \E p \in Answered : m <= Counted(answer[p]))
<1>. DEFINE A == {Counted(answer[p]) : p \in Answered}
            S == {0} \cup A
<1>1. \A p \in Answered : Counted(answer[p]) \in Nat
  BY CountedType DEF ServiceTyped, Answered
<1>2. S \in SUBSET Nat /\ S # {}
  BY <1>1
<1>3. IsFiniteSet(S)
  <2>1. IsFiniteSet(Answered)
    BY ReadsAssumption, FS_Subset DEF Answered
  <2>2. IsFiniteSet(A)
    <3>. HIDE DEF A
    <3>. DEFINE F == [p \in Answered |-> Counted(answer[p])]
    <3>1. F \in Surjection(Answered, A)
      BY DEF Surjection, A
    <3>. QED BY <2>1, <3>1, FS_Surjection
  <2>. QED BY <2>2, FS_AddElement
<1>4. Max(S) \in S
  <2>. HIDE DEF S
  <2>. QED BY <1>2, <1>3, Maximum
<1>5. Max(S) \in Nat
  BY <1>2, <1>4
<1>. QED BY <1>1, <1>4, <1>5

------------------------------------------------------------------------------
(* The initial states, and the steps that answer nothing. *)

LEMMA ServiceInitInv == ServiceInit => SInv
<1>. SUFFICES ASSUME ServiceInit PROVE SInv
  OBVIOUS
<1>1. IInv /\ hits = 0 /\ misses = 0 /\ rpc = [q \in Reads |-> "new"]
  BY InitInv DEF ServiceInit, Init
<1>2. ServiceTyped
  <2>1. NoHistory \in [arrived : Nat, best : Nat, base : Nat] /\ 0 \in 0..MaxTime
    BY ClockAssumption DEF NoHistory
  <2>. QED BY <2>1, NoEntryType DEF ServiceInit, ServiceTyped
<1>3. Places /\ Sources /\ Bases /\ Bests
  BY <1>1, ClockAssumption DEF ServiceInit, Places, Sources, Bases, Bests, NoHistory
<1>4. Known
  BY <1>1, NoEntryType DEF ServiceInit, Known
<1>5. Ordered
  BY NoEntryType DEF ServiceInit, Ordered, Alone, Above, Newest, Fresh
<1>. QED BY <1>1, <1>2, <1>3, <1>4, <1>5 DEF SInv

LEMMA ArriveInv == ASSUME SInv, NEW q \in Reads, Arrive(q) PROVE SInv'
<1>. DEFINE m == Max({0} \cup {Counted(answer[p]) : p \in Answered})
<1>1. /\ pc[q] = "new" /\ pc' = [pc EXCEPT ![q] = "get"]
      /\ seen' = [seen EXCEPT ![q] = [arrived |-> now, best |-> m, base |-> 0]]
      /\ UNCHANGED <<vars, now, backend, entry, held, answer, stored, disturbed>>
  BY DEF Arrive, Goes
<1>2. m \in Nat /\ (m = 0 \/ \E p \in Answered : m <= Counted(answer[p]))
  BY BestOfAnswers DEF SInv
<1>. HIDE DEF m
<1>3. ServiceTyped
  BY DEF SInv
<1>4. /\ seen' \in [Reads -> [arrived : Nat, best : Nat, base : Nat]]
      /\ seen'[q].arrived = now /\ seen'[q].best = m
      /\ \A p \in Reads : p # q => seen'[p] = seen[p]
  <2>. DEFINE h == [arrived |-> now, best |-> m, base |-> 0]
  <2>1. /\ seen \in [Reads -> [arrived : Nat, best : Nat, base : Nat]]
        /\ now \in Nat
    BY <1>3, ClockAssumption DEF ServiceTyped
  <2>2. h \in [arrived : Nat, best : Nat, base : Nat] /\ h.arrived = now /\ h.best = m
    BY <1>2, <2>1
  <2>3. seen' = [seen EXCEPT ![q] = h]
    BY <1>1
  <2>. HIDE DEF h
  <2>. QED BY <2>1, <2>2, <2>3
<1>5. UNCHANGED <<hits, misses, rpc, report>>
  BY <1>1 DEF vars, saveVars, readVars
<1>6. IInv'
  BY <1>1, StutterInv DEF SInv
<1>7. ServiceTyped' /\ Answered' = Answered
  BY <1>1, <1>3, <1>4 DEF ServiceTyped, Answered
<1>8. Places' /\ Sources'
  BY <1>1, <1>3, <1>4, <1>5, <1>7 DEF SInv, ServiceTyped, Places, Sources, Kept
<1>9. Known' /\ Bases' /\ Bests'
  BY <1>1, <1>2, <1>3, <1>4, <1>5, <1>7 DEF SInv, ServiceTyped, Known, Bases, Bests, Counted
<1>10. Ordered'
  BY <1>1, <1>3, <1>4 DEF SInv, ServiceTyped, Ordered, Alone, Above, Newest, Fresh, Counted
<1>. QED BY <1>6, <1>7, <1>8, <1>9, <1>10 DEF SInv

\* A fill begins when the repository has counted all that is held or answered.
LEMMA FillInv ==
  ASSUME SInv, NEW q \in Reads, NEW from \in {"get", "delete"}, Fill(q, from),
         entry' \in {entry, NoEntry}, UNCHANGED <<vars, now, backend>>
  PROVE  SInv'
<1>1. /\ pc[q] = from /\ pc' = [pc EXCEPT ![q] = "fill"]
      /\ seen' = [seen EXCEPT ![q].base = hits + misses]
      /\ disturbed' = (disturbed \/ \E p \in Reads : pc[p] = "fill")
      /\ UNCHANGED <<held, answer, stored>>
  BY DEF Fill, Goes
<1>2. UNCHANGED <<hits, misses, rpc, report>>
  BY DEF vars, saveVars, readVars
<1>3. ServiceTyped /\ hits + misses \in Nat /\ rpc[q] = "new"
  BY <1>1 DEF SInv, IInv, Typed, Places
<1>4. /\ seen' \in [Reads -> [arrived : Nat, best : Nat, base : Nat]]
      /\ seen'[q].arrived = seen[q].arrived /\ seen'[q].best = seen[q].best
      /\ seen'[q].base = hits + misses
      /\ \A p \in Reads : p # q => seen'[p] = seen[p]
  BY <1>1, <1>3 DEF ServiceTyped
<1>5. IInv'
  BY StutterInv DEF SInv
<1>6. ServiceTyped' /\ Answered' = Answered
  BY <1>1, <1>3, <1>4, NoEntryType DEF ServiceTyped, Answered
<1>7. Places' /\ Sources'
  BY <1>1, <1>2, <1>3, <1>4, <1>6 DEF SInv, ServiceTyped, Places, Sources, Kept
<1>8. Known'
  BY <1>1, <1>2, <1>3, NoEntryType DEF SInv, Known
<1>9. Bases'
  BY <1>1, <1>2, <1>3, <1>4 DEF SInv, ServiceTyped, Bases
<1>10. Bests'
  BY <1>1, <1>3, <1>4, <1>6 DEF SInv, Bests
<1>11. ASSUME ~disturbed' PROVE Alone' /\ Above' /\ Newest' /\ Fresh'
  <2>1. ~disturbed /\ \A p \in Reads : pc[p] # "fill"
    BY <1>1, <1>11
  <2>2. \A p \in Reads : pc'[p] = "fill" => p = q
    BY <1>1, <1>3, <2>1 DEF ServiceTyped
  <2>3. Alone'
    BY <2>2 DEF Alone
  <2>4. Above'
    BY <1>2, <1>4, <1>8, <2>2 DEF Above, Known
  <2>5. Newest' /\ Fresh'
    BY <1>1, <1>3, <1>4, <2>1 DEF SInv, ServiceTyped, Ordered, Newest, Fresh
  <2>. QED BY <2>3, <2>4, <2>5
<1>12. Ordered'
  BY <1>11 DEF Ordered
<1>. QED BY <1>5, <1>6, <1>7, <1>8, <1>9, <1>10, <1>12 DEF SInv

LEMMA MemoryLoadInv == ASSUME SInv, NEW q \in Reads, MemoryLoad(q) PROVE SInv'
<1>1. CASE Fill(q, "get") /\ UNCHANGED <<vars, now, backend, entry>>
  BY <1>1, FillInv
<1>2. CASE /\ entry # NoEntry /\ Goes(q, "get", "check")
           /\ held' = [held EXCEPT ![q] = entry]
           /\ UNCHANGED <<answer, seen, stored, disturbed>>
           /\ UNCHANGED <<vars, now, backend, entry>>
  <2>1. /\ pc[q] = "get" /\ pc' = [pc EXCEPT ![q] = "check"] /\ entry # NoEntry
        /\ held' = [held EXCEPT ![q] = entry]
        /\ UNCHANGED <<answer, seen, stored, disturbed, vars, now, backend, entry>>
    BY <1>2 DEF Goes
  <2>2. UNCHANGED <<hits, misses, rpc, report>> /\ IInv'
    BY <2>1, StutterInv DEF SInv, vars, saveVars, readVars
  <2>3. ServiceTyped
    BY DEF SInv
  <2>4. ServiceTyped' /\ Answered' = Answered
    BY <2>1, <2>3 DEF ServiceTyped, Answered
  <2>5. Places' /\ Sources' /\ Bases' /\ Bests'
    BY <2>1, <2>2, <2>3, <2>4 DEF SInv, ServiceTyped, Places, Sources, Kept, Bases, Bests
  <2>6. Known'
    BY <2>1, <2>2, <2>3 DEF SInv, ServiceTyped, Known
  <2>7. ASSUME ~disturbed' PROVE Alone' /\ Above' /\ Newest' /\ Fresh'
    <3>1. Alone /\ Above /\ Newest /\ Fresh
      BY <2>1, <2>7 DEF SInv, Ordered
    <3>2. Alone' /\ Above'
      BY <2>1, <2>3, <3>1 DEF ServiceTyped, Alone, Above
    <3>3. Newest'
      <4>1. Counted(entry.data) <= Counted(entry.data)
        BY <2>3, CountedType DEF ServiceTyped, Entries
      <4>. QED BY <2>1, <2>3, <3>1, <4>1 DEF ServiceTyped, Newest
    <3>4. seen[q].best <= Counted(entry.data)
      <4>1. \/ seen[q].best = 0
            \/ \E p \in Answered : seen[q].best <= Counted(answer[p])
        BY DEF SInv, Bests
      <4>2. \A p \in Answered : Counted(answer[p]) <= Counted(entry.data)
        BY <2>1, <3>1 DEF Newest, Answered
      <4>3. /\ seen[q].best \in Nat /\ Counted(entry.data) \in Nat
            /\ \A p \in Answered : Counted(answer[p]) \in Nat
        BY <2>3, CountedType DEF ServiceTyped, Entries, Answered
      <4>. QED BY <4>1, <4>2, <4>3
    <3>5. Fresh'
      BY <2>1, <2>3, <3>1, <3>4 DEF ServiceTyped, Fresh
    <3>. QED BY <3>2, <3>3, <3>5
  <2>8. Ordered'
    BY <2>7 DEF Ordered
  <2>. QED BY <2>2, <2>4, <2>5, <2>6, <2>8 DEF SInv
<1>. QED BY <1>1, <1>2 DEF MemoryLoad

LEMMA MemoryDeleteInv == ASSUME SInv, NEW q \in Reads, MemoryDelete(q) PROVE SInv'
BY FillInv DEF MemoryDelete

------------------------------------------------------------------------------
(* Answers from the cache. *)

LEMMA FromCacheInv ==
  ASSUME SInv, NEW q \in Reads, NEW from \in {"get", "check"}, Goes(q, from, "answered"),
         NEW e \in Entries, Answer(q, e.data), Counted(e.data) <= hits + misses,
         ~disturbed =>
           /\ entry # NoEntry => Counted(e.data) <= Counted(entry.data)
           /\ \A p \in Reads : pc[p] = "fill" => Counted(e.data) <= seen[p].base,
         held' \in {held, [held EXCEPT ![q] = NoEntry]},
         UNCHANGED <<vars, now, backend, entry, stored, disturbed>>
  PROVE  SInv'
<1>1. /\ pc[q] = from /\ pc' = [pc EXCEPT ![q] = "answered"]
      /\ answer' = [answer EXCEPT ![q] = e.data]
      /\ seen' = [seen EXCEPT ![q] = NoHistory]
  BY DEF Goes, Answer
<1>2. UNCHANGED <<hits, misses, rpc, report>> /\ IInv'
  BY StutterInv DEF SInv, vars, saveVars, readVars
<1>3. ServiceTyped /\ hits + misses \in Nat /\ now \in Nat /\ e.data \in Reading
  <2>1. ServiceTyped /\ Typed
    BY DEF SInv, IInv
  <2>2. hits + misses \in Nat
    BY ONLY <2>1 DEF Typed
  <2>3. now \in Nat
    BY ONLY <2>1, ClockAssumption DEF ServiceTyped
  <2>4. e.data \in Reading
    BY ONLY e \in Entries DEF Entries
  <2>. QED BY <2>1, <2>2, <2>3, <2>4
<1>4. /\ NoHistory \in [arrived : Nat, best : Nat, base : Nat]
      /\ NoHistory.arrived = 0 /\ NoHistory.best = 0
  BY DEF NoHistory
<1>5. ServiceTyped'
  BY <1>1, <1>3, <1>4, NoEntryType DEF ServiceTyped
<1>6. /\ Answered' = Answered \cup {q} /\ q \notin Answered
      /\ \A p \in Answered : answer'[p] = answer[p]
  BY <1>1, <1>3 DEF ServiceTyped, Answered
<1>7. Places'
  BY <1>1, <1>2, <1>3, <1>4 DEF SInv, ServiceTyped, Places
<1>8. Sources'
  BY <1>1, <1>2, <1>3, <1>6 DEF SInv, ServiceTyped, Sources, Kept
<1>9. Known'
  BY <1>1, <1>2, <1>3, NoEntryType DEF SInv, ServiceTyped, Known
<1>10. Bases'
  BY <1>1, <1>2, <1>3 DEF SInv, ServiceTyped, Bases
<1>11. Bests'
  BY <1>1, <1>3, <1>4, <1>6 DEF SInv, ServiceTyped, Bests
<1>12. ASSUME ~disturbed' PROVE Alone' /\ Above' /\ Newest' /\ Fresh'
  <2>1. ~disturbed /\ Alone /\ Above /\ Newest /\ Fresh
    BY <1>12 DEF SInv, Ordered
  <2>2. \A p \in Reads : Counted(held'[p].data) = Counted(held[p].data)
                         \/ Counted(held'[p].data) = 0
    BY <1>3, NoEntryType DEF ServiceTyped
  <2>3. \A p \in Reads : pc'[p] = "fill" => pc[p] = "fill" /\ seen'[p] = seen[p]
    BY <1>1, <1>3 DEF ServiceTyped
  <2>4. Alone'
    BY <2>1, <2>3 DEF Alone
  <2>5. \A p \in Reads : seen[p].base \in Nat /\ Counted(entry.data) \in Nat
    BY <1>3, CountedType DEF ServiceTyped, Entries
  <2>6. Above'
    BY <1>1, <1>3, <2>1, <2>2, <2>3, <2>5 DEF ServiceTyped, Above
  <2>7. Newest'
    BY <1>1, <1>3, <2>1, <2>2, <2>5 DEF ServiceTyped, Newest
  <2>8. Fresh'
    BY <1>1, <1>3, <2>1 DEF ServiceTyped, Fresh
  <2>. QED BY <2>4, <2>6, <2>7, <2>8
<1>13. Ordered'
  BY <1>12 DEF Ordered
<1>. QED BY <1>2, <1>5, <1>7, <1>8, <1>9, <1>10, <1>11, <1>13 DEF SInv

LEMMA MemoryCheckInv == ASSUME SInv, NEW q \in Reads, MemoryCheck(q) PROVE SInv'
<1>1. CASE Expired(held[q])
  <2>1. /\ pc[q] = "check" /\ pc' = [pc EXCEPT ![q] = "delete"]
        /\ held' = [held EXCEPT ![q] = NoEntry]
        /\ UNCHANGED <<answer, seen, vars, now, backend, entry, stored, disturbed>>
    BY <1>1 DEF MemoryCheck, Goes
  <2>2. UNCHANGED <<hits, misses, rpc, report>> /\ IInv'
    BY <2>1, StutterInv DEF SInv, vars, saveVars, readVars
  <2>3. ServiceTyped /\ hits + misses \in Nat
    BY DEF SInv, IInv, Typed
  <2>4. ServiceTyped' /\ Answered' = Answered
    BY <2>1, <2>3, NoEntryType DEF ServiceTyped, Answered
  <2>5. Places' /\ Sources' /\ Bases' /\ Bests'
    BY <2>1, <2>2, <2>3, <2>4 DEF SInv, ServiceTyped, Places, Sources, Kept, Bases, Bests
  <2>6. Known'
    BY <2>1, <2>2, <2>3, NoEntryType DEF SInv, ServiceTyped, Known
  <2>7. ASSUME ~disturbed' PROVE Alone' /\ Above' /\ Newest' /\ Fresh'
    <3>1. Alone /\ Above /\ Newest /\ Fresh
      BY <2>1, <2>7 DEF SInv, Ordered
    <3>2. \A p \in Reads : seen[p].base \in Nat /\ Counted(entry.data) \in Nat
      BY <2>3, CountedType DEF ServiceTyped, Entries
    <3>3. Alone' /\ Above'
      BY <2>1, <2>3, <3>1, <3>2, NoEntryType DEF ServiceTyped, Alone, Above
    <3>4. Newest' /\ Fresh'
      BY <2>1, <2>3, <3>1, <3>2, NoEntryType DEF ServiceTyped, Newest, Fresh
    <3>. QED BY <3>3, <3>4
  <2>8. Ordered'
    BY <2>7 DEF Ordered
  <2>. QED BY <2>2, <2>4, <2>5, <2>6, <2>8 DEF SInv
<1>2. CASE ~Expired(held[q])
  <2>1. held[q] \in Entries /\ Counted(held[q].data) <= hits + misses
    BY DEF SInv, ServiceTyped, Known
  <2>2. ~disturbed =>
           /\ entry # NoEntry => Counted(held[q].data) <= Counted(entry.data)
           /\ \A p \in Reads : pc[p] = "fill" => Counted(held[q].data) <= seen[p].base
    BY DEF SInv, Ordered, Newest, Above
  <2>3. /\ Goes(q, "check", "answered") /\ Answer(q, held[q].data)
        /\ held' = [held EXCEPT ![q] = NoEntry]
        /\ UNCHANGED <<vars, now, backend, entry, stored, disturbed>>
    BY <1>2 DEF MemoryCheck
  <2>. QED BY <2>1, <2>2, <2>3, FromCacheInv
<1>. QED BY <1>1, <1>2

LEMMA RedisGetInv == ASSUME SInv, NEW q \in Reads, RedisGet(q) PROVE SInv'
<1>1. CASE Fill(q, "get") /\ UNCHANGED <<vars, now, backend, entry>>
  BY <1>1, FillInv
<1>2. CASE /\ now < entry.expiresAt
           /\ Goes(q, "get", "answered")
           /\ Answer(q, entry.data)
           /\ UNCHANGED <<held, stored, disturbed>>
           /\ UNCHANGED <<vars, now, backend, entry>>
  <2>1. entry \in Entries /\ Counted(entry.data) <= hits + misses
    BY DEF SInv, ServiceTyped, Known
  <2>2. Counted(entry.data) <= Counted(entry.data)
    BY <2>1, CountedType DEF Entries
  <2>3. ~disturbed =>
           \A p \in Reads : pc[p] = "fill" => Counted(entry.data) <= seen[p].base
    BY DEF SInv, Ordered, Above
  <2>. QED BY <1>2, <2>1, <2>2, <2>3, FromCacheInv
<1>. QED BY <1>1, <1>2 DEF RedisGet

------------------------------------------------------------------------------
(* Answers from the repository, and the steps of the others. *)

LEMMA ReadRepositoryInv ==
  ASSUME SInv, NEW q \in Reads, ReadRepository(q) PROVE SInv'
<1>1. /\ pc[q] = "fill" /\ Aggregates(q) /\ UNCHANGED serviceVars
      /\ UNCHANGED <<hits, misses>>
  BY DEF ReadRepository, Aggregates, LoadHits, LoadMisses, LoadSaved, Load, saveVars
<1>2. UNCHANGED <<now, backend, entry, pc, held, answer, seen, stored, disturbed>>
  BY <1>1 DEF serviceVars, callVars
<1>3. IInv'
  BY <1>1, AggregatesInv DEF SInv
<1>4. ServiceTyped /\ Typed /\ hits + misses \in Nat
  BY DEF SInv, IInv, Typed
<1>5. \A p \in Reads : p # q => report'[p] = report[p] /\ rpc'[p] = rpc[p]
  BY <1>1, <1>4 DEF Typed, Aggregates, LoadHits, LoadMisses, LoadSaved, Load
<1>6. ServiceTyped' /\ Answered' = Answered /\ q \notin Answered
  BY <1>1, <1>2, <1>4 DEF ServiceTyped, Answered
<1>7. Places'
  BY <1>1, <1>2, <1>5 DEF SInv, Places
<1>8. Sources'
  BY <1>2, <1>5, <1>6 DEF SInv, Sources, Kept, Answered
<1>9. Known' /\ Bests' /\ Ordered'
  BY <1>1, <1>2, <1>6 DEF SInv, Known, Bests, Ordered, Alone, Above, Newest, Fresh
<1>10. Bases'
  <2>. USE DEF Bases
  <2>1. \A p \in Reads : p # q /\ pc'[p] = "fill" =>
          /\ rpc'[p] = "new" => seen'[p].base <= hits' + misses'
          /\ rpc'[p] = "hits" => seen'[p].base <= report'[p].hits + misses'
          /\ rpc'[p] \in {"misses", "done"} => seen'[p].base <= Counted(report'[p])
    BY <1>1, <1>2, <1>5 DEF SInv
  <2>2. /\ rpc'[q] = "new" => seen'[q].base <= hits' + misses'
        /\ rpc'[q] = "hits" => seen'[q].base <= report'[q].hits + misses'
        /\ rpc'[q] \in {"misses", "done"} => seen'[q].base <= Counted(report'[q])
    <3>1. report[q] \in Reading
      BY <1>4 DEF Typed, Reading
    <3>2. /\ rpc[q] = "new" => seen[q].base <= hits + misses
          /\ rpc[q] = "hits" => seen[q].base <= report[q].hits + misses
          /\ rpc[q] \in {"misses", "done"} => seen[q].base <= Counted(report[q])
      BY <1>1 DEF SInv
    <3>3. CASE LoadHits(q)
      <4>1. /\ rpc[q] = "new" /\ rpc'[q] = "hits" /\ report'[q].hits = hits
        BY <1>4, <3>1, <3>3 DEF LoadHits, Load, Typed, Reading
      <4>. QED BY <1>1, <1>2, <3>2, <4>1
    <3>4. CASE LoadMisses(q)
      <4>1. /\ rpc[q] = "hits" /\ rpc'[q] = "misses"
            /\ report'[q].misses = misses /\ report'[q].hits = report[q].hits
        BY <1>4, <3>1, <3>4 DEF LoadMisses, Load, Typed, Reading
      <4>. QED BY <1>1, <1>2, <3>2, <4>1 DEF Counted
    <3>5. CASE LoadSaved(q)
      <4>1. /\ rpc[q] = "misses" /\ rpc'[q] = "done"
            /\ report'[q].misses = report[q].misses /\ report'[q].hits = report[q].hits
        BY <1>4, <3>1, <3>5 DEF LoadSaved, Load, Typed, Reading
      <4>. QED BY <1>1, <1>2, <3>2, <4>1 DEF Counted
    <3>. QED BY <1>1, <3>3, <3>4, <3>5 DEF Aggregates
  <2>. QED BY <2>1, <2>2
<1>. QED BY <1>3, <1>6, <1>7, <1>8, <1>9, <1>10 DEF SInv

LEMMA SetInv == ASSUME SInv, NEW q \in Reads, Set(q) PROVE SInv'
<1>. DEFINE new == [data |-> report[q], expiresAt |-> now + TTL]
<1>1. /\ rpc[q] = "done" /\ pc[q] = "fill" /\ pc' = [pc EXCEPT ![q] = "answered"]
      /\ \/ entry' = new /\ disturbed' = disturbed
         \/ entry' = entry /\ disturbed' = TRUE
      /\ answer' = [answer EXCEPT ![q] = report[q]]
      /\ seen' = [seen EXCEPT ![q] = NoHistory]
      /\ stored' = [stored EXCEPT ![q] = now]
      /\ UNCHANGED <<vars, now, backend, held>>
  BY DEF Set, Goes, Store, RedisRefuses, Answer
<1>2. UNCHANGED <<hits, misses, rpc, report>> /\ IInv'
  BY <1>1, StutterInv DEF SInv, vars, saveVars, readVars
<1>3. ServiceTyped /\ Typed /\ hits + misses \in Nat /\ now \in 0..MaxTime /\ now \in Nat
  <2>1. ServiceTyped /\ Typed
    BY DEF SInv, IInv
  <2>2. hits + misses \in Nat
    BY ONLY <2>1 DEF Typed
  <2>3. now \in 0..MaxTime /\ now \in Nat
    BY ONLY <2>1, ClockAssumption DEF ServiceTyped
  <2>. QED BY <2>1, <2>2, <2>3
<1>4. /\ NoHistory \in [arrived : Nat, best : Nat, base : Nat]
      /\ NoHistory.arrived = 0 /\ NoHistory.best = 0
  BY DEF NoHistory
<1>5. report[q] \in Reading /\ Counted(report[q]) \in Nat
      /\ Counted(report[q]) <= hits + misses /\ seen[q].base <= Counted(report[q])
  <2>1. report[q] \in Reading
    BY <1>3 DEF Typed, Reading
  <2>2. report[q].hits <= hits /\ report[q].misses <= misses
    BY DEF SInv, IInv, Reports
  <2>3. Counted(report[q]) <= hits + misses
    BY <1>3, <2>1, <2>2 DEF Counted, Reading, Typed
  <2>4. seen[q].base <= Counted(report[q])
    BY <1>1 DEF SInv, Bases
  <2>. QED BY <2>1, <2>3, <2>4, CountedType
<1>6. new \in Entries /\ new.data = report[q] /\ new.expiresAt = now + TTL
  BY <1>3, <1>5, ClockAssumption DEF Entries
<1>. HIDE DEF new
<1>7. ServiceTyped'
  BY <1>1, <1>3, <1>4, <1>5, <1>6 DEF ServiceTyped
<1>8. /\ Answered' = Answered \cup {q} /\ q \notin Answered
      /\ \A p \in Answered : answer'[p] = answer[p] /\ stored'[p] = stored[p]
  BY <1>1, <1>3 DEF ServiceTyped, Answered
<1>9. Places'
  BY <1>1, <1>2, <1>3, <1>4 DEF SInv, ServiceTyped, Places
<1>10. Sources'
  <2>1. Kept(new)'
    <3>1. q \in Answered' /\ stored'[q] = now
      BY <1>1, <1>3, <1>8 DEF ServiceTyped
    <3>2. new' = new
      BY <1>1, <1>2 DEF new
    <3>. QED BY <1>1, <1>2, <1>6, <3>1, <3>2 DEF Kept
  <2>2. new' = new
    BY <1>1, <1>2 DEF new
  <2>3. entry # NoEntry => Kept(entry)
    BY DEF SInv, Sources
  <2>4. \A p \in Reads : pc'[p] = "check" => Kept(held[p]) /\ held'[p] = held[p]
    BY <1>1, <1>3 DEF SInv, ServiceTyped, Sources
  <2>5. entry' # NoEntry => Kept(entry)'
    <3>1. CASE entry' = new
      BY <2>1, <2>2, <3>1 DEF Kept
    <3>2. CASE entry' = entry
      BY <1>2, <1>8, <2>3, <3>2 DEF Kept
    <3>. QED BY <1>1, <3>1, <3>2
  <2>6. \A p \in Reads : pc'[p] = "check" => Kept(held[p])'
    BY <1>2, <1>8, <2>4 DEF Kept
  <2>. QED BY <2>5, <2>6 DEF Sources
<1>11. Known'
  BY <1>1, <1>2, <1>3, <1>5, <1>6 DEF SInv, ServiceTyped, Known
<1>12. Bases'
  BY <1>1, <1>2, <1>3 DEF SInv, ServiceTyped, Bases
<1>13. Bests'
  BY <1>1, <1>3, <1>4, <1>8 DEF SInv, ServiceTyped, Bests
<1>14. ASSUME ~disturbed' PROVE Alone' /\ Above' /\ Newest' /\ Fresh'
  <2>1. ~disturbed /\ entry' = new /\ Alone /\ Above /\ Fresh
    BY <1>1, <1>14 DEF SInv, Ordered
  <2>2. \A p \in Reads : pc'[p] # "fill"
    BY <1>1, <1>3, <2>1 DEF ServiceTyped, Alone
  <2>3. Alone' /\ Above'
    BY <2>2 DEF Alone, Above
  <2>4. Newest'
    <3>1. \A p \in Reads : /\ Counted(held[p].data) <= seen[q].base
                           /\ Counted(answer[p]) <= seen[q].base
      BY <1>1, <2>1 DEF Above
    <3>2. \A p \in Reads : /\ Counted(held[p].data) \in Nat /\ Counted(answer[p]) \in Nat
                           /\ seen[p].base \in Nat
      BY <1>3, CountedType DEF ServiceTyped, Entries
    <3>3. \A p \in Reads : /\ Counted(held[p].data) <= Counted(report[q])
                           /\ Counted(answer[p]) <= Counted(report[q])
      BY <1>5, <3>1, <3>2
    <3>4. \A p \in Reads : answer'[p] = answer[p] \/ answer'[p] = report[q]
      BY <1>1, <1>3 DEF ServiceTyped
    <3>. QED BY <1>1, <1>5, <1>6, <2>1, <3>3, <3>4 DEF Newest
  <2>5. Fresh'
    BY <1>1, <1>3, <2>1 DEF ServiceTyped, Fresh
  <2>. QED BY <2>3, <2>4, <2>5
<1>15. Ordered'
  BY <1>14 DEF Ordered
<1>. QED BY <1>2, <1>7, <1>9, <1>10, <1>11, <1>12, <1>13, <1>15 DEF SInv

LEMMA WorkersInv == ASSUME SInv, Workers PROVE SInv'
<1>1. PICK s \in Saves : Save(s)
  BY DEF Workers
<1>2. UNCHANGED <<now, backend, entry, pc, held, answer, seen, stored, disturbed>>
  BY DEF Workers, serviceVars, callVars
<1>3. Typed /\ IInv
  BY DEF SInv, IInv
<1>4. IInv'
  BY <1>1, <1>3, CountHitInv, AddSavingInv, CountMissInv, AppendTraceInv DEF Save
<1>5. /\ UNCHANGED <<rpc, report>>
      /\ hits' \in {hits, hits + 1} /\ misses' \in {misses, misses + 1}
  BY <1>1 DEF Save, CountHit, AddSaving, CountMiss, AppendTrace, readVars
<1>6. ServiceTyped' /\ Places' /\ Sources' /\ Bests' /\ Ordered'
  BY <1>2, <1>5 DEF SInv, ServiceTyped, Places, Sources, Kept, Answered, Bests, Ordered,
     Alone, Above, Newest, Fresh
<1>7. hits \in Nat /\ misses \in Nat /\ hits' \in Nat /\ misses' \in Nat
      /\ hits <= hits' /\ misses <= misses'
  BY <1>3, <1>5 DEF Typed
<1>8. hits + misses <= hits' + misses'
  <2>. DEFINE a == hits  b == misses  c == hits'  d == misses'
  <2>1. a \in Nat /\ b \in Nat /\ c \in Nat /\ d \in Nat /\ a <= c /\ b <= d
    BY <1>7
  <2>. HIDE DEF a, b, c, d
  <2>2. a + b <= c + d
    BY <2>1
  <2>. QED BY <2>2 DEF a, b, c, d
<1>9. Known'
  <2>1. /\ Counted(entry.data) \in Nat
        /\ \A q \in Reads : Counted(held[q].data) \in Nat /\ Counted(answer[q]) \in Nat
    BY CountedType DEF SInv, ServiceTyped, Entries
  <2>. QED BY <1>2, <1>7, <1>8, <2>1 DEF SInv, Known
<1>10. Bases'
  <2>1. \A q \in Reads : seen[q].base \in Nat /\ report[q].hits \in Nat
    BY <1>3 DEF SInv, ServiceTyped, Typed
  <2>. QED BY <1>2, <1>5, <1>7, <1>8, <2>1 DEF SInv, Bases
<1>. QED BY <1>4, <1>6, <1>9, <1>10 DEF SInv

LEMMA TickInv == ASSUME SInv, Tick PROVE SInv'
<1>1. /\ now < MaxTime /\ now' = now + 1
      /\ UNCHANGED <<vars, backend, entry, pc, held, answer, seen, stored, disturbed>>
  BY DEF Tick, callVars
<1>2. UNCHANGED <<hits, misses, rpc, report>> /\ IInv'
  BY <1>1, StutterInv DEF SInv, vars, saveVars, readVars
<1>3. now \in Nat /\ now' \in 0..MaxTime
  BY <1>1, ClockAssumption DEF SInv, ServiceTyped
<1>4. ServiceTyped' /\ Sources' /\ Known' /\ Bases' /\ Bests' /\ Ordered'
  BY <1>1, <1>2, <1>3 DEF SInv, ServiceTyped, Sources, Kept, Answered, Known, Bases, Bests,
     Ordered, Alone, Above, Newest, Fresh
<1>5. Places'
  <2>1. \A q \in Reads : seen[q].arrived \in Nat
    BY DEF SInv, ServiceTyped
  <2>. QED BY <1>1, <1>2, <1>3, <2>1 DEF SInv, Places
<1>. QED BY <1>2, <1>4, <1>5 DEF SInv

LEMMA ServiceStutterInv == ASSUME SInv, UNCHANGED <<vars, serviceVars>> PROVE SInv'
<1>1. UNCHANGED <<hits, misses, rpc, report>> /\ IInv'
  BY StutterInv DEF SInv, vars, saveVars, readVars
<1>. QED BY <1>1 DEF SInv, serviceVars, callVars, ServiceTyped, Places, Sources, Kept,
         Answered, Known, Bases, Bests, Ordered, Alone, Above, Newest, Fresh

LEMMA ServiceNextInv == SInv /\ [ServiceNext]_<<vars, serviceVars>> => SInv'
BY ArriveInv, MemoryLoadInv, MemoryCheckInv, MemoryDeleteInv, RedisGetInv,
   ReadRepositoryInv, SetInv, WorkersInv, TickInv, ServiceStutterInv
   DEF ServiceNext, CacheMetrics, AllDone

THEOREM ServiceInvariance == ServiceSpec => []SInv
BY ServiceInitInv, ServiceNextInv, PTL DEF ServiceSpec

------------------------------------------------------------------------------
(* The theorems about the service. *)

\* Every variable of the service keeps its type, however the calls, the workers'
\* Saves and the clock interleave (service/eco.go:35-51).
THEOREM ServiceTypes == ServiceSpec => []ServiceTypeOK
<1>1. SInv /\ TypeOK => ServiceTypeOK
  <2>. SUFFICES ASSUME SInv, TypeOK PROVE ServiceTypeOK
    OBVIOUS
  <2>1. ServiceTyped
    BY DEF SInv
  <2>2. entry.expiresAt \in -1..MaxTime + TTL
        /\ \A q \in Reads : held[q].expiresAt \in -1..MaxTime + TTL
    BY <2>1 DEF ServiceTyped, Entries
  <2>. QED BY <2>1, <2>2 DEF ServiceTyped, ServiceTypeOK
<1>. QED BY <1>1, ServiceInvariance, ServiceRunsRepository, TypeCorrectness, PTL

\* Cutting a time to whole seconds loses less than a second.
LEMMA WholeSeconds ==
  ASSUME NEW t \in Nat
  PROVE  Whole(t) \in Nat /\ Whole(t) <= t /\ t < Whole(t) + Second
BY ClockAssumption DEF Whole

\* A token is good until its exp, never after its ttl, and loses less than a
\* second of it, for any clock, second and ttl (auth.go:31-81).
THEOREM TokensLive == ServiceSpec => []TokenLifetime
<1>1. SInv => TokenLifetime
  <2>. SUFFICES ASSUME SInv, NEW issued \in 0..now, NEW ttl \in TokenTTLs
       PROVE  /\ Accepted(issued, ttl, now) => now < issued + ttl
              /\ now + Second <= issued + ttl => Accepted(issued, ttl, now)
    BY DEF TokenLifetime
  <2>1. now \in Nat /\ issued \in Nat /\ issued <= now /\ ttl \in Nat
    BY ClockAssumption DEF SInv, ServiceTyped
  <2>. DEFINE end == issued + ttl
              iat == Whole(issued)
              exp == Whole(issued + ttl)
  <2>2. end \in Nat /\ Second \in Nat
    BY <2>1, ClockAssumption
  <2>3. /\ iat \in Nat /\ iat <= issued
        /\ exp \in Nat /\ exp <= end /\ end < exp + Second
    BY <2>1, <2>2, WholeSeconds
  <2>4. Accepted(issued, ttl, now) <=> iat <= now /\ now < exp
    BY DEF Accepted, Dates
  <2>. HIDE DEF iat, exp
  <2>5. now < exp => now < end
    BY <2>1, <2>2, <2>3
  <2>6. now + Second <= end => iat <= now /\ now < exp
    BY <2>1, <2>2, <2>3
  <2>. QED BY <2>4, <2>5, <2>6
<1>. QED BY <1>1, ServiceInvariance, PTL

\* The steps that answer: a Set, or what the cache held or a call had loaded.
LEMMA AnswerSteps ==
  ASSUME SInv, [ServiceNext]_<<vars, serviceVars>>, NEW q \in Reads, Answers(q)
  PROVE  \/ Set(q)
         \/ /\ pc[q] = "check" /\ MemoryCheck(q) /\ ~Expired(held[q])
            /\ answer'[q] = held[q].data
         \/ /\ RedisGet(q) /\ now < entry.expiresAt /\ answer'[q] = entry.data
<1>1. ServiceTyped /\ pc[q] # "answered" /\ pc'[q] = "answered" /\ pc' # pc
  BY DEF SInv, Answers
<1>2. PICK p \in Reads : CacheMetrics(p)
  BY <1>1 DEF ServiceNext, Workers, Tick, AllDone, serviceVars, callVars
<1>3. p = q
  BY <1>1, <1>2 DEF ServiceTyped, CacheMetrics, Arrive, MemoryLoad, MemoryCheck,
     MemoryDelete, RedisGet, ReadRepository, Set, Fill, Goes, serviceVars, callVars
<1>4. ~Arrive(q) /\ ~MemoryLoad(q) /\ ~MemoryDelete(q) /\ ~ReadRepository(q)
  BY <1>1 DEF ServiceTyped, Arrive, MemoryLoad, MemoryDelete, ReadRepository, Fill, Goes,
     serviceVars, callVars
<1>5. CASE MemoryCheck(q)
  BY <1>1, <1>5 DEF ServiceTyped, MemoryCheck, Goes, Answer
<1>6. CASE RedisGet(q)
  BY <1>1, <1>6 DEF ServiceTyped, RedisGet, Fill, Goes, Answer
<1>. QED BY <1>2, <1>3, <1>4, <1>5, <1>6 DEF CacheMetrics

\* However many calls overtake each other, an answer is the report of some call,
\* and was stored no longer than the TTL before the call that gets it began, or
\* was made by that call and counts all that had been counted when it looked
\* (service/eco.go:35-51, cache.go:47-67).
THEOREM StalenessIsBounded == ServiceSpec => StalenessBounded
<1>1. ASSUME SInv, [ServiceNext]_<<vars, serviceVars>>
      PROVE  [\A q \in Reads : Answers(q) =>
               \/ answer'[q] = report[q] /\ Counted(report[q]) >= seen[q].base
               \/ \E f \in Answered : /\ answer'[q] = report[f] /\ rpc[f] = "done"
                                     /\ seen[q].arrived <= stored[f] + TTL]_pc
  <2>1. SUFFICES ASSUME NEW q \in Reads, Answers(q)
        PROVE  \/ answer'[q] = report[q] /\ Counted(report[q]) >= seen[q].base
               \/ \E f \in Answered : /\ answer'[q] = report[f] /\ rpc[f] = "done"
                                     /\ seen[q].arrived <= stored[f] + TTL
    OBVIOUS
  <2>2. ServiceTyped /\ now \in Nat /\ seen[q].arrived \in Nat /\ seen[q].base \in Nat
        /\ seen[q].arrived <= now /\ TTL \in Nat
        /\ \A f \in Reads : stored[f] \in Nat
    BY <1>1, ClockAssumption DEF SInv, ServiceTyped, Places
  <2>3. CASE Set(q)
    <3>1. answer'[q] = report[q] /\ rpc[q] = "done" /\ pc[q] = "fill"
      BY <2>2, <2>3 DEF ServiceTyped, Set, Answer, Goes
    <3>2. seen[q].base <= Counted(report[q])
      BY <1>1, <3>1 DEF SInv, Bases
    <3>3. Counted(report[q]) \in Nat
      <4>1. report[q] \in Reading
        BY <1>1 DEF SInv, IInv, Typed, Reading
      <4>. QED BY <4>1, CountedType
    <3>. QED BY <2>2, <3>1, <3>2, <3>3
  <2>4. ASSUME NEW e, Kept(e), now <= e.expiresAt, answer'[q] = e.data
        PROVE  \E f \in Answered : /\ answer'[q] = report[f] /\ rpc[f] = "done"
                                   /\ seen[q].arrived <= stored[f] + TTL
    <3>1. PICK f \in Answered :
            e.data = report[f] /\ rpc[f] = "done" /\ e.expiresAt = stored[f] + TTL
      BY <2>4 DEF Kept
    <3>2. now <= stored[f] + TTL /\ stored[f] \in Nat
      BY <2>2, <2>4, <3>1 DEF Answered
    <3>3. seen[q].arrived <= stored[f] + TTL
      BY <2>2, <3>2
    <3>. QED BY <2>4, <3>1, <3>3
  <2>5. CASE pc[q] = "check" /\ ~Expired(held[q]) /\ answer'[q] = held[q].data
    <3>1. Kept(held[q])
      BY <1>1, <2>5 DEF SInv, Sources
    <3>2. now <= held[q].expiresAt
      <4>1. held[q].expiresAt \in Int
        BY <2>2, ClockAssumption DEF ServiceTyped, Entries
      <4>. QED BY <2>2, <2>5, <4>1 DEF Expired
    <3>. QED BY <2>4, <2>5, <3>1, <3>2
  <2>6. CASE now < entry.expiresAt /\ answer'[q] = entry.data
    <3>1. entry # NoEntry
      BY <2>2, <2>6, NoEntryType
    <3>2. Kept(entry)
      BY <1>1, <3>1 DEF SInv, Sources
    <3>3. now <= entry.expiresAt
      <4>1. entry.expiresAt \in Int
        BY <2>2, ClockAssumption DEF ServiceTyped, Entries
      <4>. QED BY <2>2, <2>6, <4>1
    <3>. QED BY <2>4, <2>6, <3>2, <3>3
  <2>. QED BY <1>1, <2>1, <2>3, <2>5, <2>6, AnswerSteps
<1>. QED BY <1>1, ServiceInvariance, PTL DEF ServiceSpec, StalenessBounded

\* If no two fills overlapped and Redis refused none, a call that begins after
\* another has its answer counts at least as many requests, for any number of
\* calls: expired entries, and a Delete that hits a newer entry, do no harm
\* (service/eco.go:39-49, cache.go:52-55).
THEOREM AnswersOnlyForward == ServiceSpec => AnswersGoForward
<1>1. ASSUME SInv, [ServiceNext]_<<vars, serviceVars>>
      PROVE  [\A q \in Reads : Answers(q) /\ ~disturbed' =>
               Counted(answer'[q]) >= seen[q].best]_pc
  <2>1. SUFFICES ASSUME NEW q \in Reads, Answers(q), ~disturbed'
        PROVE  Counted(answer'[q]) >= seen[q].best
    OBVIOUS
  <2>2. ServiceTyped /\ seen[q].best \in Nat /\ seen[q].base \in Nat
    BY <1>1 DEF SInv, ServiceTyped
  <2>3. seen[q].best = 0 \/ \E p \in Answered : seen[q].best <= Counted(answer[p])
    BY <1>1 DEF SInv, Bests
  <2>4. /\ \A p \in Answered : p \in Reads /\ Counted(answer[p]) \in Nat
        /\ Counted(held[q].data) \in Nat /\ Counted(entry.data) \in Nat
        /\ Counted(report[q]) \in Nat
    <3>1. report[q] \in Reading
      BY <1>1 DEF SInv, IInv, Typed, Reading
    <3>. QED BY <2>2, <3>1, CountedType DEF ServiceTyped, Entries, Answered
  <2>5. CASE Set(q)
    <3>1. /\ answer'[q] = report[q] /\ rpc[q] = "done" /\ pc[q] = "fill"
          /\ ~disturbed
      BY <2>1, <2>2, <2>5 DEF ServiceTyped, Set, Answer, Goes, Store, RedisRefuses
    <3>2. seen[q].base <= Counted(report[q])
      BY <1>1, <3>1 DEF SInv, Bases
    <3>3. \A p \in Answered : Counted(answer[p]) <= seen[q].base
      BY <1>1, <2>4, <3>1 DEF SInv, Ordered, Above
    <3>4. seen[q].best <= Counted(report[q])
      BY <2>2, <2>3, <2>4, <3>2, <3>3
    <3>. QED BY <2>2, <2>4, <3>1, <3>4
  <2>6. CASE MemoryCheck(q) /\ pc[q] = "check" /\ answer'[q] = held[q].data
    <3>1. ~disturbed
      BY <2>1, <2>6 DEF MemoryCheck
    <3>2. seen[q].best <= Counted(held[q].data)
      BY <1>1, <2>6, <3>1 DEF SInv, Ordered, Fresh
    <3>. QED BY <2>2, <2>4, <2>6, <3>2
  <2>7. CASE RedisGet(q) /\ now < entry.expiresAt /\ answer'[q] = entry.data
    <3>1. ~disturbed
      BY <2>1, <2>7 DEF RedisGet, Fill
    <3>2. entry # NoEntry
      BY <1>1, <2>7, NoEntryType, ClockAssumption DEF SInv, ServiceTyped
    <3>3. \A p \in Answered : Counted(answer[p]) <= Counted(entry.data)
      BY <1>1, <2>4, <3>1, <3>2 DEF SInv, Ordered, Newest
    <3>4. seen[q].best <= Counted(entry.data)
      BY <2>2, <2>3, <2>4, <3>3
    <3>. QED BY <2>2, <2>4, <2>7, <3>4
  <2>. QED BY <1>1, <2>1, <2>5, <2>6, <2>7, AnswerSteps
<1>. QED BY <1>1, ServiceInvariance, PTL DEF ServiceSpec, AnswersGoForward
=============================================================================
