------------------------------ MODULE Estimator ------------------------------
(***************************************************************************)
(* pkg/estimator/co2.go: Record adds to two floats with a compare-and-swap *)
(* loop and to two integers, one atomic operation after the other;         *)
(* GetMetrics and Snapshot load the four one after the other.  Each atomic *)
(* operation is a step.                                                    *)
(*                                                                         *)
(* Durations are in microseconds.  The grams of a request are its billed   *)
(* duration times a constant of the configuration, so billed microseconds  *)
(* stand for grams, and addition is exact.                                 *)
(***************************************************************************)
EXTENDS Integers, Sequences, FiniteSetsExt

CONSTANTS
  Calls,       \* calls of Record
  Durations,   \* the durations they are given
  Reads,       \* calls of GetMetrics or Snapshot
  Word         \* 2^64 in the code: unsigned integers wrap at it

ASSUME CallsAssumption     == IsFiniteSet(Calls)
ASSUME DurationsAssumption == Durations \subseteq Nat
ASSUME WordAssumption      == Word \in Nat \ {0}

VARIABLES
  pc,        \* per Record: what it does next
  call,      \* per Record: its arguments
  old,       \* per Record: the value its compare-and-swap expects
  mem,       \* the four atomic fields of the Estimator
  kind,      \* per read: which of the two it is
  seen,      \* per read: the fields it has loaded
  before     \* history, per read: the fields when it began

recordVars == <<pc, call, old, mem>>
readVars   == <<kind, seen, before>>
vars == <<recordVars, readVars>>

------------------------------------------------------------------------------
Fields   == {"total", "saved", "requests", "hits"}
Steps    == {"new", "load total", "swap total", "count request",
             "load saved", "swap saved", "count hit", "done"}
CallType == [d : Durations, hit : BOOLEAN]

\* The order in which each kind of read loads the fields.
Kinds == {"GetMetrics", "Snapshot"}
Order(k) == IF k = "GetMetrics" THEN <<"saved", "requests", "hits">>
                                ELSE <<"requests", "hits", "total", "saved">>
Loaded(k, n) == {Order(k)[i] : i \in 1..n}
HasRead(q) == DOMAIN seen[q] = Loaded(kind[q], Len(Order(kind[q])))

TypeOK ==
  /\ pc \in [Calls -> Steps]
  /\ \A c \in Calls : pc[c] # "new" => call[c] \in CallType
  /\ old \in [Calls -> Nat]
  /\ mem \in [Fields -> Nat]
  /\ kind \in [Reads -> Kinds]
  /\ \A q \in Reads : \E n \in 0..Len(Order(kind[q])) :
       seen[q] \in [Loaded(kind[q], n) -> Nat]
  /\ before \in [Reads -> [Fields -> Nat]]

Init ==
  /\ pc = [c \in Calls |-> "new"]
  /\ call = [c \in Calls |-> [d |-> 0, hit |-> FALSE]]
  /\ old = [c \in Calls |-> 0]
  /\ mem = [f \in Fields |-> 0]
  /\ kind \in [Reads -> Kinds]
  /\ seen = [q \in Reads |-> [f \in {} |-> 0]]
  /\ before = [q \in Reads |-> mem]

------------------------------------------------------------------------------
\* Record.

\* d.Milliseconds() drops the fraction; less than a microsecond becomes one.
BilledRounded(d) == IF d < 500 THEN 1 ELSE ((d + 500) \div 1000) * 1000  \* mutant
Billed(d) == IF d < 1000 THEN 1 ELSE (d \div 1000) * 1000

Goes(c, from, to) == pc[c] = from /\ pc' = [pc EXCEPT ![c] = to]

Begin(c) ==
  /\ Goes(c, "new", "load total")
  /\ \E a \in CallType : call' = [call EXCEPT ![c] = a]
  /\ UNCHANGED <<old, mem, readVars>>

\* The body of atomicAddFloat64's loop: a load, then a compare-and-swap that
\* starts the loop again when another call was faster.
LoadOld(c, from, to, field) ==
  /\ Goes(c, from, to)
  /\ old' = [old EXCEPT ![c] = mem[field]]
  /\ UNCHANGED <<call, mem, readVars>>

\* Mutant: a plain store.
SwapBlindly(c, from, to, field) ==
  /\ Goes(c, from, to)
  /\ mem' = [mem EXCEPT ![field] = old[c] + Billed(call[c].d)]
  /\ old' = [old EXCEPT ![c] = 0]
  /\ UNCHANGED <<call, readVars>>

Swap(c, from, to, field) ==
  /\ mem[field] = old[c]
  /\ Goes(c, from, to)
  /\ mem' = [mem EXCEPT ![field] = old[c] + Billed(call[c].d)]
  /\ old' = [old EXCEPT ![c] = 0]
  /\ UNCHANGED <<call, readVars>>

\* Mutant: the load is outside the loop.
RetryStale(c, from, again, field) ==
  /\ mem[field] # old[c]
  /\ pc[c] = from
  /\ UNCHANGED vars

Retry(c, from, again, field) ==
  /\ mem[field] # old[c]
  /\ Goes(c, from, again)
  /\ UNCHANGED <<call, old, mem, readVars>>

AddTotal(c) ==
  \/ LoadOld(c, "load total", "swap total", "total")
  \/ Swap(c, "swap total", "count request", "total")
  \/ Retry(c, "swap total", "load total", "total")

AfterRequest(c) == IF call[c].hit THEN "load saved" ELSE "done"

\* Mutant: only misses are counted as requests.
CountRequestOfMisses(c) ==
  /\ Goes(c, "count request", AfterRequest(c))
  /\ mem' = IF call[c].hit THEN mem ELSE [mem EXCEPT !["requests"] = @ + 1]
  /\ UNCHANGED <<call, old, readVars>>

CountRequest(c) ==
  /\ Goes(c, "count request", AfterRequest(c))
  /\ mem' = [mem EXCEPT !["requests"] = @ + 1]
  /\ UNCHANGED <<call, old, readVars>>

AddSaved(c) ==
  \/ LoadOld(c, "load saved", "swap saved", "saved")
  \/ Swap(c, "swap saved", "count hit", "saved")
  \/ Retry(c, "swap saved", "load saved", "saved")

CountHit(c) ==
  /\ Goes(c, "count hit", "done")
  /\ mem' = [mem EXCEPT !["hits"] = @ + 1]
  /\ UNCHANGED <<call, old, readVars>>

Proceed(c) == AddTotal(c) \/ CountRequest(c) \/ AddSaved(c) \/ CountHit(c)

------------------------------------------------------------------------------
\* GetMetrics and Snapshot.
HaveLoaded(q) == Cardinality(DOMAIN seen[q])
NextFieldBackwards(q) == Order(kind[q])[Len(Order(kind[q])) - HaveLoaded(q)]   \* mutant
NextField(q) == Order(kind[q])[HaveLoaded(q) + 1]

Load(q) ==
  /\ ~HasRead(q)
  /\ seen' = [seen EXCEPT ![q] =
                [g \in DOMAIN @ \cup {NextField(q)} |->
                   IF g = NextField(q) THEN mem[g] ELSE @[g]]]
  /\ before' = IF HaveLoaded(q) = 0 THEN [before EXCEPT ![q] = mem] ELSE before
  /\ UNCHANGED <<recordVars, kind>>

\* uint64(reqs - hits)
Misses(q) == (seen[q].requests - seen[q].hits) % Word

Finished ==
  /\ \A c \in Calls : pc[c] = "done"
  /\ \A q \in Reads : HasRead(q)
  /\ UNCHANGED vars

Next ==
  \/ \E c \in Calls : Begin(c) \/ Proceed(c)
  \/ \E q \in Reads : Load(q)
  \/ Finished

Spec == Init /\ [][Next]_vars

------------------------------------------------------------------------------
(* Properties *)

In(places) == {c \in Calls : pc[c] \in places}
Hit(set)   == {c \in set : call[c].hit}
Billing(set)   == SumFunctionOnSet([c \in Calls |-> Billed(call[c].d)], set)
Durating(set)  == SumFunctionOnSet([c \in Calls |-> call[c].d], set)

InTotal == In(Steps \ {"new", "load total", "swap total"})
InSaved == In({"count hit"}) \cup Hit(In({"done"}))

\* However the compare-and-swap loops interleave, both sums hold exactly the calls
\* that are past their addition, and the counters trail the sums by the calls
\* between the two.  (Record and atomicAddFloat64, co2.go:98-116 and 157-166.)
NothingLost ==
  /\ mem["total"] = Billing(InTotal)
  /\ mem["saved"] = Billing(InSaved)
  /\ mem["requests"] = Cardinality(InTotal \ In({"count request"}))
  /\ mem["hits"] = Cardinality(Hit(In({"done"})))

\* At every moment there are no more hits than requests and no more is saved than
\* was spent: a hit is counted last.  (The order of Record, co2.go:108-115.)
HitsNeverLead ==
  /\ mem["hits"] <= mem["requests"]
  /\ mem["saved"] <= mem["total"]

\* What is billed is off by less than a millisecond for each request and is never
\* more than was spent, except for what took less than 0.001 ms.  (co2.go:99-102.)
BillingBounded ==
  LET spent == Durating(InTotal)
  IN  /\ spent - mem["total"] < 1000 * Cardinality(InTotal) + 1
      /\ mem["total"] <= spent + Cardinality({c \in InTotal : call[c].d = 0})

\* Each field of a report lies between its value when the call began and its value
\* now, so a report that no Record overlaps is exact.  (co2.go:120-151.)
ReportsBracketed ==
  \A q \in Reads : \A f \in DOMAIN seen[q] :
    before[q][f] <= seen[q][f] /\ seen[q][f] <= mem[f]

\* "lê atomic values em um ponto no tempo" (co2.go:119).  There are never more hits
\* than requests, so at one point in time there is a number of misses, and it is
\* not above the number of requests.
MissesNeverWrap ==
  \A q \in Reads : kind[q] = "GetMetrics" /\ HasRead(q) => Misses(q) <= mem["requests"]
==============================================================================
