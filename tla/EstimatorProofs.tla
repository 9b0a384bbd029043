--------------------------- MODULE EstimatorProofs ---------------------------
(***************************************************************************)
(* Theorems about Estimator, for any number of Records and reads and any   *)
(* durations: the compare-and-swap loops lose nothing, hits never lead     *)
(* requests, and each field of a report is a value it has had.             *)
(***************************************************************************)
EXTENDS EstimatorRetries, SumFacts

------------------------------------------------------------------------------
(* The inductive invariant. *)

Typed ==
  /\ pc \in [Calls -> Steps]
  /\ call \in [Calls -> [d : Nat, hit : BOOLEAN]]
  /\ \A c \in Calls : pc[c] # "new" => call[c] \in CallType
  /\ old \in [Calls -> Nat]
  /\ mem \in [Fields -> Nat]

\* Only hits go on after the request is counted.
Branches == \A c \in Calls :
  pc[c] \in {"load saved", "swap saved", "count hit"} => call[c].hit

Free == {c \in InTotal : call[c].d = 0}

\* The microseconds a duration can have beyond its milliseconds.
Beyond == 999

\* What BillingBounded says, with the bound that each request adds.
Misbilled ==
  /\ Durating(InTotal) - mem["total"] <= Beyond * Cardinality(InTotal)
  /\ mem["total"] <= Durating(InTotal) + Cardinality(Free)

RecordInv == Typed /\ Branches /\ NothingLost /\ Misbilled

ReadTyped ==
  /\ kind \in [Reads -> Kinds]
  /\ before \in [Reads -> [Fields -> Nat]]
  /\ seen = [q \in Reads |-> seen[q]]
  /\ \A q \in Reads : \E n \in 0..Len(Order(kind[q])) : seen[q] \in [Loaded(kind[q], n) -> Nat]

Behind == \A q \in Reads : \A f \in Fields : before[q][f] <= mem[f]

ReadInv == ReadTyped /\ Behind /\ ReportsBracketed

IInv == RecordInv /\ ReadInv

------------------------------------------------------------------------------
(* Sets of Records and what they add. *)

LEMMA FiniteCalls ==
  \A S \in SUBSET Calls : IsFiniteSet(S) /\ Cardinality(S) \in Nat
BY CallsAssumption, FS_Subset, FS_CardinalityType

LEMMA OneMore ==
  ASSUME NEW S \in SUBSET Calls, NEW c, c \notin S
  PROVE  Cardinality(S \cup {c}) = Cardinality(S) + 1
BY FiniteCalls, FS_AddElement

\* What is billed beyond the duration.
Extra(d) == IF d = 0 THEN 1 ELSE 0

LEMMA BilledType ==
  ASSUME NEW d \in Nat
  PROVE  /\ Billed(d) \in Nat /\ d - Billed(d) <= Beyond
         /\ Billed(d) <= d + Extra(d) /\ Extra(d) \in Nat
BY DEF Billed, Extra, Beyond

LEMMA AddField ==
  ASSUME NEW m \in [Fields -> Nat], NEW f \in Fields, NEW k \in Nat
  PROVE  LET n == [m EXCEPT ![f] = m[f] + k]
         IN  /\ n \in [Fields -> Nat]
             /\ n[f] = m[f] + k
             /\ \A e \in Fields \ {f} : n[e] = m[e]
<1>1. m[f] \in Nat
  OBVIOUS
<1>2. m[f] + k \in Nat
  BY <1>1
<1>. QED BY <1>2

\* One more request: its duration, what it is billed, and the bounds.
LEMMA BilledTooLittle ==
  ASSUME NEW t \in Nat, NEW b \in Nat, NEW d \in Nat, NEW spent \in Nat, NEW n \in Nat,
         d - b <= Beyond, spent - t <= Beyond * n
  PROVE  (spent + d) - (t + b) <= Beyond * (n + 1)
BY DEF Beyond

LEMMA BilledTooMuch ==
  ASSUME NEW t \in Nat, NEW b \in Nat, NEW d \in Nat, NEW spent \in Nat,
         NEW z \in Nat, NEW e \in Nat, b <= d + e, t <= spent + z
  PROVE  t + b <= (spent + d) + (z + e)
OBVIOUS

LEMMA CallFacts ==
  ASSUME Typed
  PROVE  \A c \in Calls : call[c].d \in Nat /\ call[c].hit \in BOOLEAN
                          /\ Billed(call[c].d) \in Nat
BY BilledType DEF Typed

\* The sums are over the calls in a set and nothing else.
LEMMA SameSums ==
  ASSUME NEW S \in SUBSET Calls, \A c \in S : call'[c] = call[c]
  PROVE  Billing(S)' = Billing(S) /\ Durating(S)' = Durating(S)
<1>. DEFINE f == [c \in Calls |-> Billed(call[c].d)]
            g == [c \in Calls |-> Billed(call'[c].d)]
            h == [c \in Calls |-> call[c].d]
            k == [c \in Calls |-> call'[c].d]
<1>1. (\A c \in S : f[c] = g[c]) /\ (\A c \in S : h[c] = k[c])
  OBVIOUS
<1>2. /\ Billing(S) = SumFunctionOnSet(f, S) /\ Billing(S)' = SumFunctionOnSet(g, S)
      /\ Durating(S) = SumFunctionOnSet(h, S) /\ Durating(S)' = SumFunctionOnSet(k, S)
  BY DEF Billing, Durating
<1>. HIDE DEF f, g, h, k
<1>. QED BY <1>1, <1>2, FiniteCalls, SumSame

LEMMA SumTypes ==
  ASSUME Typed, NEW S \in SUBSET Calls
  PROVE  Billing(S) \in Nat /\ Durating(S) \in Nat
<1>. DEFINE f == [c \in Calls |-> Billed(call[c].d)]
            h == [c \in Calls |-> call[c].d]
<1>1. \A c \in S : f[c] \in Int /\ f[c] >= 0 /\ h[c] \in Int /\ h[c] >= 0
  BY CallFacts
<1>2. Billing(S) = SumFunctionOnSet(f, S) /\ Durating(S) = SumFunctionOnSet(h, S)
  BY DEF Billing, Durating
<1>. HIDE DEF f, h
<1>3. SumFunctionOnSet(f, S) \in Int /\ SumFunctionOnSet(f, S) >= 0
  BY <1>1, FiniteCalls, SumType
<1>4. SumFunctionOnSet(h, S) \in Int /\ SumFunctionOnSet(h, S) >= 0
  BY <1>1, FiniteCalls, SumType
<1>. QED BY <1>2, <1>3, <1>4

LEMMA MoreBilled ==
  ASSUME Typed, NEW S \in SUBSET Calls, NEW c \in Calls, c \notin S
  PROVE  /\ Billing(S \cup {c}) = Billing(S) + Billed(call[c].d)
         /\ Durating(S \cup {c}) = Durating(S) + call[c].d
<1>. DEFINE f == [b \in Calls |-> Billed(call[b].d)]
            h == [b \in Calls |-> call[b].d]
<1>1. \A b \in S \cup {c} : f[b] \in Int /\ h[b] \in Int
  BY CallFacts
<1>2. /\ Billing(S) = SumFunctionOnSet(f, S) /\ Durating(S) = SumFunctionOnSet(h, S)
      /\ Billing(S \cup {c}) = SumFunctionOnSet(f, S \cup {c})
      /\ Durating(S \cup {c}) = SumFunctionOnSet(h, S \cup {c})
      /\ f[c] = Billed(call[c].d) /\ h[c] = call[c].d
  BY DEF Billing, Durating
<1>. HIDE DEF f, h
<1>3. SumFunctionOnSet(f, S \cup {c}) = f[c] + SumFunctionOnSet(f, S)
  BY <1>1, FiniteCalls, SumAdd
<1>4. SumFunctionOnSet(h, S \cup {c}) = h[c] + SumFunctionOnSet(h, S)
  BY <1>1, FiniteCalls, SumAdd
<1>5. f[c] \in Int /\ SumFunctionOnSet(f, S) \in Int
  BY <1>1, FiniteCalls, SumType
<1>6. h[c] \in Int /\ SumFunctionOnSet(h, S) \in Int
  BY <1>1, FiniteCalls, SumType
<1>7. \A x, y \in Int : x + y = y + x
  OBVIOUS
<1>8. /\ SumFunctionOnSet(f, S \cup {c}) = SumFunctionOnSet(f, S) + f[c]
      /\ SumFunctionOnSet(h, S \cup {c}) = SumFunctionOnSet(h, S) + h[c]
  BY ONLY <1>3, <1>4, <1>5, <1>6, <1>7, Zenon
<1>. QED BY ONLY <1>2, <1>8

LEMMA MoreBilledThan ==
  ASSUME Typed, NEW S \in SUBSET Calls, NEW R \in SUBSET S
  PROVE  Billing(R) <= Billing(S)
<1>. DEFINE f == [c \in Calls |-> Billed(call[c].d)]
<1>1. \A c \in S : f[c] \in Nat
  BY CallFacts
<1>2. Billing(S) = SumFunctionOnSet(f, S) /\ Billing(R) = SumFunctionOnSet(f, R)
  BY DEF Billing
<1>. HIDE DEF f
<1>. QED BY <1>1, <1>2, FiniteCalls, SumMonotonic

------------------------------------------------------------------------------
(* The steps of Record. *)

LEMMA InitRecordInv == Init => RecordInv
<1>. SUFFICES ASSUME Init PROVE RecordInv
  OBVIOUS
<1>1. Typed /\ Branches
  BY DEF Init, Typed, Branches, Steps, Fields
<1>2. /\ InTotal = {} /\ InSaved = {} /\ Free = {}
      /\ InTotal \ In({"count request"}) = {} /\ Hit(In({"done"})) = {}
  BY DEF Init, InTotal, InSaved, Free, In, Hit, Steps
<1>3. Cardinality({}) = 0 /\ Billing({}) = 0 /\ Durating({}) = 0
  BY FS_EmptySet, SumEmpty DEF Billing, Durating
<1>4. \A f \in Fields : mem[f] = 0
  BY DEF Init
<1>. QED BY <1>1, <1>2, <1>3, <1>4 DEF RecordInv, NothingLost, Misbilled, Fields, Beyond

\* A step that moves nobody into a sum or a count keeps them all.
LEMMA SumsKeep ==
  ASSUME NothingLost, Misbilled, UNCHANGED mem,
         InTotal' = InTotal, InSaved' = InSaved,
         (InTotal \ In({"count request"}))' = InTotal \ In({"count request"}),
         Hit(In({"done"}))' = Hit(In({"done"})),
         \A c \in InTotal \cup InSaved : call'[c] = call[c]
  PROVE  NothingLost' /\ Misbilled'
<1>1. InTotal \in SUBSET Calls /\ InSaved \in SUBSET Calls
  BY DEF InTotal, InSaved, In, Hit
<1>2. /\ Billing(InTotal)' = Billing(InTotal) /\ Durating(InTotal)' = Durating(InTotal)
      /\ Billing(InSaved)' = Billing(InSaved)
  <2>1. /\ Billing(InTotal') = Billing(InTotal) /\ Billing(InSaved') = Billing(InSaved)
        /\ Durating(InTotal') = Durating(InTotal)
    OBVIOUS
  <2>. QED BY <1>1, SameSums DEF Billing, Durating
<1>3. Free' = Free
  BY DEF Free
<1>. QED BY <1>2, <1>3 DEF NothingLost, Misbilled

LEMMA BeginInv == ASSUME RecordInv, NEW c \in Calls, Begin(c) PROVE RecordInv'
<1>1. PICK a \in CallType : call' = [call EXCEPT ![c] = a]
  BY DEF Begin
<1>. USE DEF RecordInv, Typed, Begin, Goes
<1>2. Typed'
  BY <1>1, DurationsAssumption DEF Steps, CallType
<1>3. Branches'
  BY <1>1 DEF Branches, Steps
<1>4. /\ InTotal' = InTotal /\ InSaved' = InSaved
      /\ (InTotal \ In({"count request"}))' = InTotal \ In({"count request"})
      /\ Hit(In({"done"}))' = Hit(In({"done"}))
      /\ \A b \in InTotal \cup InSaved : call'[b] = call[b]
  BY <1>1 DEF InTotal, InSaved, In, Hit, Steps
<1>. QED BY <1>2, <1>3, <1>4, SumsKeep

\* LoadOld and Retry: both ends of the loop lie on one side of the addition.
LEMMA LoopInv ==
  ASSUME RecordInv, NEW c \in Calls,
         \/ LoadOld(c, "load total", "swap total", "total")
         \/ Retry(c, "swap total", "load total", "total")
         \/ LoadOld(c, "load saved", "swap saved", "saved")
         \/ Retry(c, "swap saved", "load saved", "saved")
  PROVE  RecordInv'
<1>1. UNCHANGED <<call, mem>>
  BY DEF LoadOld, Retry
<1>. USE DEF RecordInv
<1>2. Typed'
  BY DEF Typed, LoadOld, Retry, Goes, Steps, Fields
<1>3. \/ pc[c] \in {"load total", "swap total"}
         /\ pc' \in {[pc EXCEPT ![c] = s] : s \in {"load total", "swap total"}}
      \/ pc[c] \in {"load saved", "swap saved"}
         /\ pc' \in {[pc EXCEPT ![c] = s] : s \in {"load saved", "swap saved"}}
  BY DEF LoadOld, Retry, Goes
<1>4. Branches'
  BY <1>1, <1>3 DEF Typed, Branches
<1>5. /\ InTotal' = InTotal /\ InSaved' = InSaved
      /\ (InTotal \ In({"count request"}))' = InTotal \ In({"count request"})
      /\ Hit(In({"done"}))' = Hit(In({"done"}))
  BY <1>1, <1>3 DEF Typed, InTotal, InSaved, In, Hit, Steps
<1>. QED BY <1>1, <1>2, <1>4, <1>5, SumsKeep

\* The compare-and-swap has succeeded: what the call expected is what there was.
LEMMA SwapTotalInv ==
  ASSUME RecordInv, NEW c \in Calls, Swap(c, "swap total", "count request", "total")
  PROVE  RecordInv'
<1>. DEFINE b == Billed(call[c].d)
<1>1. /\ pc[c] = "swap total" /\ pc' = [pc EXCEPT ![c] = "count request"]
      /\ old' = [old EXCEPT ![c] = 0] /\ call' = call
  BY DEF Swap, Goes
<1>2. mem' = [mem EXCEPT !["total"] = mem["total"] + b]
  BY DEF Swap
<1>3. Typed /\ Branches /\ NothingLost /\ Misbilled
  BY DEF RecordInv
<1>4. /\ mem \in [Fields -> Nat] /\ "total" \in Fields
      /\ call[c].d \in Nat /\ b \in Nat
  BY <1>3, CallFacts DEF Typed, Fields
<1>. HIDE DEF b
<1>5. /\ mem' \in [Fields -> Nat]
      /\ mem'["total"] = mem["total"] + b
      /\ \A f \in Fields \ {"total"} : mem'[f] = mem[f]
  BY ONLY <1>2, <1>4, AddField, Zenon
<1>6. Typed'
  BY ONLY <1>1, <1>3, <1>5, c \in Calls DEF Typed, Steps
<1>7. Branches'
  BY ONLY <1>1, <1>3, c \in Calls DEF Typed, Branches
<1>8. /\ InTotal' = InTotal \cup {c} /\ c \notin InTotal /\ InSaved' = InSaved
      /\ (InTotal \ In({"count request"}))' = InTotal \ In({"count request"})
      /\ Hit(In({"done"}))' = Hit(In({"done"}))
      /\ InTotal \in SUBSET Calls
  BY ONLY <1>1, <1>3, c \in Calls DEF Typed, InTotal, InSaved, In, Hit, Steps
<1>9. /\ Billing(InTotal)' = Billing(InTotal) + b
      /\ Durating(InTotal)' = Durating(InTotal) + call[c].d
  <2>1. /\ Billing(InTotal)' = Billing(InTotal \cup {c})
        /\ Durating(InTotal)' = Durating(InTotal \cup {c})
    BY ONLY <1>1, <1>8 DEF Billing, Durating
  <2>2. /\ Billing(InTotal \cup {c}) = Billing(InTotal) + b
        /\ Durating(InTotal \cup {c}) = Durating(InTotal) + call[c].d
    BY <1>3, <1>8, MoreBilled DEF b
  <2>. QED BY ONLY <2>1, <2>2
<1>10. Billing(InSaved)' = Billing(InSaved)
  BY ONLY <1>1, <1>8 DEF Billing
<1>11. NothingLost'
  <2>1. mem["total"] = Billing(InTotal)
    BY ONLY <1>3 DEF NothingLost
  <2>2. mem'["total"] = Billing(InTotal)'
    BY ONLY <1>5, <1>9, <2>1
  <2>3. \A f \in {"saved", "requests", "hits"} : mem'[f] = mem[f]
    BY ONLY <1>5 DEF Fields
  <2>. QED BY ONLY <1>3, <1>8, <1>10, <2>2, <2>3 DEF NothingLost
<1>12. Misbilled'
  <2>. DEFINE n == Cardinality(InTotal)
              z == Cardinality(Free)
              e == Extra(call[c].d)
  <2>1. Cardinality(InTotal)' = n + 1 /\ n \in Nat
    BY <1>8, OneMore, FiniteCalls
  <2>2. /\ call[c].d - b <= Beyond /\ b <= call[c].d + e /\ e \in Nat
    BY ONLY <1>4, BilledType, Zenon DEF b
  <2>3. Cardinality(Free)' = z + e /\ z \in Nat
    <3>1. Free \in SUBSET Calls
      BY <1>8 DEF Free
    <3>2. z \in Nat
      BY <3>1, FiniteCalls
    <3>3. CASE call[c].d = 0
      <4>1. Free' = Free \cup {c} /\ c \notin Free
        BY ONLY <1>1, <1>8, <3>3 DEF Free
      <4>2. Cardinality(Free)' = z + 1
        BY <3>1, <4>1, OneMore
      <4>3. e = 1
        BY ONLY <3>3 DEF Extra
      <4>. QED BY ONLY <3>2, <4>2, <4>3
    <3>4. CASE call[c].d # 0
      <4>1. Free' = Free
        BY ONLY <1>1, <1>8, <3>4 DEF Free
      <4>2. e = 0
        BY ONLY <3>4 DEF Extra
      <4>3. z + 0 = z
        BY ONLY <3>2
      <4>. QED BY ONLY <3>2, <4>1, <4>2, <4>3
    <3>. QED BY ONLY <3>3, <3>4
  <2>4. Durating(InTotal) \in Nat /\ mem["total"] \in Nat
    BY <1>3, <1>4, <1>8, SumTypes
  <2>5. Durating(InTotal) - mem["total"] <= Beyond * n /\ mem["total"] <= Durating(InTotal) + z
    BY ONLY <1>3 DEF Misbilled
  <2>. HIDE DEF n, z, e
  <2>6. (Durating(InTotal) + call[c].d) - (mem["total"] + b) <= Beyond * (n + 1)
    BY ONLY <1>4, <2>1, <2>2, <2>4, <2>5, BilledTooLittle, Zenon
  <2>7. mem["total"] + b <= (Durating(InTotal) + call[c].d) + (z + e)
    BY ONLY <1>4, <2>2, <2>3, <2>4, <2>5, BilledTooMuch, Zenon
  <2>8. Durating(InTotal)' - mem'["total"] <= Beyond * Cardinality(InTotal)'
    BY ONLY <1>5, <1>9, <2>1, <2>6, Zenon
  <2>9. mem'["total"] <= Durating(InTotal)' + Cardinality(Free)'
    BY ONLY <1>5, <1>9, <2>3, <2>7, Zenon
  <2>. QED BY ONLY <2>8, <2>9 DEF Misbilled
<1>. QED BY <1>6, <1>7, <1>11, <1>12 DEF RecordInv

LEMMA SwapSavedInv ==
  ASSUME RecordInv, NEW c \in Calls, Swap(c, "swap saved", "count hit", "saved")
  PROVE  RecordInv'
<1>. DEFINE b == Billed(call[c].d)
<1>1. /\ pc[c] = "swap saved" /\ pc' = [pc EXCEPT ![c] = "count hit"]
      /\ old' = [old EXCEPT ![c] = 0] /\ call' = call
  BY DEF Swap, Goes
<1>2. mem' = [mem EXCEPT !["saved"] = mem["saved"] + b]
  BY DEF Swap
<1>3. Typed /\ Branches /\ NothingLost /\ Misbilled
  BY DEF RecordInv
<1>4. mem \in [Fields -> Nat] /\ "saved" \in Fields /\ b \in Nat
  BY <1>3, CallFacts DEF Typed, Fields
<1>. HIDE DEF b
<1>5. /\ mem' \in [Fields -> Nat]
      /\ mem'["saved"] = mem["saved"] + b
      /\ \A f \in Fields \ {"saved"} : mem'[f] = mem[f]
  BY ONLY <1>2, <1>4, AddField, Zenon
<1>6. Typed'
  BY ONLY <1>1, <1>3, <1>5, c \in Calls DEF Typed, Steps
<1>7. Branches'
  BY ONLY <1>1, <1>3, c \in Calls DEF Typed, Branches
<1>8. /\ InSaved' = InSaved \cup {c} /\ c \notin InSaved /\ InTotal' = InTotal
      /\ (InTotal \ In({"count request"}))' = InTotal \ In({"count request"})
      /\ Hit(In({"done"}))' = Hit(In({"done"}))
      /\ InSaved \in SUBSET Calls
  <2>1. pc \in [Calls -> Steps]
    BY ONLY <1>3 DEF Typed
  <2>2. Hit(In({"done"}))' = Hit(In({"done"})) /\ c \notin In({"done"})
    BY ONLY <1>1, <2>1, c \in Calls DEF In, Hit
  <2>3. In({"count hit"})' = In({"count hit"}) \cup {c} /\ c \notin In({"count hit"})
    BY ONLY <1>1, <2>1, c \in Calls DEF In
  <2>4. InTotal' = InTotal /\ In({"count request"})' = In({"count request"})
    BY ONLY <1>1, <2>1, c \in Calls DEF InTotal, In, Steps
  <2>5. InSaved \in SUBSET Calls
    BY DEF InSaved, In, Hit
  <2>. QED BY ONLY <2>2, <2>3, <2>4, <2>5 DEF InSaved, Hit
<1>8a. Free' = Free
  BY ONLY <1>1, <1>8 DEF Free
<1>9. Billing(InSaved)' = Billing(InSaved) + b
  <2>1. Billing(InSaved)' = Billing(InSaved \cup {c})
    BY ONLY <1>1, <1>8 DEF Billing
  <2>2. Billing(InSaved \cup {c}) = Billing(InSaved) + b
    BY <1>3, <1>8, MoreBilled DEF b
  <2>. QED BY ONLY <2>1, <2>2
<1>10. Billing(InTotal)' = Billing(InTotal) /\ Durating(InTotal)' = Durating(InTotal)
  BY ONLY <1>1, <1>8 DEF Billing, Durating
<1>11. \A f \in {"total", "requests", "hits"} : mem'[f] = mem[f]
  BY ONLY <1>5 DEF Fields
<1>12. NothingLost'
  <2>1. mem["saved"] = Billing(InSaved)
    BY ONLY <1>3 DEF NothingLost
  <2>2. mem'["saved"] = Billing(InSaved)'
    BY ONLY <1>5, <1>9, <2>1
  <2>. QED BY ONLY <1>3, <1>8, <1>10, <1>11, <2>2 DEF NothingLost
<1>13. Misbilled'
  <2>1. mem'["total"] = mem["total"]
    BY ONLY <1>11
  <2>. QED BY ONLY <1>3, <1>8, <1>8a, <1>10, <2>1, Zenon DEF Misbilled
<1>. QED BY <1>6, <1>7, <1>12, <1>13 DEF RecordInv

LEMMA CountRequestInv == ASSUME RecordInv, NEW c \in Calls, CountRequest(c) PROVE RecordInv'
<1>1. /\ pc[c] = "count request" /\ pc' = [pc EXCEPT ![c] = AfterRequest(c)]
      /\ UNCHANGED <<call, old>>
  BY DEF CountRequest, Goes
<1>2. mem' = [mem EXCEPT !["requests"] = mem["requests"] + 1]
  BY DEF CountRequest
<1>3. Typed /\ Branches /\ NothingLost /\ Misbilled
  BY DEF RecordInv
<1>4. mem \in [Fields -> Nat] /\ "requests" \in Fields /\ 1 \in Nat
  BY <1>3 DEF Typed, Fields
<1>5. /\ mem' \in [Fields -> Nat]
      /\ mem'["requests"] = mem["requests"] + 1
      /\ \A f \in Fields \ {"requests"} : mem'[f] = mem[f]
  BY ONLY <1>2, <1>4, AddField, Zenon
<1>6. \/ call[c].hit /\ AfterRequest(c) = "load saved"
      \/ ~call[c].hit /\ AfterRequest(c) = "done"
  BY DEF AfterRequest
<1>7. Typed'
  BY ONLY <1>1, <1>3, <1>5, <1>6, c \in Calls DEF Typed, Steps
<1>8. Branches'
  BY ONLY <1>1, <1>3, <1>6, c \in Calls DEF Typed, Branches
<1>9. /\ InSaved' = InSaved /\ InTotal' = InTotal
      /\ (InTotal \ In({"count request"}))' = (InTotal \ In({"count request"})) \cup {c}
      /\ c \notin InTotal \ In({"count request"})
      /\ InTotal \ In({"count request"}) \in SUBSET Calls
      /\ Hit(In({"done"}))' = Hit(In({"done"})) /\ Free' = Free
  BY ONLY <1>1, <1>3, <1>6, c \in Calls DEF Typed, InTotal, InSaved, In, Hit, Steps, Free
<1>10. Cardinality(InTotal \ In({"count request"}))' =
         Cardinality(InTotal \ In({"count request"})) + 1
  BY <1>9, OneMore
<1>11. /\ Billing(InTotal)' = Billing(InTotal) /\ Durating(InTotal)' = Durating(InTotal)
       /\ Billing(InSaved)' = Billing(InSaved)
  BY ONLY <1>1, <1>9 DEF Billing, Durating
<1>12. \A f \in {"total", "saved", "hits"} : mem'[f] = mem[f]
  BY ONLY <1>5 DEF Fields
<1>13. NothingLost'
  <2>1. mem'["requests"] = Cardinality(InTotal \ In({"count request"}))'
    BY ONLY <1>3, <1>5, <1>10 DEF NothingLost
  <2>. QED BY ONLY <1>3, <1>9, <1>11, <1>12, <2>1 DEF NothingLost
<1>14. Misbilled'
  <2>1. mem'["total"] = mem["total"]
    BY ONLY <1>12
  <2>. QED BY ONLY <1>3, <1>9, <1>11, <2>1, Zenon DEF Misbilled
<1>. QED BY <1>7, <1>8, <1>13, <1>14 DEF RecordInv

LEMMA CountHitInv == ASSUME RecordInv, NEW c \in Calls, CountHit(c) PROVE RecordInv'
<1>1. /\ pc[c] = "count hit" /\ pc' = [pc EXCEPT ![c] = "done"]
      /\ UNCHANGED <<call, old>>
  BY DEF CountHit, Goes
<1>2. mem' = [mem EXCEPT !["hits"] = mem["hits"] + 1]
  BY DEF CountHit
<1>3. Typed /\ Branches /\ NothingLost /\ Misbilled
  BY DEF RecordInv
<1>4. mem \in [Fields -> Nat] /\ "hits" \in Fields /\ 1 \in Nat
  BY <1>3 DEF Typed, Fields
<1>5. /\ mem' \in [Fields -> Nat]
      /\ mem'["hits"] = mem["hits"] + 1
      /\ \A f \in Fields \ {"hits"} : mem'[f] = mem[f]
  BY ONLY <1>2, <1>4, AddField, Zenon
<1>6. call[c].hit
  BY <1>1, <1>3 DEF Branches
<1>7. Typed'
  BY ONLY <1>1, <1>3, <1>5, c \in Calls DEF Typed, Steps
<1>8. Branches'
  BY ONLY <1>1, <1>3, c \in Calls DEF Typed, Branches
<1>9. /\ InSaved' = InSaved /\ InTotal' = InTotal /\ Free' = Free
      /\ (InTotal \ In({"count request"}))' = InTotal \ In({"count request"})
      /\ Hit(In({"done"}))' = Hit(In({"done"})) \cup {c} /\ c \notin Hit(In({"done"}))
      /\ Hit(In({"done"})) \in SUBSET Calls
  BY ONLY <1>1, <1>3, <1>6, c \in Calls DEF Typed, InTotal, InSaved, In, Hit, Steps, Free
<1>10. Cardinality(Hit(In({"done"})))' = Cardinality(Hit(In({"done"}))) + 1
  BY <1>9, OneMore
<1>11. /\ Billing(InTotal)' = Billing(InTotal) /\ Durating(InTotal)' = Durating(InTotal)
       /\ Billing(InSaved)' = Billing(InSaved)
  BY ONLY <1>1, <1>9 DEF Billing, Durating
<1>12. \A f \in {"total", "saved", "requests"} : mem'[f] = mem[f]
  BY ONLY <1>5 DEF Fields
<1>13. NothingLost'
  <2>1. mem'["hits"] = Cardinality(Hit(In({"done"})))'
    BY ONLY <1>3, <1>5, <1>10 DEF NothingLost
  <2>. QED BY ONLY <1>3, <1>9, <1>11, <1>12, <2>1 DEF NothingLost
<1>14. Misbilled'
  <2>1. mem'["total"] = mem["total"]
    BY ONLY <1>12
  <2>. QED BY ONLY <1>3, <1>9, <1>11, <2>1, Zenon DEF Misbilled
<1>. QED BY <1>7, <1>8, <1>13, <1>14 DEF RecordInv

LEMMA ProceedInv == ASSUME RecordInv, NEW c \in Calls, Proceed(c) PROVE RecordInv'
<1>1. CASE AddTotal(c)
  BY <1>1, LoopInv, SwapTotalInv DEF AddTotal
<1>2. CASE CountRequest(c)
  BY <1>2, CountRequestInv
<1>3. CASE AddSaved(c)
  BY <1>3, LoopInv, SwapSavedInv DEF AddSaved
<1>4. CASE CountHit(c)
  BY <1>4, CountHitInv
<1>. QED BY <1>1, <1>2, <1>3, <1>4 DEF Proceed

------------------------------------------------------------------------------
(* Reads: the fields only grow, and each is loaded once. *)

LEMMA FieldsGrow ==
  ASSUME Typed, NEW c \in Calls, Begin(c) \/ Proceed(c)
  PROVE  (\A f \in Fields : mem[f] <= mem'[f]) /\ UNCHANGED readVars
<1>1. UNCHANGED readVars
  BY DEF Begin, Proceed, AddTotal, AddSaved, LoadOld, Swap, Retry, CountRequest, CountHit
<1>2. \/ mem' = mem
      \/ \E f \in Fields : \E k \in Nat : mem' = [mem EXCEPT ![f] = mem[f] + k]
  <2>1. Begin(c) => mem' = mem
    BY DEF Begin
  <2>2. "total" \in Fields /\ "saved" \in Fields /\ "requests" \in Fields /\ "hits" \in Fields
    BY DEF Fields
  <2>3. Billed(call[c].d) \in Nat /\ 1 \in Nat
    BY CallFacts
  <2>4. AddTotal(c) => \/ mem' = mem
                       \/ mem' = [mem EXCEPT !["total"] = mem["total"] + Billed(call[c].d)]
    BY DEF AddTotal, LoadOld, Swap, Retry
  <2>5. AddSaved(c) => \/ mem' = mem
                       \/ mem' = [mem EXCEPT !["saved"] = mem["saved"] + Billed(call[c].d)]
    BY DEF AddSaved, LoadOld, Swap, Retry
  <2>6. CountRequest(c) => mem' = [mem EXCEPT !["requests"] = mem["requests"] + 1]
    BY DEF CountRequest
  <2>7. CountHit(c) => mem' = [mem EXCEPT !["hits"] = mem["hits"] + 1]
    BY DEF CountHit
  <2>8. Begin(c) \/ AddTotal(c) \/ CountRequest(c) \/ AddSaved(c) \/ CountHit(c)
    BY DEF Proceed
  <2>. QED BY ONLY <2>1, <2>2, <2>3, <2>4, <2>5, <2>6, <2>7, <2>8, Zenon
<1>3. \A f \in Fields : mem[f] <= mem'[f]
  <2>. SUFFICES ASSUME NEW f \in Fields PROVE mem[f] <= mem'[f]
    OBVIOUS
  <2>0. mem \in [Fields -> Nat] /\ mem[f] \in Nat
    BY DEF Typed
  <2>1. CASE mem' = mem
    BY ONLY <2>0, <2>1
  <2>2. CASE \E g \in Fields : \E k \in Nat : mem' = [mem EXCEPT ![g] = mem[g] + k]
    <3>1. PICK g \in Fields, k \in Nat : mem' = [mem EXCEPT ![g] = mem[g] + k]
      BY <2>2
    <3>2. mem'[f] = mem[f] + k \/ mem'[f] = mem[f]
      BY ONLY <2>0, <3>1, AddField, g \in Fields, f \in Fields, k \in Nat, Zenon
    <3>. QED BY ONLY <2>0, <3>2, k \in Nat
  <2>. QED BY ONLY <1>2, <2>1, <2>2
<1>. QED BY <1>1, <1>3

LEMMA OrderFacts ==
  ASSUME NEW k \in Kinds
  PROVE  /\ Len(Order(k)) \in Nat /\ DOMAIN Order(k) = 1..Len(Order(k))
         /\ \A i \in DOMAIN Order(k) : Order(k)[i] \in Fields
         /\ \A i, j \in DOMAIN Order(k) : i # j => Order(k)[i] # Order(k)[j]
<1>1. CASE k = "GetMetrics"
  BY <1>1 DEF Order, Fields
<1>2. CASE k = "Snapshot"
  BY <1>2 DEF Order, Fields
<1>. QED BY <1>1, <1>2 DEF Kinds

LEMMA PrefixSize ==
  ASSUME NEW o, NEW n \in Nat, \A i, j \in 1..n : i # j => o[i] # o[j]
  PROVE  Cardinality({o[i] : i \in 1..n}) = n
<1>. DEFINE f == [i \in 1..n |-> o[i]]
            S == {o[i] : i \in 1..n}
<1>1. f \in Bijection(1..n, S)
  BY DEF Bijection, Injection, Surjection, IsInjective
<1>2. ExistsBijection(1..n, S)
  BY <1>1 DEF ExistsBijection
<1>. QED BY <1>2, FS_CountingElements

LEMMA InitReadInv == Init => ReadInv
<1>. SUFFICES ASSUME Init PROVE ReadInv
  OBVIOUS
<1>1. /\ kind \in [Reads -> Kinds]
      /\ before \in [Reads -> [Fields -> Nat]]
      /\ seen = [q \in Reads |-> seen[q]]
      /\ Behind /\ \A q \in Reads : DOMAIN seen[q] = {}
  BY DEF Init, Behind, Fields
<1>2. \A q \in Reads : seen[q] \in [Loaded(kind[q], 0) -> Nat] /\ 0 \in 0..Len(Order(kind[q]))
  BY DEF Init, Loaded, Order
<1>. QED BY <1>1, <1>2 DEF ReadInv, ReadTyped, ReportsBracketed

LEMMA ReadsKeep ==
  ASSUME ReadInv, Typed, Typed', \A f \in Fields : mem[f] <= mem'[f], UNCHANGED readVars
  PROVE  ReadInv'
<1>1. ReadTyped'
  BY DEF ReadInv, ReadTyped, readVars
<1>2. \A f \in Fields : mem[f] \in Nat /\ mem'[f] \in Nat
  BY DEF Typed
<1>3. \A q \in Reads : \A f \in Fields : before[q][f] \in Nat
  BY DEF ReadInv, ReadTyped
<1>4. \A q \in Reads : \A f \in DOMAIN seen[q] : f \in Fields /\ seen[q][f] \in Nat
  <2>. TAKE q \in Reads
  <2>1. PICK n \in 0..Len(Order(kind[q])) : seen[q] \in [Loaded(kind[q], n) -> Nat]
    BY DEF ReadInv, ReadTyped
  <2>2. kind[q] \in Kinds
    BY DEF ReadInv, ReadTyped
  <2>3. Loaded(kind[q], n) \subseteq Fields
    <3>1. 1..n \subseteq DOMAIN Order(kind[q])
      BY <2>2, OrderFacts
    <3>. QED BY <2>2, <3>1, OrderFacts DEF Loaded
  <2>. QED BY <2>1, <2>3
<1>5. Behind'
  BY <1>2, <1>3 DEF ReadInv, Behind, readVars
<1>6. ReportsBracketed'
  BY <1>2, <1>3, <1>4 DEF ReadInv, ReportsBracketed, readVars
<1>. QED BY <1>1, <1>5, <1>6 DEF ReadInv

LEMMA LoadInv == ASSUME ReadInv, Typed, NEW q \in Reads, Load(q) PROVE ReadInv'
<1>1. PICK n \in 0..Len(Order(kind[q])) : seen[q] \in [Loaded(kind[q], n) -> Nat]
  BY DEF ReadInv, ReadTyped
<1>. DEFINE o == Order(kind[q])
            x == o[n + 1]
<1>2. /\ Len(o) \in Nat /\ DOMAIN o = 1..Len(o) /\ n \in 0..Len(o)
      /\ \A i \in DOMAIN o : o[i] \in Fields
      /\ \A i, j \in DOMAIN o : i # j => o[i] # o[j]
  <2>1. kind[q] \in Kinds
    BY DEF ReadInv, ReadTyped
  <2>. QED BY <1>1, <2>1, OrderFacts
<1>3. HaveLoaded(q) = n
  <2>1. DOMAIN seen[q] = {o[i] : i \in 1..n}
    BY <1>1 DEF Loaded
  <2>2. n \in Nat /\ \A i, j \in 1..n : i # j => o[i] # o[j]
    <3>. HIDE DEF o
    <3>. QED BY <1>2
  <2>. HIDE DEF o
  <2>. QED BY <2>1, <2>2, PrefixSize DEF HaveLoaded
<1>4. n + 1 \in DOMAIN o /\ n \in Nat
  <2>1. n # Len(o)
    BY <1>1, <1>2 DEF Load, HasRead, Loaded
  <2>2. ASSUME NEW l \in Nat, n \in 0..l, n # l PROVE n + 1 \in 1..l /\ n \in Nat
    BY ONLY <2>2
  <2>. HIDE DEF o
  <2>. QED BY ONLY <1>2, <2>1, <2>2
<1>5. /\ Loaded(kind[q], n + 1) = Loaded(kind[q], n) \cup {x}
      /\ x \notin Loaded(kind[q], n) /\ x \in Fields
  <2>1. 1..(n + 1) = (1..n) \cup {n + 1} /\ n + 1 \notin 1..n /\ 1..n \subseteq DOMAIN o
    <3>. HIDE DEF o
    <3>. QED BY <1>2, <1>4
  <2>. QED BY <1>2, <1>4, <2>1 DEF Loaded
<1>6. seen' = [seen EXCEPT ![q] = [g \in DOMAIN seen[q] \cup {x} |->
                                     IF g = x THEN mem[g] ELSE seen[q][g]]]
  BY <1>3 DEF Load, NextField
<1>. HIDE DEF x, o
<1>8. /\ seen' = [p \in Reads |-> seen'[p]]
      /\ \A p \in Reads \ {q} : seen'[p] = seen[p]
      /\ seen'[q] = [g \in Loaded(kind[q], n) \cup {x} |-> IF g = x THEN mem[g] ELSE seen[q][g]]
  BY <1>1, <1>6 DEF ReadInv, ReadTyped
<1>9. /\ UNCHANGED <<mem, kind>>
      /\ \A p \in Reads \ {q} : before'[p] = before[p]
      /\ before'[q] = IF n = 0 THEN mem ELSE before[q]
      /\ before' \in [Reads -> [Fields -> Nat]]
  BY <1>3 DEF Load, ReadInv, ReadTyped, Typed, recordVars
<1>10. ReadTyped'
  <2>1. seen'[q] \in [Loaded(kind[q], n + 1) -> Nat]
    BY <1>1, <1>5, <1>8 DEF Typed
  <2>2. n + 1 \in 0..Len(Order(kind[q]))
    BY <1>2, <1>4 DEF o
  <2>3. \A p \in Reads : \E m \in 0..Len(Order(kind[p])) : seen'[p] \in [Loaded(kind[p], m) -> Nat]
    BY <1>8, <2>1, <2>2 DEF ReadInv, ReadTyped
  <2>. QED BY <1>8, <1>9, <2>3 DEF ReadInv, ReadTyped
<1>11. Behind'
  <2>1. \A f \in Fields : mem[f] <= mem[f]
    BY DEF Typed
  <2>. QED BY <1>9, <2>1 DEF ReadInv, Behind
<1>12. ReportsBracketed'
  <2>. SUFFICES ASSUME NEW p \in Reads, NEW f \in DOMAIN seen'[p]
                PROVE  before'[p][f] <= seen'[p][f] /\ seen'[p][f] <= mem[f]
    BY <1>9 DEF ReportsBracketed
  <2>1. CASE p # q
    BY <1>8, <1>9, <2>1 DEF ReadInv, ReportsBracketed
  <2>2. CASE p = q /\ f = x
    <3>1. seen'[q][x] = mem[x] /\ mem[x] \in Nat
      BY <1>5, <1>8 DEF Typed
    <3>2. before'[q][x] <= mem[x]
      BY <1>5, <1>9, <1>11 DEF Behind
    <3>. QED BY <2>2, <3>1, <3>2
  <2>3. CASE p = q /\ f # x
    <3>1. f \in Loaded(kind[q], n) /\ seen'[q][f] = seen[q][f] /\ f \in DOMAIN seen[q]
      BY <1>1, <1>8, <2>3
    <3>2. n # 0
      BY <3>1 DEF Loaded
    <3>. QED BY <1>9, <2>3, <3>1, <3>2 DEF ReadInv, ReportsBracketed
  <2>. QED BY <2>1, <2>2, <2>3
<1>. QED BY <1>10, <1>11, <1>12 DEF ReadInv

------------------------------------------------------------------------------
(* The retries of the loop. *)

Sum(c) == IF pc[c] \in {"load total", "swap total"} THEN "total" ELSE "saved"

\* RetriesPaid, with the addition that pays for a failure still to come.
Paid(c) ==
  /\ pc[c] \in Looping => failed[c] + since[c] <= Cardinality(Added(c))
  /\ pc[c] \in Trying /\ mem[Sum(c)] # old[c] =>
       failed[c] + 1 + since[c] <= Cardinality(Added(c))
  /\ pc[c] \notin Looping => failed[c] = 0

RetriesInv ==
  /\ failed \in [Calls -> Nat]
  /\ since \in [Calls -> Nat]
  /\ \A c \in Calls : Paid(c)

LEMMA BilledPositive == \A d \in Nat : Billed(d) # 0
BY DEF Billed

LEMMA AddersType ==
  /\ InTotal \in SUBSET Calls /\ Cardinality(InTotal) \in Nat
  /\ InSaved \in SUBSET Calls /\ Cardinality(InSaved) \in Nat
  /\ \A c : Added(c) \in SUBSET Calls /\ Cardinality(Added(c)) \in Nat
<1>1. InTotal \in SUBSET Calls /\ InSaved \in SUBSET Calls
  BY DEF InTotal, InSaved, In, Hit
<1>. QED BY <1>1, FiniteCalls DEF Added

\* A step leaves a sum and the calls past it as they were, or takes one call past it.
Untouched(set, f) == set' = set /\ mem'[f] = mem[f]
Passes(c, set)    == c \notin set /\ set' = set \cup {c}

LEMMA OthersAdd ==
  ASSUME Typed, Branches, NEW c \in Calls, Begin(c) \/ Proceed(c)
  PROVE  /\ Untouched(InTotal, "total") \/ Passes(c, InTotal)
         /\ Untouched(InSaved, "saved") \/ Passes(c, InSaved)
<1>0. pc \in [Calls -> Steps] /\ call \in [Calls -> [d : Nat, hit : BOOLEAN]]
      /\ mem \in [Fields -> Nat]
  BY DEF Typed
<1>1. CASE Begin(c)
  BY ONLY <1>0, <1>1, c \in Calls
     DEF Begin, Goes, Untouched, InTotal, InSaved, In, Hit, Steps, CallType
<1>2. CASE /\ pc[c] \in {"load total", "swap total", "load saved", "swap saved"}
           /\ \E s \in {"load total", "swap total", "load saved", "swap saved"} :
                /\ pc[c] \in {"load total", "swap total"} <=> s \in {"load total", "swap total"}
                /\ pc' = [pc EXCEPT ![c] = s]
           /\ UNCHANGED <<call, mem>>
  BY ONLY <1>0, <1>2, c \in Calls DEF Untouched, InTotal, InSaved, In, Hit, Steps
<1>3. CASE Swap(c, "swap total", "count request", "total")
  <2>1. pc[c] = "swap total" /\ pc' = [pc EXCEPT ![c] = "count request"] /\ call' = call
    BY <1>3 DEF Swap, Goes
  <2>2. mem'["saved"] = mem["saved"]
    BY <1>0, <1>3 DEF Swap, Fields
  <2>. QED BY ONLY <1>0, <2>1, <2>2, c \in Calls
           DEF Untouched, Passes, InTotal, InSaved, In, Hit, Steps
<1>4. CASE Swap(c, "swap saved", "count hit", "saved")
  <2>1. pc[c] = "swap saved" /\ pc' = [pc EXCEPT ![c] = "count hit"] /\ call' = call
    BY <1>4 DEF Swap, Goes
  <2>2. mem'["total"] = mem["total"]
    BY <1>0, <1>4 DEF Swap, Fields
  <2>. QED BY ONLY <1>0, <2>1, <2>2, c \in Calls
           DEF Untouched, Passes, InTotal, InSaved, In, Hit, Steps
<1>5. CASE CountRequest(c)
  <2>1. pc[c] = "count request" /\ pc' = [pc EXCEPT ![c] = AfterRequest(c)] /\ call' = call
    BY <1>5 DEF CountRequest, Goes
  <2>2. mem'["total"] = mem["total"] /\ mem'["saved"] = mem["saved"]
    BY <1>0, <1>5 DEF CountRequest, Fields
  <2>. QED BY ONLY <1>0, <2>1, <2>2, c \in Calls
           DEF AfterRequest, Untouched, InTotal, InSaved, In, Hit, Steps
<1>6. CASE CountHit(c)
  <2>1. pc[c] = "count hit" /\ pc' = [pc EXCEPT ![c] = "done"] /\ call' = call
    BY <1>6 DEF CountHit, Goes
  <2>2. mem'["total"] = mem["total"] /\ mem'["saved"] = mem["saved"] /\ call[c].hit
    BY <1>0, <1>6, <2>1 DEF CountHit, Fields, Branches
  <2>. QED BY ONLY <1>0, <2>1, <2>2, c \in Calls
           DEF Untouched, InTotal, InSaved, In, Hit, Steps
<1>. QED BY <1>1, <1>2, <1>3, <1>4, <1>5, <1>6
         DEF Proceed, AddTotal, AddSaved, LoadOld, Retry, Goes

\* What a step of c means for the loop of another Record b.
LEMMA OthersPaid ==
  ASSUME Typed, Branches, RetriesInv, NEW c \in Calls, Begin(c) \/ Proceed(c),
         NEW b \in Calls, b # c, failed'[b] = failed[b], since'[b] = since[b]
  PROVE  Paid(b)'
<1>1. pc'[b] = pc[b] /\ old'[b] = old[b]
  BY DEF Begin, Proceed, AddTotal, AddSaved, LoadOld, Swap, Retry, CountRequest, CountHit,
         Goes, Typed
<1>2. \/ Added(b)' = Added(b) /\ mem'[Sum(b)] = mem[Sum(b)]
      \/ c \notin Added(b) /\ Added(b)' = Added(b) \cup {c}
  BY <1>1, OthersAdd DEF Added, Sum, Untouched, Passes
<1>3. Sum(b)' = Sum(b)
  BY <1>1 DEF Sum
<1>. DEFINE n == Cardinality(Added(b))
            m == Cardinality(Added(b)')
<1>4. n \in Nat /\ failed[b] \in Nat /\ since[b] \in Nat /\ Paid(b)
  BY AddersType DEF RetriesInv
<1>5. \/ m = n /\ mem'[Sum(b)] = mem[Sum(b)]
      \/ m = n + 1
  BY <1>2, AddersType, OneMore
<1>6. Cardinality(Added(b))' = m /\ mem'[Sum(b)'] = mem'[Sum(b)]
  BY ONLY <1>3
<1>7. /\ pc[b] \in Looping => failed[b] + since[b] <= n
      /\ pc[b] \in Trying /\ mem[Sum(b)] # old[b] => failed[b] + 1 + since[b] <= n
      /\ pc[b] \notin Looping => failed[b] = 0
  BY ONLY <1>4 DEF Paid
<1>. HIDE DEF n, m
<1>8. /\ pc[b] \in Looping => failed[b] + since[b] <= m
      /\ pc[b] \in Trying /\ mem'[Sum(b)] # old[b] => failed[b] + 1 + since[b] <= m
      /\ pc[b] \notin Looping => failed[b] = 0
  <2>1. pc[b] \in Trying => pc[b] \in Looping
    BY DEF Trying, Looping
  <2>. QED BY ONLY <1>4, <1>5, <1>7, <2>1
<1>. QED BY <1>1, <1>6, <1>8 DEF Paid, Looping, Trying

\* What a step of the loop does: it reads the sum, changes it, or fails and starts again.
LEMMA LoopSteps ==
  ASSUME Typed, NEW c \in Calls, AddTotal(c) \/ AddSaved(c)
  PROVE  \/ /\ pc[c] \in Looping \ Trying /\ pc'[c] \in Trying
            /\ Added(c)' = Added(c) /\ UNCHANGED mem /\ old'[c] = mem'[Sum(c)']
         \/ pc[c] \in Trying /\ pc'[c] \notin Looping /\ mem' # mem
         \/ /\ pc[c] \in Trying /\ pc'[c] \in Looping \ Trying
            /\ Added(c)' = Added(c) /\ UNCHANGED mem /\ mem[Sum(c)] # old[c]
<1>0. /\ pc \in [Calls -> Steps] /\ old \in [Calls -> Nat] /\ mem \in [Fields -> Nat]
      /\ call[c].d \in Nat /\ Billed(call[c].d) \in Nat /\ Billed(call[c].d) # 0
  BY CallFacts, BilledPositive DEF Typed
<1>1. ASSUME NEW s \in Looping, NEW t \in Looping, pc[c] = s, pc' = [pc EXCEPT ![c] = t],
             s \in {"load total", "swap total"} <=> t \in {"load total", "swap total"},
             call' = call
      PROVE  Added(c)' = Added(c) /\ Sum(c)' = Sum(c)
  <2>1. InTotal' = InTotal /\ InSaved' = InSaved
    BY ONLY <1>0, <1>1, c \in Calls DEF InTotal, InSaved, In, Hit, Steps, Looping
  <2>. QED BY ONLY <1>0, <1>1, <2>1, c \in Calls DEF Added, Sum
<1>2. ASSUME NEW f \in Fields, NEW s \in Trying, NEW t \in Steps \ Looping, Swap(c, s, t, f)
      PROVE  pc[c] \in Trying /\ pc'[c] \notin Looping /\ mem' # mem
  <2>1. pc[c] = s /\ pc' = [pc EXCEPT ![c] = t] /\ mem[f] = old[c]
        /\ mem' = [mem EXCEPT ![f] = old[c] + Billed(call[c].d)]
    BY ONLY <1>2 DEF Swap, Goes
  <2>2. pc'[c] = t /\ mem'[f] = old[c] + Billed(call[c].d)
    BY ONLY <1>0, <2>1, c \in Calls, f \in Fields
  <2>3. mem'[f] # mem[f]
    BY ONLY <1>0, <2>1, <2>2, c \in Calls
  <2>. QED BY ONLY <1>2, <2>1, <2>2, <2>3
<1>3. CASE \/ LoadOld(c, "load total", "swap total", "total")
           \/ LoadOld(c, "load saved", "swap saved", "saved")
  <2>1. /\ pc[c] \in Looping \ Trying /\ pc'[c] \in Trying
        /\ Added(c)' = Added(c) /\ Sum(c)' = Sum(c) /\ UNCHANGED mem
    BY <1>0, <1>1, <1>3 DEF LoadOld, Goes, Looping, Trying
  <2>2. old'[c] = mem[Sum(c)]
    BY <1>0, <1>3 DEF LoadOld, Goes, Sum
  <2>. QED BY ONLY <2>1, <2>2
<1>4. CASE \/ Swap(c, "swap total", "count request", "total")
           \/ Swap(c, "swap saved", "count hit", "saved")
  BY <1>2, <1>4 DEF Looping, Trying, Steps, Fields
<1>5. CASE \/ Retry(c, "swap total", "load total", "total")
           \/ Retry(c, "swap saved", "load saved", "saved")
  <2>1. /\ pc[c] \in Trying /\ pc'[c] \in Looping \ Trying
        /\ Added(c)' = Added(c) /\ UNCHANGED mem
    BY <1>0, <1>1, <1>5 DEF Retry, Goes, Looping, Trying
  <2>2. mem[Sum(c)] # old[c]
    BY <1>5 DEF Retry, Goes, Sum
  <2>. QED BY ONLY <2>1, <2>2
<1>. QED BY <1>3, <1>4, <1>5 DEF AddTotal, AddSaved

LEMMA LoopPaid ==
  ASSUME Typed, Branches, RetriesInv, NEW c \in Calls, AddTotal(c) \/ AddSaved(c), Loops(c)
  PROVE  RetriesInv'
<1>1. /\ failed' \in [Calls -> Nat] /\ since' \in [Calls -> Nat]
      /\ \A b \in Calls \ {c} : failed'[b] = failed[b] /\ since'[b] = since[b]
  BY DEF Loops, RetriesInv, loopVars
<1>. DEFINE n == Cardinality(Added(c))
<1>2. /\ failed[c] \in Nat /\ since[c] \in Nat /\ n \in Nat
      /\ failed \in [Calls -> Nat] /\ since \in [Calls -> Nat] /\ Paid(c)
  BY AddersType DEF RetriesInv
<1>3. Looping \cap Trying = Trying
  BY DEF Looping, Trying
<1>4. Paid(c)'
  <2>1. CASE /\ pc[c] \in Looping \ Trying /\ pc'[c] \in Trying
             /\ Added(c)' = Added(c) /\ UNCHANGED mem /\ old'[c] = mem'[Sum(c)']
    <3>1. failed[c] + since[c] <= n /\ UNCHANGED loopVars
      BY ONLY <1>2, <2>1, Loops(c) DEF Paid, Loops
    <3>2. failed'[c] + since'[c] <= Cardinality(Added(c)')
      BY ONLY <2>1, <3>1 DEF loopVars
    <3>. QED BY ONLY <1>3, <2>1, <3>2 DEF Paid, Added, Sum
  <2>2. CASE pc[c] \in Trying /\ pc'[c] \notin Looping /\ mem' # mem
    <3>1. failed'[c] = 0
      BY ONLY <1>2, <2>2, Loops(c), c \in Calls DEF Loops
    <3>. QED BY ONLY <1>3, <2>2, <3>1 DEF Paid
  <2>3. CASE /\ pc[c] \in Trying /\ pc'[c] \in Looping \ Trying
             /\ Added(c)' = Added(c) /\ UNCHANGED mem /\ mem[Sum(c)] # old[c]
    <3>1. failed[c] + 1 + since[c] <= n
      BY ONLY <1>2, <2>3 DEF Paid
    <3>2. failed'[c] = failed[c] + 1 /\ since'[c] = since[c]
      BY ONLY <1>2, <2>3, Loops(c), c \in Calls DEF Loops
    <3>3. failed'[c] + since'[c] <= Cardinality(Added(c)')
      BY ONLY <2>3, <3>1, <3>2
    <3>. QED BY ONLY <1>3, <2>3, <3>3 DEF Paid, Added, Sum
  <2>. QED BY <2>1, <2>2, <2>3, LoopSteps
<1>5. Begin(c) \/ Proceed(c)
  BY DEF Proceed
<1>. QED BY <1>1, <1>4, <1>5, OthersPaid DEF RetriesInv

LEMMA EntersPaid ==
  ASSUME Typed, Branches, RetriesInv, NEW c \in Calls,
         \/ Begin(c) /\ Enters(c, InTotal)
         \/ CountRequest(c) /\ Enters(c, IF call[c].hit THEN InSaved ELSE {})
  PROVE  RetriesInv'
<1>0. pc \in [Calls -> Steps] /\ failed \in [Calls -> Nat] /\ since \in [Calls -> Nat]
  BY DEF Typed, RetriesInv
<1>1. PICK set \in SUBSET Calls :
        /\ Enters(c, set)
        /\ \/ Begin(c) /\ set = InTotal
           \/ CountRequest(c) /\ set = IF call[c].hit THEN InSaved ELSE {}
  BY AddersType
<1>2. /\ failed' = failed /\ since' = [since EXCEPT ![c] = Cardinality(set)]
      /\ Cardinality(set) \in Nat
  BY <1>1, FiniteCalls DEF Enters
<1>3. /\ since' \in [Calls -> Nat] /\ since'[c] = Cardinality(set)
      /\ \A b \in Calls \ {c} : since'[b] = since[b]
  BY ONLY <1>0, <1>2, c \in Calls
<1>4. failed[c] = 0
  <2>1. pc[c] \notin Looping
    BY DEF Begin, CountRequest, Goes, Looping
  <2>. QED BY <2>1 DEF RetriesInv, Paid
<1>5. pc'[c] \in Looping => Added(c)' = set
  <2>1. CASE Begin(c) /\ set = InTotal
    <3>1. pc'[c] = "load total"
      BY <1>0, <2>1 DEF Begin, Goes
    <3>2. InTotal' = InTotal
      BY ONLY <1>0, <2>1, c \in Calls DEF Begin, Goes, InTotal, In, Steps
    <3>. QED BY <2>1, <3>1, <3>2 DEF Added
  <2>2. CASE CountRequest(c) /\ set = IF call[c].hit THEN InSaved ELSE {}
    <3>1. pc' = [pc EXCEPT ![c] = AfterRequest(c)] /\ pc[c] = "count request" /\ call' = call
      BY <2>2 DEF CountRequest, Goes
    <3>2. pc'[c] \in Looping => call[c].hit /\ pc'[c] = "load saved"
      BY ONLY <1>0, <3>1, c \in Calls DEF AfterRequest, Looping
    <3>3. call[c].hit => InSaved' = InSaved
      BY ONLY <1>0, <3>1, c \in Calls DEF AfterRequest, InSaved, In, Hit, Steps
    <3>. QED BY <2>2, <3>2, <3>3 DEF Added
  <2>. QED BY <1>1, <2>1, <2>2
<1>6. pc'[c] \notin Trying
  BY <1>0, <1>1 DEF Begin, CountRequest, Goes, AfterRequest, Trying
<1>7. Paid(c)'
  <2>1. pc'[c] \in Looping => failed'[c] + since'[c] <= Cardinality(Added(c)')
    BY ONLY <1>2, <1>3, <1>4, <1>5
  <2>. QED BY ONLY <1>2, <1>4, <1>6, <2>1 DEF Paid, Added
<1>8. Begin(c) \/ Proceed(c)
  BY DEF Proceed
<1>. QED BY <1>0, <1>2, <1>3, <1>7, <1>8, OthersPaid DEF RetriesInv

LEMMA CountHitPaid ==
  ASSUME Typed, Branches, RetriesInv, NEW c \in Calls, CountHit(c), UNCHANGED loopVars
  PROVE  RetriesInv'
<1>1. pc[c] = "count hit" /\ pc'[c] = "done" /\ failed' = failed /\ since' = since
  BY DEF CountHit, Goes, Typed, loopVars
<1>2. failed'[c] = 0
  BY <1>1 DEF RetriesInv, Paid, Looping
<1>3. Paid(c)'
  BY ONLY <1>1, <1>2 DEF Paid, Looping, Trying
<1>. QED BY <1>1, <1>3, OthersPaid DEF RetriesInv, Proceed

LEMMA RetriesInductive == IInv /\ RetriesInv /\ [HistoryNext]_historyVars => RetriesInv'
<1>. SUFFICES ASSUME IInv, RetriesInv, [HistoryNext]_historyVars PROVE RetriesInv'
  OBVIOUS
<1>0. Typed /\ Branches
  BY DEF IInv, RecordInv
<1>1. ASSUME UNCHANGED <<recordVars, loopVars>> PROVE RetriesInv'
  BY <1>1 DEF recordVars, loopVars, RetriesInv, Paid, Added, Sum, InTotal, InSaved, In, Hit
<1>2. ASSUME NEW c \in Calls, Begin(c) /\ Enters(c, InTotal) PROVE RetriesInv'
  BY <1>0, <1>2, EntersPaid
<1>3. ASSUME NEW c \in Calls, (AddTotal(c) \/ AddSaved(c)) /\ Loops(c) PROVE RetriesInv'
  BY <1>0, <1>3, LoopPaid
<1>4. ASSUME NEW c \in Calls,
             CountRequest(c) /\ Enters(c, IF call[c].hit THEN InSaved ELSE {})
      PROVE  RetriesInv'
  BY <1>0, <1>4, EntersPaid
<1>5. ASSUME NEW c \in Calls, CountHit(c) /\ UNCHANGED loopVars PROVE RetriesInv'
  BY <1>0, <1>5, CountHitPaid
<1>6. ASSUME NEW q \in Reads, Load(q) /\ UNCHANGED loopVars PROVE RetriesInv'
  BY <1>1, <1>6 DEF Load
<1>. QED BY <1>1, <1>2, <1>3, <1>4, <1>5, <1>6 DEF HistoryNext, Finished, historyVars, vars

------------------------------------------------------------------------------
(* Theorems. *)

LEMMA Inductive == IInv /\ [Next]_vars => IInv'
<1>. SUFFICES ASSUME RecordInv, ReadInv, [Next]_vars PROVE RecordInv' /\ ReadInv'
  BY DEF IInv
<1>0. Typed /\ (RecordInv' => Typed')
  BY DEF RecordInv
<1>1. ASSUME UNCHANGED vars PROVE RecordInv' /\ ReadInv'
  <2>1. RecordInv'
    BY <1>1 DEF vars, recordVars, RecordInv, Typed, Branches, NothingLost, Misbilled,
                Billing, Durating, Free, InTotal, InSaved, In, Hit
  <2>2. ReadInv'
    BY <1>1 DEF vars, recordVars, readVars, ReadInv, ReadTyped, Behind, ReportsBracketed
  <2>. QED BY <2>1, <2>2
<1>2. ASSUME NEW c \in Calls, Begin(c) \/ Proceed(c) PROVE RecordInv' /\ ReadInv'
  <2>1. RecordInv'
    BY <1>2, BeginInv, ProceedInv
  <2>. QED BY <1>0, <1>2, <2>1, FieldsGrow, ReadsKeep
<1>3. ASSUME NEW q \in Reads, Load(q) PROVE RecordInv' /\ ReadInv'
  <2>1. RecordInv'
    BY <1>3 DEF Load, recordVars, RecordInv, Typed, Branches, NothingLost, Misbilled,
                Billing, Durating, Free, InTotal, InSaved, In, Hit
  <2>. QED BY <1>0, <1>3, <2>1, LoadInv
<1>. QED BY <1>1, <1>2, <1>3 DEF Next, Finished

\* The invariant holds in every reachable state.
THEOREM Invariance == Spec => []IInv
<1>1. Init => IInv
  BY InitRecordInv, InitReadInv DEF IInv
<1>. QED BY <1>1, Inductive, PTL DEF Spec

\* Type correctness, the progress of each read along its order included.
THEOREM TypeCorrectness == Spec => []TypeOK
<1>1. IInv => TypeOK
  BY DEF IInv, RecordInv, Typed, ReadInv, ReadTyped, TypeOK
<1>. QED BY <1>1, Invariance, PTL

\* However the compare-and-swap loops interleave, the sums are exactly what the
\* calls past their additions billed.  (co2.go:98-116 and 157-166.)
THEOREM NothingIsLost == Spec => []NothingLost
<1>1. IInv => NothingLost
  BY DEF IInv, RecordInv
<1>. QED BY <1>1, Invariance, PTL

\* Hits never lead requests, nor what is saved what is spent.  (co2.go:108-115.)
THEOREM HitsNeverAhead == Spec => []HitsNeverLead
<1>1. ASSUME RecordInv PROVE HitsNeverLead
  <2>1. Typed /\ NothingLost
    BY <1>1 DEF RecordInv
  <2>2. /\ Hit(In({"done"})) \subseteq InTotal \ In({"count request"})
        /\ InSaved \subseteq InTotal /\ InTotal \in SUBSET Calls
    BY DEF InTotal, InSaved, In, Hit, Steps
  <2>3. Cardinality(Hit(In({"done"}))) <= Cardinality(InTotal \ In({"count request"}))
    <3>1. IsFiniteSet(InTotal \ In({"count request"}))
      BY <2>2, FiniteCalls
    <3>. QED BY <2>2, <3>1, FS_Subset
  <2>4. Billing(InSaved) <= Billing(InTotal)
    BY <2>1, <2>2, MoreBilledThan
  <2>. QED BY ONLY <2>1, <2>3, <2>4 DEF NothingLost, HitsNeverLead
<1>2. IInv => HitsNeverLead
  BY <1>1 DEF IInv
<1>. QED BY <1>2, Invariance, PTL

\* What is billed is within a millisecond per request of what was spent.
\* (co2.go:99-102.)
THEOREM BillingIsBounded == Spec => []BillingBounded
<1>1. ASSUME RecordInv PROVE BillingBounded
  <2>1. Typed /\ Misbilled
    BY <1>1 DEF RecordInv
  <2>2. InTotal \in SUBSET Calls
    BY DEF InTotal, In
  <2>. DEFINE n     == Cardinality(InTotal)
              spent == Durating(InTotal)
              t     == mem["total"]
  <2>3. n \in Nat /\ spent \in Nat /\ t \in Nat
    BY <2>1, <2>2, FiniteCalls, SumTypes DEF Typed, Fields
  <2>4. spent - t <= 999 * n /\ t <= spent + Cardinality({c \in InTotal : call[c].d = 0})
    BY ONLY <2>1 DEF Misbilled, Beyond, Free
  <2>. HIDE DEF n, spent, t
  <2>5. spent - t < 1000 * n + 1
    BY ONLY <2>3, <2>4
  <2>. QED BY ONLY <2>4, <2>5 DEF BillingBounded, n, spent, t
<1>2. IInv => BillingBounded
  BY <1>1 DEF IInv
<1>. QED BY <1>2, Invariance, PTL

\* Each field of a report is a value it has had since the call began.
\* (co2.go:120-151.)
THEOREM ReportsAreBracketed == Spec => []ReportsBracketed
<1>1. IInv => ReportsBracketed
  BY DEF IInv, ReadInv
<1>. QED BY <1>1, Invariance, PTL

\* A report that no Record overlapped is exact, and the misses GetMetrics computes
\* from it do not wrap as long as the counters have not: MissesNeverWrap fails
\* only in the middle of a Record.  (co2.go:120-151.)
QuietReport(q) ==
  /\ \A f \in DOMAIN seen[q] : seen[q][f] = mem[f]
  /\ mem["requests"] < Word => Misses(q) = mem["requests"] - mem["hits"]

QuietReportsExact == \A q \in Reads : HasRead(q) /\ before[q] = mem => QuietReport(q)

LEMMA SmallRemainder ==
  ASSUME NEW n \in Nat, NEW w \in Nat \ {0}, n < w PROVE n % w = n
OBVIOUS

THEOREM QuietReportsAreExact == Spec => []QuietReportsExact
<1>1. ASSUME IInv, HitsNeverLead PROVE QuietReportsExact
  <2>. SUFFICES ASSUME NEW q \in Reads, HasRead(q), before[q] = mem PROVE QuietReport(q)
    BY DEF QuietReportsExact
  <2>1. Typed /\ ReadInv
    BY <1>1 DEF IInv, RecordInv
  <2>2. kind[q] \in Kinds
    BY <2>1 DEF ReadInv, ReadTyped
  <2>3. DOMAIN seen[q] \subseteq Fields
    BY <2>2, OrderFacts DEF HasRead, Loaded
  <2>4. PICK n \in 0..Len(Order(kind[q])) : seen[q] \in [Loaded(kind[q], n) -> Nat]
    BY <2>1 DEF ReadInv, ReadTyped
  <2>5. \A f \in DOMAIN seen[q] : seen[q][f] = mem[f]
    <3>1. \A f \in DOMAIN seen[q] : seen[q][f] \in Nat /\ mem[f] \in Nat
      BY <2>1, <2>3, <2>4 DEF Typed
    <3>. QED BY <2>1, <3>1 DEF ReadInv, ReportsBracketed
  <2>6. "requests" \in DOMAIN seen[q] /\ "hits" \in DOMAIN seen[q]
    BY <2>2 DEF Kinds, HasRead, Loaded, Order
  <2>7. Misses(q) = (mem["requests"] - mem["hits"]) % Word
    BY <2>5, <2>6 DEF Misses
  <2>8. mem["requests"] \in Nat /\ mem["hits"] \in Nat /\ mem["hits"] <= mem["requests"]
    BY <1>1, <2>1 DEF Typed, Fields, HitsNeverLead
  <2>9. ASSUME mem["requests"] < Word PROVE Misses(q) = mem["requests"] - mem["hits"]
    <3>1. mem["requests"] - mem["hits"] \in Nat /\ mem["requests"] - mem["hits"] < Word
      BY <2>8, <2>9, WordAssumption
    <3>. QED BY <2>7, <3>1, WordAssumption, SmallRemainder
  <2>. QED BY <2>5, <2>9 DEF QuietReport
<1>. QED BY <1>1, Invariance, HitsNeverAhead, PTL

\* The history changes nothing that the estimator does.
LEMMA HistoryRefines == HistoryInit /\ [][HistoryNext]_historyVars => Init /\ [][Next]_vars
<1>1. [HistoryNext]_historyVars => [Next]_vars
  BY DEF HistoryNext, Next, Proceed, Finished, historyVars
<1>. QED BY <1>1, PTL DEF HistoryInit

\* Each failure of a compare-and-swap is paid for by an addition another Record has
\* made to the same sum since the loop began.  (co2.go:157-166.)
THEOREM RetriesArePaid == HistorySpec => []RetriesPaid
<1>1. HistoryInit => RetriesInv
  BY DEF HistoryInit, Init, RetriesInv, Paid, Looping, Trying
<1>2. RetriesInv => RetriesPaid
  <2>. SUFFICES ASSUME RetriesInv, NEW c \in In(Looping)
                PROVE  failed[c] <= Cardinality(Added(c)) - since[c]
    BY DEF RetriesPaid
  <2>1. c \in Calls /\ pc[c] \in Looping
    BY DEF In
  <2>2. /\ failed[c] \in Nat /\ since[c] \in Nat /\ Cardinality(Added(c)) \in Nat
        /\ failed[c] + since[c] <= Cardinality(Added(c))
    BY <2>1, AddersType DEF RetriesInv, Paid
  <2>. QED BY ONLY <2>2
<1>3. HistorySpec => []IInv
  BY HistoryRefines, Invariance, PTL DEF HistorySpec, Spec
<1>. QED BY <1>1, <1>2, <1>3, RetriesInductive, PTL DEF HistorySpec
=============================================================================
