--------------------------- MODULE EcoWorkerProofs ---------------------------
(***************************************************************************)
(* Theorems about EcoWorker, for any finite or infinite set of payloads,   *)
(* any number of workers and any buffer size.                              *)
(***************************************************************************)
EXTENDS EcoWorker, TLAPS

(***************************************************************************)
(* The inductive invariant.  ExactlyOnce is not inductive as it stands: it *)
(* needs to know that a worker holds a payload exactly while it is busy,   *)
(* and that a payload whose Save is under way has been counted.            *)
(***************************************************************************)
Busy == {"check", "observe", "drain", "save"}

HeldWhileBusy ==
  \A w \in Workers :
    /\ held[w] # NoPayload <=> wpc[w] \in Busy
    /\ wpc[w] = "save" => observed[held[w]] = 1

\* A worker leaves only when the channel is closed and empty, and it stays so.
ExitedMeansEmpty == \A w \in Workers : wpc[w] = "exited" => closed /\ ch = <<>>

\* A worker that is on its way to Save has not yet had its late Save.
LateSaveBudget ==
  \A w \in Workers :
    /\ lateSaves[w] <= 1
    /\ ~cancelled => lateSaves[w] = 0
    /\ wpc[w] \in {"observe", "save"} => lateSaves[w] = 0

\* Without a cancel, what has been counted is stored, failed or being saved.
CountedIsSaved ==
  /\ \A w \in Workers : wpc[w] = "save" => held[w] \notin saved \cup failed
  /\ ~cancelled =>
       /\ \A w \in Workers : wpc[w] # "drain"
       /\ \A p \in Payloads : observed[p] = 1 =>
            \/ p \in saved \cup failed
            \/ \E w \in Workers : wpc[w] = "save" /\ held[w] = p

IInv ==
  /\ TypeOK
  /\ HeldWhileBusy
  /\ ExactlyOnce
  /\ StoredWasCounted
  /\ ExitedMeansEmpty
  /\ LateSaveBudget
  /\ CountedIsSaved

------------------------------------------------------------------------------
(* Facts about the buffer as a sequence. *)

Elements(s) == {s[i] : i \in 1..Len(s)}
Distinct(s) == \A i, j \in 1..Len(s) : s[i] = s[j] => i = j

\* Appending a new element adds it, and keeps the elements distinct.
LEMMA AppendFacts ==
  ASSUME NEW S, NEW s \in Seq(S), NEW x \in S
  PROVE  /\ Append(s, x) \in Seq(S)
         /\ Len(Append(s, x)) = Len(s) + 1
         /\ Elements(Append(s, x)) = Elements(s) \cup {x}
         /\ Distinct(s) /\ x \notin Elements(s) => Distinct(Append(s, x))
<1>1. /\ Append(s, x) \in Seq(S)
      /\ Len(Append(s, x)) = Len(s) + 1
      /\ Append(s, x)[Len(s) + 1] = x
      /\ \A i \in 1..Len(s) : Append(s, x)[i] = s[i]
  OBVIOUS
<1>2. Elements(Append(s, x)) = Elements(s) \cup {x}
  BY <1>1 DEF Elements
<1>3. ASSUME Distinct(s), x \notin Elements(s)
      PROVE  Distinct(Append(s, x))
  BY <1>1, <1>3 DEF Elements, Distinct
<1>. QED BY <1>1, <1>2, <1>3

\* Taking the head of a sequence without duplicates removes just that element.
LEMMA TailFacts ==
  ASSUME NEW S, NEW s \in Seq(S), s # <<>>
  PROVE  /\ Head(s) \in S
         /\ Tail(s) \in Seq(S)
         /\ Len(Tail(s)) = Len(s) - 1
         /\ Head(s) \in Elements(s)
         /\ Elements(Tail(s)) \subseteq Elements(s)
         /\ Elements(s) = Elements(Tail(s)) \cup {Head(s)}
         /\ Distinct(s) => Distinct(Tail(s)) /\ Head(s) \notin Elements(Tail(s))
<1>1. /\ Len(s) \in Nat \ {0}
      /\ Head(s) = s[1] /\ Head(s) \in S
      /\ Tail(s) \in Seq(S)
      /\ Len(Tail(s)) = Len(s) - 1
      /\ \A i \in 1..Len(Tail(s)) : Tail(s)[i] = s[i + 1]
  OBVIOUS
<1>2. Head(s) \in Elements(s)
  BY <1>1 DEF Elements
<1>3. Elements(Tail(s)) \subseteq Elements(s)
  BY <1>1 DEF Elements
<1>4. ASSUME NEW i \in 1..Len(s), s[i] # Head(s)
      PROVE  s[i] \in Elements(Tail(s))
  <2>1. i - 1 \in 1..Len(Tail(s)) /\ Tail(s)[i - 1] = s[i]
    BY <1>1, <1>4
  <2>. QED BY <2>1 DEF Elements
<1>5. Elements(s) = Elements(Tail(s)) \cup {Head(s)}
  BY <1>2, <1>3, <1>4 DEF Elements
<1>6. ASSUME Distinct(s)
      PROVE  Distinct(Tail(s)) /\ Head(s) \notin Elements(Tail(s))
  BY <1>1, <1>6 DEF Distinct, Elements
<1>. QED BY <1>1, <1>2, <1>3, <1>5, <1>6

------------------------------------------------------------------------------
(* Type correctness. *)

LEMMA CapacityType == Capacity \in Nat \ {0}
BY BufferAssumption DEF Capacity

LEMMA TypeInit == Init => TypeOK
<1>. SUFFICES ASSUME Init PROVE TypeOK
  OBVIOUS
<1>. USE DEF Init, SenderStates, WorkerStates
<1>1. ch \in Seq(Payloads) /\ Len(ch) = 0
  OBVIOUS
<1>2. Len(ch) <= Capacity
  BY <1>1, CapacityType
<1>3. closed \in BOOLEAN /\ cancelled \in BOOLEAN
  OBVIOUS
<1>. QED BY <1>1, <1>2, <1>3 DEF TypeOK

LEMMA TypeNext == TypeOK /\ HeldWhileBusy /\ [Next]_vars => TypeOK'
<1>. SUFFICES ASSUME TypeOK, HeldWhileBusy, [Next]_vars PROVE TypeOK'
  OBVIOUS
<1>. USE DEF TypeOK, SenderStates, WorkerStates, HeldWhileBusy, Busy
<1>1. ASSUME NEW p \in Payloads, Send(p) PROVE TypeOK'
  BY <1>1, CapacityType, AppendFacts DEF Send, HasRoom
<1>2. ASSUME NEW p \in Payloads, Refuse(p) PROVE TypeOK'
  BY <1>2 DEF Refuse
<1>3. ASSUME NEW p \in Payloads, CountDrop(p) PROVE TypeOK'
  BY <1>3 DEF CountDrop
<1>4. CASE Start
  BY <1>4 DEF Start
<1>5. CASE Cancel
  BY <1>5 DEF Cancel
<1>6. CASE Close
  BY <1>6 DEF Close
<1>7. ASSUME NEW w \in Workers, Receive(w) PROVE TypeOK'
  BY <1>7, CapacityType, TailFacts DEF Receive
<1>8. ASSUME NEW w \in Workers, Exit(w) PROVE TypeOK'
  BY <1>8 DEF Exit
<1>9. ASSUME NEW w \in Workers, CheckContext(w) PROVE TypeOK'
  BY <1>9 DEF CheckContext
<1>10. ASSUME NEW w \in Workers, Observe(w) PROVE TypeOK'
  BY <1>10 DEF Observe
<1>11. ASSUME NEW w \in Workers, ObserveOnly(w) PROVE TypeOK'
  BY <1>11 DEF ObserveOnly
<1>12. ASSUME NEW w \in Workers, SaveOK(w) PROVE TypeOK'
  BY <1>12 DEF SaveOK, EndSave
<1>13. ASSUME NEW w \in Workers, SaveError(w) PROVE TypeOK'
  BY <1>13 DEF SaveError, EndSave
<1>14. CASE UNCHANGED vars
  BY <1>14 DEF vars
<1>. QED
  BY <1>1, <1>2, <1>3, <1>4, <1>5, <1>6, <1>7, <1>8, <1>9, <1>10, <1>11,
     <1>12, <1>13, <1>14 DEF Next, Work, Terminated

------------------------------------------------------------------------------
(* The inductive invariant is preserved.  First the actions that leave the    *)
(* worker goroutines alone, then the workers.                                 *)

LEMMA InvInit == Init => IInv
<1>. SUFFICES ASSUME Init PROVE IInv
  OBVIOUS
<1>1. TypeOK
  BY TypeInit
<1>2. Queued = {} /\ InHand = {} /\ Sent = {}
  BY DEF Init, Queued, InHand, Sent
<1>3. ExactlyOnce
  BY <1>2 DEF Init, ExactlyOnce, Placed
<1>4. HeldWhileBusy /\ ExitedMeansEmpty /\ LateSaveBudget
  BY DEF Init, HeldWhileBusy, Busy, ExitedMeansEmpty, LateSaveBudget
<1>5. StoredWasCounted /\ CountedIsSaved
  BY DEF Init, StoredWasCounted, CountedIsSaved
<1>. QED BY <1>1, <1>3, <1>4, <1>5 DEF IInv

LEMMA SendInv ==
  ASSUME IInv, TypeOK', NEW p \in Payloads, Send(p)
  PROVE  IInv'
<1>. USE DEF IInv, TypeOK, Send
<1>1. /\ Queued' = Queued \cup {p}
      /\ Distinct(ch) /\ p \notin Queued => Distinct(ch')
  <2>1. /\ Elements(ch') = Elements(ch) \cup {p}
        /\ Distinct(ch) /\ p \notin Elements(ch) => Distinct(ch')
    BY AppendFacts
  <2>2. Queued = Elements(ch) /\ Queued' = Elements(ch')
    BY DEF Queued, Elements
  <2>. QED BY <2>1, <2>2
<1>2. InHand' = InHand /\ Sent' = Sent \cup {p} /\ p \notin Sent
  BY DEF InHand, Sent, SenderStates
<1>3. p \notin Queued /\ p \notin InHand /\ observed[p] = 0
  BY <1>2 DEF ExactlyOnce, Placed
<1>4. ExactlyOnce'
  BY <1>1, <1>2, <1>3 DEF ExactlyOnce, Placed, Distinct
<1>5. HeldWhileBusy' /\ LateSaveBudget' /\ StoredWasCounted' /\ CountedIsSaved'
  BY DEF HeldWhileBusy, LateSaveBudget, StoredWasCounted, CountedIsSaved
<1>6. ExitedMeansEmpty'
  BY DEF ExitedMeansEmpty
<1>. QED BY <1>4, <1>5, <1>6

LEMMA RefuseInv ==
  ASSUME IInv, TypeOK', NEW p \in Payloads, Refuse(p) \/ CountDrop(p)
  PROVE  IInv'
<1>. USE DEF IInv, TypeOK, Refuse, CountDrop
<1>1. Queued' = Queued /\ InHand' = InHand /\ Sent' = Sent
  BY DEF Queued, InHand, Sent, SenderStates
<1>2. ExactlyOnce'
  BY <1>1 DEF ExactlyOnce, Placed
<1>3. HeldWhileBusy' /\ LateSaveBudget' /\ StoredWasCounted' /\ CountedIsSaved'
  BY DEF HeldWhileBusy, LateSaveBudget, StoredWasCounted, CountedIsSaved
<1>4. ExitedMeansEmpty'
  BY DEF ExitedMeansEmpty
<1>. QED BY <1>2, <1>3, <1>4

\* Start, Cancel and Close touch no payload.
LEMMA OwnerInv ==
  ASSUME IInv, TypeOK', Start \/ Cancel \/ Close \/ UNCHANGED vars
  PROVE  IInv'
<1>. USE DEF IInv, TypeOK, Start, Cancel, Close, vars
<1>1. Queued' = Queued /\ InHand' = InHand /\ Sent' = Sent
  BY DEF Queued, InHand, Sent
<1>2. ExactlyOnce'
  BY <1>1 DEF ExactlyOnce, Placed
<1>3. HeldWhileBusy' /\ StoredWasCounted'
  BY DEF HeldWhileBusy, Busy, StoredWasCounted
<1>4. LateSaveBudget'
  BY DEF LateSaveBudget
<1>5. ExitedMeansEmpty'
  BY DEF ExitedMeansEmpty
<1>6. CountedIsSaved'
  BY DEF CountedIsSaved
<1>. QED BY <1>2, <1>3, <1>4, <1>5, <1>6

LEMMA ReceiveInv ==
  ASSUME IInv, TypeOK', NEW w \in Workers, Receive(w)
  PROVE  IInv'
<1>. DEFINE p == Head(ch)
<1>. USE DEF IInv, TypeOK, Receive
<1>1. /\ p \in Payloads /\ p \in Queued
      /\ Queued = Queued' \cup {p}
      /\ Distinct(ch) => Distinct(ch') /\ p \notin Queued'
  <2>1. /\ p \in Payloads /\ p \in Elements(ch)
        /\ Elements(ch) = Elements(ch') \cup {p}
        /\ Distinct(ch) => Distinct(ch') /\ p \notin Elements(ch')
    BY TailFacts
  <2>2. Queued = Elements(ch) /\ Queued' = Elements(ch')
    BY DEF Queued, Elements
  <2>. QED BY <2>1, <2>2
<1>2. Sent' = Sent
  BY DEF Sent
<1>3. InHand' = InHand \cup {p}
  BY <1>1 DEF InHand
<1>4. Distinct(ch) /\ p \notin InHand /\ observed[p] = 0
  BY <1>1 DEF ExactlyOnce, Distinct
<1>5. Distinct(ch') /\ p \notin Queued'
  BY <1>1, <1>4
<1>6. \A v \in Workers : held[v] # p
  <2>1. ASSUME NEW v \in Workers, held[v] = p PROVE FALSE
    <3>1. wpc[v] \in Busy
      BY <2>1, <1>1, PayloadAssumption DEF HeldWhileBusy
    <3>2. CASE wpc[v] = "save"
      BY <3>2, <2>1, <1>4 DEF HeldWhileBusy
    <3>3. CASE wpc[v] # "save"
      BY <3>1, <3>3, <2>1, <1>4 DEF InHand, Busy
    <3>. QED BY <3>2, <3>3
  <2>. QED BY <2>1
<1>7. \A u, v \in Workers : held'[u] = held'[v] /\ held'[u] # NoPayload => u = v
  BY <1>6 DEF ExactlyOnce
<1>8. /\ Queued' \cap InHand' = {}
      /\ \A q \in Queued' \cup InHand' : observed'[q] = 0
  BY <1>1, <1>3, <1>4, <1>5 DEF ExactlyOnce
<1>9. \A q \in Payloads : (q \in Sent' <=> Placed(q)') /\ observed'[q] <= 1
  BY <1>1, <1>2, <1>3 DEF ExactlyOnce, Placed
<1>10. ExactlyOnce'
  BY <1>5, <1>7, <1>8, <1>9 DEF ExactlyOnce, Distinct
<1>11. HeldWhileBusy'
  BY <1>1, PayloadAssumption DEF HeldWhileBusy, Busy
<1>12. LateSaveBudget' /\ StoredWasCounted' /\ CountedIsSaved'
  BY DEF LateSaveBudget, StoredWasCounted, CountedIsSaved
<1>13. ExitedMeansEmpty'
  BY DEF ExitedMeansEmpty
<1>. QED BY <1>10, <1>11, <1>12, <1>13

\* The steps of a worker that leave its payload in its hands or have none.
LEMMA LoopInv ==
  ASSUME IInv, TypeOK', NEW w \in Workers, Exit(w) \/ CheckContext(w)
  PROVE  IInv'
<1>. USE DEF IInv, TypeOK, Exit, CheckContext, RangeEnds, SkipSave
<1>1. Queued' = Queued /\ InHand' = InHand /\ Sent' = Sent
  BY DEF Queued, InHand, Sent
<1>2. ExactlyOnce'
  BY <1>1 DEF ExactlyOnce, Placed
<1>3. HeldWhileBusy' /\ StoredWasCounted'
  BY DEF HeldWhileBusy, Busy, StoredWasCounted
<1>4. LateSaveBudget'
  BY DEF LateSaveBudget
<1>5. ExitedMeansEmpty'
  BY DEF ExitedMeansEmpty
<1>6. CountedIsSaved'
  BY DEF CountedIsSaved
<1>. QED BY <1>2, <1>3, <1>4, <1>5, <1>6

LEMMA ObserveInv ==
  ASSUME IInv, TypeOK', NEW w \in Workers, Observe(w) \/ ObserveOnly(w)
  PROVE  IInv'
<1>. DEFINE p == held[w]
<1>. USE DEF IInv, TypeOK, Observe, ObserveOnly
<1>1. wpc[w] \in {"observe", "drain"} /\ p \in Payloads
  BY DEF HeldWhileBusy, Busy
<1>2. p \in InHand /\ p \notin Queued /\ observed[p] = 0
  BY <1>1 DEF InHand, ExactlyOnce
<1>3. observed' = [observed EXCEPT ![p] = 1]
  BY <1>2
<1>4. Queued' = Queued /\ Sent' = Sent
  BY DEF Queued, Sent
<1>5. \A v \in Workers : v # w => held[v] # p
  BY <1>1, PayloadAssumption DEF ExactlyOnce
<1>6. InHand' = InHand \ {p}
  <2>1. /\ wpc'[w] \notin {"check", "observe", "drain"}
        /\ \A v \in Workers : v # w => wpc'[v] = wpc[v] /\ held'[v] = held[v]
    OBVIOUS
  <2>. QED BY <1>5, <2>1 DEF InHand
<1>7. \A q \in Payloads : (q \in Sent' <=> Placed(q)') /\ observed'[q] <= 1
  BY <1>1, <1>2, <1>3, <1>4, <1>6 DEF ExactlyOnce, Placed
<1>8. /\ Queued' \cap InHand' = {}
      /\ \A q \in Queued' \cup InHand' : observed'[q] = 0
  <2>1. Queued \subseteq Payloads /\ InHand \subseteq Payloads
    BY PayloadAssumption DEF Queued, InHand, HeldWhileBusy, Busy
  <2>. QED BY <1>2, <1>3, <1>4, <1>6, <2>1 DEF ExactlyOnce
<1>9. \A u, v \in Workers : held'[u] = held'[v] /\ held'[u] # NoPayload => u = v
  BY DEF ExactlyOnce
<1>10. ExactlyOnce'
  BY <1>7, <1>8, <1>9 DEF ExactlyOnce
<1>11. HeldWhileBusy'
  BY <1>1, <1>3 DEF HeldWhileBusy, Busy
<1>12. StoredWasCounted'
  BY <1>3 DEF StoredWasCounted
<1>13. LateSaveBudget' /\ ExitedMeansEmpty'
  BY DEF LateSaveBudget, ExitedMeansEmpty
<1>14. p \notin saved \cup failed
  BY <1>1, <1>2 DEF StoredWasCounted
<1>15. CountedIsSaved'
  <2>1. \A v \in Workers : wpc'[v] = "save" => held'[v] \notin saved' \cup failed'
    BY <1>14 DEF CountedIsSaved
  <2>2. ASSUME ~cancelled'
        PROVE  /\ \A v \in Workers : wpc'[v] # "drain"
               /\ \A q \in Payloads : observed'[q] = 1 =>
                    \/ q \in saved' \cup failed'
                    \/ \E v \in Workers : wpc'[v] = "save" /\ held'[v] = q
    <3>1. ~cancelled /\ wpc[w] = "observe"
      BY <1>1, <2>2 DEF CountedIsSaved
    <3>2. Observe(w)
      BY <3>1
    <3>3. wpc'[w] = "save" /\ held'[w] = p
      BY <3>2
    <3>4. ASSUME NEW q \in Payloads, q # p, observed'[q] = 1
          PROVE  \/ q \in saved' \cup failed'
                 \/ \E v \in Workers : wpc'[v] = "save" /\ held'[v] = q
      BY <1>3, <3>1, <3>2, <3>4 DEF CountedIsSaved
    <3>. QED BY <3>1, <3>2, <3>3, <3>4 DEF CountedIsSaved
  <2>. QED BY <2>1, <2>2 DEF CountedIsSaved
<1>. QED BY <1>10, <1>11, <1>12, <1>13, <1>15

LEMMA SaveInv ==
  ASSUME IInv, TypeOK', NEW w \in Workers, SaveOK(w) \/ SaveError(w)
  PROVE  IInv'
<1>. DEFINE p == held[w]
<1>. USE DEF IInv, TypeOK
<1>1. /\ wpc[w] = "save" /\ p \in Payloads
      /\ observed[p] = 1 /\ p \notin saved \cup failed
  BY DEF HeldWhileBusy, Busy, CountedIsSaved, SaveOK, SaveError, EndSave
<1>2. /\ wpc' = [wpc EXCEPT ![w] = "recv"]
      /\ held' = [held EXCEPT ![w] = NoPayload]
      /\ UNCHANGED <<sender, ch, closed, cancelled, observed>>
      /\ saved' \cup failed' = saved \cup failed \cup {p}
  BY DEF SaveOK, SaveError, EndSave
<1>3. StoredWasCounted'
  BY <1>1, <1>2 DEF StoredWasCounted, SaveOK, SaveError
<1>4. Queued' = Queued /\ InHand' = InHand /\ Sent' = Sent
  <2>1. \A v \in Workers :
          /\ wpc'[v] \in {"check", "observe", "drain"}
               <=> wpc[v] \in {"check", "observe", "drain"}
          /\ wpc[v] \in {"check", "observe", "drain"} => held'[v] = held[v]
    BY <1>1, <1>2
  <2>2. InHand' = InHand
    BY <2>1 DEF InHand
  <2>. QED BY <1>2, <2>2 DEF Queued, Sent
<1>5. ExactlyOnce'
  BY <1>2, <1>4 DEF ExactlyOnce, Placed
<1>6. HeldWhileBusy' /\ ExitedMeansEmpty'
  BY <1>1, <1>2 DEF HeldWhileBusy, Busy, ExitedMeansEmpty
<1>7. LateSaveBudget'
  <2>1. \A v \in Workers : v # w => lateSaves'[v] = lateSaves[v]
    BY DEF SaveOK, SaveError, EndSave
  <2>2. lateSaves'[w] = IF cancelled THEN 1 ELSE 0
    <3>1. lateSaves[w] = 0
      BY <1>1 DEF LateSaveBudget
    <3>. QED BY <3>1 DEF SaveOK, SaveError, EndSave
  <2>. QED BY <1>2, <2>1, <2>2 DEF LateSaveBudget
<1>8. \A v \in Workers : v # w => held[v] # p
  BY <1>1, PayloadAssumption DEF ExactlyOnce
<1>9. CountedIsSaved'
  <2>1. \A v \in Workers : wpc'[v] = "save" => held'[v] \notin saved' \cup failed'
    BY <1>1, <1>2, <1>8 DEF CountedIsSaved
  <2>2. ASSUME ~cancelled'
        PROVE  /\ \A v \in Workers : wpc'[v] # "drain"
               /\ \A q \in Payloads : observed'[q] = 1 =>
                    \/ q \in saved' \cup failed'
                    \/ \E v \in Workers : wpc'[v] = "save" /\ held'[v] = q
    BY <1>1, <1>2, <2>2 DEF CountedIsSaved
  <2>. QED BY <2>1, <2>2 DEF CountedIsSaved
<1>. QED BY <1>3, <1>5, <1>6, <1>7, <1>9

LEMMA InvNext == IInv /\ [Next]_vars => IInv'
<1>. SUFFICES ASSUME IInv, [Next]_vars PROVE IInv'
  OBVIOUS
<1>1. TypeOK'
  BY TypeNext DEF IInv
<1>2. ASSUME NEW p \in Payloads, Send(p) \/ Refuse(p) \/ CountDrop(p) PROVE IInv'
  BY <1>1, <1>2, SendInv, RefuseInv
<1>3. ASSUME NEW w \in Workers, Work(w) PROVE IInv'
  BY <1>1, <1>3, ReceiveInv, LoopInv, ObserveInv, SaveInv DEF Work
<1>4. CASE Start \/ Cancel \/ Close \/ UNCHANGED vars
  BY <1>1, <1>4, OwnerInv
<1>. QED BY <1>2, <1>3, <1>4 DEF Next, Terminated

------------------------------------------------------------------------------
(* The theorems. *)

\* The inductive invariant holds of every behaviour of the worker
\* (worker.go:207-295 under any schedule).
THEOREM Invariance == Spec => []IInv
BY InvInit, InvNext, PTL DEF Spec

\* Every variable keeps its type; the buffer never exceeds its capacity.
THEOREM TypeCorrectness == Spec => []TypeOK
<1>1. IInv => TypeOK
  BY DEF IInv
<1>. QED BY <1>1, Invariance, PTL

\* No payload is lost, duplicated or counted twice on its way from the select
\* to the instruments, for any number of workers and any buffer size.
THEOREM ExactlyOnceDelivery == Spec => []ExactlyOnce
<1>1. IInv => ExactlyOnce
  BY DEF IInv
<1>. QED BY <1>1, Invariance, PTL

\* The repository holds only payloads that were counted, and none that was
\* also reported as failed.
THEOREM StoredIsCounted == Spec => []StoredWasCounted
<1>1. IInv => StoredWasCounted
  BY DEF IInv
<1>. QED BY <1>1, Invariance, PTL

\* After the cancel each worker ends at most one more Save.
THEOREM LateSaves == Spec => []LateSavesBounded
<1>1. IInv => LateSavesBounded
  BY DEF IInv, LateSaveBudget, LateSavesBounded
<1>. QED BY <1>1, Invariance, PTL

\* When the WaitGroup is released the channel is empty and every payload that
\* was sent has been counted; and saved or reported, if nobody cancelled.
THEOREM DrainedAtStop == Spec => [](StopDrains /\ UncancelledStopSavesAll)
<1>1. ASSUME IInv, Stopped
      PROVE  /\ Queued = {} /\ InHand = {}
             /\ \A p \in Sent : observed[p] = 1
             /\ \A w \in Workers : wpc[w] # "save"
  <2>1. ch = <<>> /\ \A w \in Workers : wpc[w] = "exited"
    BY <1>1, WorkersAssumption DEF IInv, ExitedMeansEmpty, Stopped
  <2>2. Queued = {} /\ InHand = {}
    BY <2>1 DEF Queued, InHand
  <2>. QED BY <1>1, <2>1, <2>2 DEF IInv, ExactlyOnce, Placed, Sent
<1>2. IInv => StopDrains
  BY <1>1 DEF StopDrains
<1>3. ASSUME IInv, Stopped, ~cancelled PROVE Sent = saved \cup failed
  <2>1. Sent \subseteq saved \cup failed
    BY <1>1, <1>3 DEF IInv, CountedIsSaved, Sent
  <2>2. \A p \in saved \cup failed : p \in Payloads /\ observed[p] = 1
    BY <1>3 DEF IInv, TypeOK, StoredWasCounted
  <2>3. saved \cup failed \subseteq Sent
    BY <1>3, <2>2 DEF IInv, ExactlyOnce, Placed
  <2>. QED BY <2>1, <2>3
<1>4. IInv => UncancelledStopSavesAll
  BY <1>3 DEF UncancelledStopSavesAll
<1>. QED BY <1>2, <1>4, Invariance, PTL

------------------------------------------------------------------------------
(* The refinement: every step of the worker is a step of the ledger, or none. *)

LEMMA LedgerInit == Init => Ledger!Init
<1>1. ASSUME Init, NEW p \in Payloads PROVE Fate(p) = "new"
  BY <1>1 DEF Init, Fate
<1>. QED BY <1>1 DEF Ledger!Init, Init

\* A payload that changes its fate alone, as the ledger wants it.
LEMMA BecomesStep ==
  ASSUME NEW p \in Payloads, NEW from, NEW to,
         Fate(p) = from, Fate(p)' = to,
         \A q \in Payloads : q # p => Fate(q)' = Fate(q),
         closed' = closed
  PROVE  Ledger!Becomes(p, from, to)
BY DEF Ledger!Becomes

LEMMA LedgerStutter ==
  ASSUME IInv, IInv', UNCHANGED <<observed, saved>>, closed' = closed,
         \A p \in Payloads :
           \/ sender'[p] = sender[p]
           \/ {sender[p], sender'[p]} \subseteq {"dropping", "dropped"}
  PROVE  UNCHANGED Ledger!vars
<1>1. \A p \in Payloads : Fate(p)' = Fate(p)
  BY DEF Fate
<1>. QED BY <1>1 DEF Ledger!vars

LEMMA LedgerNext == IInv /\ IInv' /\ [Next]_vars => [Ledger!Next]_(Ledger!vars)
<1>. SUFFICES ASSUME IInv, IInv', [Next]_vars
              PROVE  Ledger!Next \/ UNCHANGED Ledger!vars
  OBVIOUS
<1>0. TypeOK /\ TypeOK' /\ HeldWhileBusy /\ ExactlyOnce /\ CountedIsSaved
  BY DEF IInv
<1>1. ASSUME NEW p \in Payloads, Send(p) PROVE Ledger!Next
  <2>1. sender[p] = "idle" /\ sender'[p] = "sent" /\ observed'[p] = 0
        /\ \A q \in Payloads : q # p => sender'[q] = sender[q]
    BY <1>0, <1>1 DEF TypeOK, Send, SenderStates, ExactlyOnce, Placed, Sent
  <2>2. Fate(p) = "new" /\ Fate(p)' = "accepted"
    BY <2>1, <1>1, <1>0 DEF Fate, Send, StoredWasCounted, IInv
  <2>3. \A q \in Payloads : q # p => Fate(q)' = Fate(q)
    BY <2>1, <1>1 DEF Fate, Send
  <2>4. Ledger!Accept(p)
    BY <2>2, <2>3, <1>1, BecomesStep DEF Ledger!Accept, Send
  <2>. QED BY <2>4 DEF Ledger!Next
<1>2. ASSUME NEW p \in Payloads, Refuse(p) PROVE Ledger!Next
  <2>1. sender[p] = "idle" /\ sender'[p] = "dropping"
        /\ \A q \in Payloads : q # p => sender'[q] = sender[q]
    BY <1>0, <1>2 DEF TypeOK, Refuse
  <2>2. Fate(p) = "new" /\ Fate(p)' = "rejected"
    BY <2>1 DEF Fate
  <2>3. \A q \in Payloads : q # p => Fate(q)' = Fate(q)
    BY <2>1, <1>2 DEF Fate, Refuse
  <2>4. Ledger!Reject(p)
    BY <2>2, <2>3, <1>2, BecomesStep DEF Ledger!Reject, Refuse
  <2>. QED BY <2>4 DEF Ledger!Next
<1>3. ASSUME NEW p \in Payloads, CountDrop(p) PROVE UNCHANGED Ledger!vars
  BY <1>0, <1>3, LedgerStutter DEF CountDrop, TypeOK
<1>4. CASE Start \/ Cancel \/ UNCHANGED vars
  BY <1>4, LedgerStutter DEF Start, Cancel, vars
<1>5. CASE Close
  <2>1. \A p \in Payloads : Fate(p)' = Fate(p)
    BY <1>5 DEF Fate, Close
  <2>2. Ledger!Seal
    BY <2>1, <1>5 DEF Ledger!Seal, Close
  <2>. QED BY <2>2 DEF Ledger!Next
<1>6. ASSUME NEW w \in Workers, Receive(w) \/ Exit(w) \/ CheckContext(w) \/ SaveError(w)
      PROVE  UNCHANGED Ledger!vars
  <2>1. UNCHANGED <<observed, saved, sender, closed>>
    BY <1>6 DEF Receive, Exit, CheckContext, SaveError, EndSave
  <2>. QED BY <2>1, LedgerStutter
<1>7. ASSUME NEW w \in Workers, Observe(w) \/ ObserveOnly(w) PROVE Ledger!Next
  <2>1. PICK p \in Payloads :
          p = held[w] /\ p \in InHand /\ wpc[w] \in {"observe", "drain"}
    BY <1>0, <1>7 DEF Observe, ObserveOnly, HeldWhileBusy, Busy, TypeOK, InHand
  <2>2. observed[p] = 0 /\ sender[p] = "sent"
    BY <1>0, <2>1 DEF ExactlyOnce, Placed, Sent
  <2>3. UNCHANGED <<sender, closed, saved>> /\ observed' = [observed EXCEPT ![p] = 1]
    BY <1>7, <2>1, <2>2 DEF Observe, ObserveOnly
  <2>4. observed'[p] = 1 /\ p \notin saved
    BY <1>0, <2>1, <2>2, <2>3 DEF TypeOK, IInv, StoredWasCounted
  <2>5. Fate(p) = "accepted" /\ Fate(p)' = "recorded"
    BY <2>2, <2>3, <2>4 DEF Fate
  <2>6. \A q \in Payloads : q # p => Fate(q)' = Fate(q)
    BY <1>0, <2>3 DEF Fate, TypeOK
  <2>7. Ledger!Record(p)
    BY <2>1, <2>3, <2>5, <2>6, BecomesStep DEF Ledger!Record
  <2>. QED BY <2>1, <2>7 DEF Ledger!Next
<1>8. ASSUME NEW w \in Workers, SaveOK(w) PROVE Ledger!Next
  <2>1. PICK p \in Payloads : p = held[w] /\ observed[p] = 1 /\ p \notin saved
    BY <1>0, <1>8 DEF SaveOK, EndSave, HeldWhileBusy, Busy, TypeOK, CountedIsSaved
  <2>2. sender[p] = "sent"
    BY <1>0, <2>1 DEF ExactlyOnce, Placed, Sent
  <2>3. UNCHANGED <<sender, closed, observed>> /\ saved' = saved \cup {p}
    BY <1>8, <2>1 DEF SaveOK, EndSave
  <2>4. Fate(p) = "recorded" /\ Fate(p)' = "stored"
    BY <2>1, <2>2, <2>3 DEF Fate
  <2>5. \A q \in Payloads : q # p => Fate(q)' = Fate(q)
    BY <2>3 DEF Fate
  <2>6. Ledger!Store(p)
    BY <2>1, <2>3, <2>4, <2>5, BecomesStep DEF Ledger!Store
  <2>. QED BY <2>1, <2>6 DEF Ledger!Next
<1>. QED
  BY <1>1, <1>2, <1>3, <1>4, <1>5, <1>6, <1>7, <1>8 DEF Next, Work, Terminated

\* The worker implements the safety part of the ledger (the fairness part is
\* model-checked).
THEOREM RefinesLedger == Spec => Ledger!Spec
<1>1. Init => Ledger!Init
  BY LedgerInit
<1>2. IInv /\ IInv' /\ [Next]_vars => [Ledger!Next]_(Ledger!vars)
  BY LedgerNext
<1>. QED BY <1>1, <1>2, Invariance, PTL DEF Spec, Ledger!Spec
==============================================================================
