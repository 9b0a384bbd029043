------------------------------ MODULE EcoWorker ------------------------------
(***************************************************************************)
(* pkg/middleware/worker.go: the bounded channel between the middleware    *)
(* and the pool of worker goroutines, the select that feeds it without     *)
(* ever blocking, and the life of a worker from Start to Stop.             *)
(*                                                                         *)
(* A payload stands for the TracePayload of one request; its fields are    *)
(* EcoMiddleware's business.  A step is what a goroutine does between two  *)
(* points where another one can interfere: a channel operation, a read of  *)
(* the context, the metric updates, a call of the repository.              *)
(***************************************************************************)
EXTENDS Integers, Sequences, FiniteSets

CONSTANTS
  Payloads,     \* TracePayloads, each offered at most once
  Workers,      \* the goroutines that Start launches
  BufferSize,   \* WorkerConfig.BufferSize as configured
  NoPayload     \* a worker's payload variable when it holds nothing

ASSUME WorkersAssumption == Workers # {}        \* withDefaults: Count >= 1
ASSUME BufferAssumption  == BufferSize \in Int
ASSUME PayloadAssumption == NoPayload \notin Payloads

VARIABLES
  sender,      \* per payload: where the request goroutine is in its select
  ch,          \* the channel's buffer
  closed,      \* close(w.ch) has happened
  cancelled,   \* the context given to Start has been cancelled
  drops,       \* Worker.drops
  wpc,         \* per worker: its place in loop and observe
  held,        \* per worker: the payload it took from the channel
  observed,    \* per payload: how often the OTEL instruments have counted it
  saved,       \* payloads repo.Save accepted
  failed,      \* payloads repo.Save returned an error for (logged, not retried)
  lateSaves    \* per worker: Saves that ended after the cancel (history)

vars == <<sender, ch, closed, cancelled, drops, wpc, held, observed, saved,
          failed, lateSaves>>

------------------------------------------------------------------------------
SenderStates == {"idle", "sent", "dropping", "dropped"}

\* "observe" is observe() with skipSave false, "drain" with skipSave true.
WorkerStates == {"off", "recv", "check", "observe", "drain", "save", "exited"}

\* WorkerConfig.withDefaults.
Capacity == IF BufferSize <= 0 THEN 512 ELSE BufferSize

TypeOK ==
  /\ sender \in [Payloads -> SenderStates]
  /\ ch \in Seq(Payloads)
  /\ Len(ch) <= Capacity
  /\ closed \in BOOLEAN
  /\ cancelled \in BOOLEAN
  /\ drops \in Nat
  /\ wpc \in [Workers -> WorkerStates]
  /\ held \in [Workers -> Payloads \cup {NoPayload}]
  /\ observed \in [Payloads -> Nat]
  /\ saved \in SUBSET Payloads
  /\ failed \in SUBSET Payloads
  /\ lateSaves \in [Workers -> Nat]

Queued  == {ch[i] : i \in 1..Len(ch)}
Sent    == {p \in Payloads : sender[p] = "sent"}

\* What the WaitGroup counts: workers launched and not yet past wg.Done.
Running == {w \in Workers : wpc[w] \notin {"off", "exited"}}

\* Payloads a worker has taken and not yet counted.
InHand  == {held[w] : w \in {v \in Workers : wpc[v] \in {"check", "observe", "drain"}}}

Init ==
  /\ sender = [p \in Payloads |-> "idle"]
  /\ ch = <<>>
  /\ closed = FALSE
  /\ cancelled = FALSE
  /\ drops = 0
  /\ wpc = [w \in Workers |-> "off"]
  /\ held = [w \in Workers |-> NoPayload]
  /\ observed = [p \in Payloads |-> 0]
  /\ saved = {}
  /\ failed = {}
  /\ lateSaves = [w \in Workers |-> 0]

------------------------------------------------------------------------------
\* The request goroutine: select { case ch <- payload: default: drop }.
\* The select of a request on a closed channel panics; that no caller gets
\* there is the contract of Stop, which EcoServer has to keep.

HasRoomOffByOne == Len(ch) <= Capacity       \* mutant
HasRoom == Len(ch) < Capacity

Send(p) ==
  /\ sender[p] = "idle"
  /\ ~closed
  /\ HasRoom
  /\ ch' = Append(ch, p)
  /\ sender' = [sender EXCEPT ![p] = "sent"]
  /\ UNCHANGED <<closed, cancelled, drops, wpc, held, observed, saved, failed,
                 lateSaves>>

Refuse(p) ==
  /\ sender[p] = "idle"
  /\ ~closed
  /\ ~HasRoom
  /\ sender' = [sender EXCEPT ![p] = "dropping"]
  /\ UNCHANGED <<ch, closed, cancelled, drops, wpc, held, observed, saved,
                 failed, lateSaves>>

\* w.drops.Add(1), after the select has taken its default branch.
CountDrop(p) ==
  /\ sender[p] = "dropping"
  /\ sender' = [sender EXCEPT ![p] = "dropped"]
  /\ drops' = drops + 1
  /\ UNCHANGED <<ch, closed, cancelled, wpc, held, observed, saved, failed,
                 lateSaves>>

------------------------------------------------------------------------------
\* The owner of the worker.

\* Start: Count goroutines, each of which begins at the head of loop.
Start ==
  /\ \A w \in Workers : wpc[w] = "off"
  /\ wpc' = [w \in Workers |-> "recv"]
  /\ UNCHANGED <<sender, ch, closed, cancelled, drops, held, observed, saved,
                 failed, lateSaves>>

Cancel ==
  /\ ~cancelled
  /\ cancelled' = TRUE
  /\ UNCHANGED <<sender, ch, closed, drops, wpc, held, observed, saved, failed,
                 lateSaves>>

\* The first half of Stop; the second, wg.Wait, returns when Running = {}.
Close ==
  /\ ~closed
  /\ closed' = TRUE
  /\ UNCHANGED <<sender, ch, cancelled, drops, wpc, held, observed, saved,
                 failed, lateSaves>>

------------------------------------------------------------------------------
\* A worker goroutine.

\* for payload := range w.ch, with a payload in the buffer.
Receive(w) ==
  /\ wpc[w] = "recv"
  /\ ch # <<>>
  /\ held' = [held EXCEPT ![w] = Head(ch)]
  /\ ch' = Tail(ch)
  /\ wpc' = [wpc EXCEPT ![w] = "check"]
  /\ UNCHANGED <<sender, closed, cancelled, drops, observed, saved, failed,
                 lateSaves>>

\* The range ends: the channel is closed and its buffer empty.  defer wg.Done.
RangeEndsOnClose  == closed                   \* mutant
RangeEndsOnCancel == cancelled /\ ch = <<>>   \* mutant
RangeEnds == closed /\ ch = <<>>

Exit(w) ==
  /\ wpc[w] = "recv"
  /\ RangeEnds
  /\ wpc' = [wpc EXCEPT ![w] = "exited"]
  /\ UNCHANGED <<sender, ch, closed, cancelled, drops, held, observed, saved,
                 failed, lateSaves>>

\* if ctx.Err() != nil: the only place where a worker looks at the context.
SkipSaveNever   == FALSE                      \* mutant
SkipSaveOnClose == cancelled \/ closed        \* mutant
SkipSave == cancelled

CheckContext(w) ==
  /\ wpc[w] = "check"
  /\ wpc' = [wpc EXCEPT ![w] = IF SkipSave THEN "drain" ELSE "observe"]
  /\ UNCHANGED <<sender, ch, closed, cancelled, drops, held, observed, saved,
                 failed, lateSaves>>

\* observe up to its early return: the counters and histograms.
Observe(w) ==
  /\ wpc[w] = "observe"
  /\ observed' = [observed EXCEPT ![held[w]] = @ + 1]
  /\ wpc' = [wpc EXCEPT ![w] = "save"]
  /\ UNCHANGED <<sender, ch, closed, cancelled, drops, held, saved, failed,
                 lateSaves>>

\* Mutant: loop without its continue, so that the payload is observed again.
ObserveOnlyNoContinue(w) ==
  /\ wpc[w] = "drain"
  /\ observed' = [observed EXCEPT ![held[w]] = @ + 1]
  /\ wpc' = [wpc EXCEPT ![w] = "observe"]
  /\ UNCHANGED <<sender, ch, closed, cancelled, drops, held, saved, failed,
                 lateSaves>>

ObserveOnly(w) ==
  /\ wpc[w] = "drain"
  /\ observed' = [observed EXCEPT ![held[w]] = @ + 1]
  /\ wpc' = [wpc EXCEPT ![w] = "recv"]
  /\ held' = [held EXCEPT ![w] = NoPayload]
  /\ UNCHANGED <<sender, ch, closed, cancelled, drops, saved, failed,
                 lateSaves>>

\* repo.Save has returned, with nil or with an error that is only logged.
EndSave(w) ==
  /\ wpc[w] = "save"
  /\ wpc' = [wpc EXCEPT ![w] = "recv"]
  /\ held' = [held EXCEPT ![w] = NoPayload]
  /\ lateSaves' = [lateSaves EXCEPT ![w] = IF cancelled THEN @ + 1 ELSE @]
  /\ UNCHANGED <<sender, ch, closed, cancelled, drops, observed>>

SaveOK(w) ==
  /\ EndSave(w)
  /\ saved' = saved \cup {held[w]}
  /\ UNCHANGED failed

\* Mutant: Save is called again after an error.
SaveErrorRetries(w) ==
  /\ wpc[w] = "save"
  /\ failed' = failed \cup {held[w]}
  /\ UNCHANGED <<sender, ch, closed, cancelled, drops, wpc, held, observed,
                 saved, lateSaves>>

SaveError(w) ==
  /\ EndSave(w)
  /\ failed' = failed \cup {held[w]}
  /\ UNCHANGED saved

Work(w) ==
  \/ Receive(w) \/ Exit(w) \/ CheckContext(w)
  \/ Observe(w) \/ ObserveOnly(w) \/ SaveOK(w) \/ SaveError(w)

------------------------------------------------------------------------------
Stopped == closed /\ (\A w \in Workers : wpc[w] = "exited")

\* Stop has returned and nothing is left to do.
Terminated ==
  /\ Stopped
  /\ \A p \in Payloads : sender[p] # "dropping"
  /\ UNCHANGED vars

Next ==
  \/ \E p \in Payloads : Send(p) \/ Refuse(p) \/ CountDrop(p)
  \/ Start \/ Cancel \/ Close
  \/ \E w \in Workers : Work(w)
  \/ Terminated

Spec == Init /\ [][Next]_vars

\* The Go scheduler runs every runnable goroutine; main calls Start before it
\* serves; and repo.Save, an in-memory store, returns.  Nothing obliges anybody
\* to cancel, to close or to send.
FairSpec ==
  /\ Spec
  /\ WF_vars(Start)
  /\ \A p \in Payloads : WF_vars(CountDrop(p))
  /\ \A w \in Workers : WF_vars(Work(w))

------------------------------------------------------------------------------
(* Properties *)

\* A payload is in one place: in the buffer once, or in the hands of one
\* worker, or counted once by the instruments; and those are the payloads that
\* the select accepted.  (loop and observe with several workers on one channel,
\* worker.go:226-268.)
Placed(p) == p \in Queued \/ p \in InHand \/ observed[p] = 1

ExactlyOnce ==
  /\ \A i, j \in 1..Len(ch) : ch[i] = ch[j] => i = j
  /\ \A v, w \in Workers :
       held[v] = held[w] /\ held[v] # NoPayload => v = w
  /\ Queued \cap InHand = {}
  /\ \A p \in Queued \cup InHand : observed[p] = 0
  /\ \A p \in Payloads : (p \in Sent <=> Placed(p)) /\ observed[p] <= 1

\* A payload is stored or failed, never both, and not before it was counted:
\* the repository never knows of a request that the counters do not.
\* (observe, worker.go:264-294.)
StoredWasCounted ==
  /\ saved \cap failed = {}
  /\ \A p \in saved \cup failed : observed[p] = 1

\* "drain without saving" starts late: ctx.Err() is read before the metrics are
\* updated, so a worker may still call Save after the cancel, but only for the
\* payload it was busy with.  (worker.go:229-233.)
LateSavesBounded == \A w \in Workers : lateSaves[w] <= 1

\* When Stop returns, nothing is left in the channel and every payload that the
\* middleware managed to send has been counted.  (worker.go:218-224.)
StopDrains == Stopped => Queued = {} /\ \A p \in Sent : observed[p] = 1

\* Stop without a cancel before it also leaves every payload saved, or reported
\* as failed: what TestWorker_ProcessesAllPayloads asks of a closed worker.
\* (worker.go:226-234, worker_test.go.)
UncancelledStopSavesAll == Stopped /\ ~cancelled => Sent = saved \cup failed

\* wg.Wait returns: once the channel is closed every worker leaves its loop.
\* (worker.go:220-224.)
StopReturns == closed ~> Stopped

\* The worker implements the ledger: a payload is new until its select, accepted
\* while it is queued or in a worker's hands, recorded once counted and stored
\* once Save accepted it; and accepted payloads do get recorded.
Fate(p) ==
  CASE sender[p] = "idle"                  -> "new"
    [] sender[p] \in {"dropping", "dropped"} -> "rejected"
    [] OTHER -> IF p \in saved THEN "stored"
                ELSE IF observed[p] > 0 THEN "recorded" ELSE "accepted"

Ledger == INSTANCE TraceLedger WITH fate   <- [p \in Payloads |-> Fate(p)],
                                    sealed <- closed

ImplementsLedger == Ledger!FairSpec
==============================================================================
