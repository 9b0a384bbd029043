--------------------------- MODULE EcoServerProofs ---------------------------
(***************************************************************************)
(* Theorems about EcoServer, for any requests, workers, buffer and rate:   *)
(* the server keeps the contract of Stop, and what it does to the worker   *)
(* are steps of EcoWorker, so that EcoWorker's theorems hold of it.        *)
(***************************************************************************)
EXTENDS EcoServer, FiniteSetTheorems, TLAPS

WP == INSTANCE EcoWorkerProofs WITH Payloads <- Requests

------------------------------------------------------------------------------
(* The server takes the worker's steps only.                               *)

LEMMA WorkerStepOrStutter == [Next]_vars => [W!Next]_(W!vars)
<1>. SUFFICES ASSUME [Next]_vars PROVE W!Next \/ UNCHANGED workerVars
  BY DEF W!vars, workerVars
<1>1. ASSUME NEW r \in Requests, Request(r) PROVE W!Next \/ UNCHANGED workerVars
  BY <1>1 DEF Request, Sampled, NotSampled, HandlerReturns, HandlerPanics, Offer,
     CountDrop, W!Next
<1>2. ASSUME NEW w \in Workers, WorkerStep(w) PROVE W!Next
  BY <1>2 DEF WorkerStep, W!Next
<1>3. CASE Signal \/ ListenFails \/ PostQuit
  BY <1>3 DEF Signal, ListenFails, PostQuit
<1>4. CASE Main
  BY <1>4 DEF Main, Boot, BootFails, ReceiveQuit, ShutdownBusy, ShutdownQuiescent,
     ShutdownTimeout, CancelWorker, StopClose, StopWaited, DeferredCancel, Abort,
     W!Next
<1>5. CASE Gone \/ UNCHANGED vars
  BY <1>5 DEF Gone, vars
<1>. QED BY <1>1, <1>2, <1>3, <1>4, <1>5 DEF Next

\* main.go and the middleware use the worker as EcoWorker says it is used.
THEOREM ServerUsesWorker == Spec => W!Spec
<1>1. Init => W!Init
  BY DEF Init
<1>. QED BY <1>1, WorkerStepOrStutter, PTL DEF Spec, W!Spec

\* W and WP!'s worker are one specification, instantiated twice.
LEMMA SameWorker == W!Spec => WP!Spec
<1>1. W!Init => WP!Init
  BY DEF W!Init, WP!Init
<1>2. [W!Next]_(W!vars) => [WP!Next]_(WP!vars)
  BY DEF W!Next, W!Send, W!Refuse, W!CountDrop, W!Start, W!Cancel, W!Close, W!Work,
     W!Receive, W!Exit, W!CheckContext, W!Observe, W!ObserveOnly, W!SaveOK,
     W!SaveError, W!EndSave, W!Terminated, W!HasRoom, W!Capacity, W!RangeEnds,
     W!SkipSave, W!Stopped, W!vars,
     WP!Next, WP!Send, WP!Refuse, WP!CountDrop, WP!Start, WP!Cancel, WP!Close,
     WP!Work, WP!Receive, WP!Exit, WP!CheckContext, WP!Observe, WP!ObserveOnly,
     WP!SaveOK, WP!SaveError, WP!EndSave, WP!Terminated, WP!HasRoom, WP!Capacity,
     WP!RangeEnds, WP!SkipSave, WP!Stopped, WP!vars
<1>. QED BY <1>1, <1>2, PTL DEF W!Spec, WP!Spec

\* So no payload is lost or counted twice between the middleware and the
\* metrics, however the server is stopped; and a worker ends at most one Save
\* after cancelWorker.
THEOREM ServerDeliversOnce == Spec => [](W!ExactlyOnce /\ W!LateSavesBounded)
<1>1. WP!Spec => [](WP!ExactlyOnce /\ WP!LateSavesBounded)
  BY WP!ExactlyOnceDelivery, WP!LateSaves, WorkersAssumption, BufferAssumption,
     RequestsAssumption, PTL
<1>2. WP!ExactlyOnce => W!ExactlyOnce
  BY DEF WP!ExactlyOnce, WP!Placed, WP!Queued, WP!InHand, WP!Sent,
     W!ExactlyOnce, W!Placed, W!Queued, W!InHand, W!Sent
<1>3. WP!LateSavesBounded => W!LateSavesBounded
  BY DEF WP!LateSavesBounded, W!LateSavesBounded
<1>. QED BY <1>1, <1>2, <1>3, SameWorker, ServerUsesWorker, PTL

\* The ledger of the requests, which the server is to keep as a whole.
Ledger == INSTANCE TraceLedger WITH Payloads <- Requests,
                                    fate     <- [r \in Requests |-> W!Fate(r)],
                                    sealed   <- closed

\* The server implements the abstract ledger: whatever main, the handlers and the
\* workers do, a request's trace is rejected or accepted before the channel is
\* sealed, recorded only when accepted and stored only when recorded
\* (eco_metrics.go:153-159, worker.go:218-298, main.go:224-238).
THEOREM ServerKeepsLedger == Spec => Ledger!Spec
<1>1. WP!Spec => WP!Ledger!Spec
  BY WP!RefinesLedger, WorkersAssumption, BufferAssumption, RequestsAssumption
<1>2. \A r \in Requests : WP!Fate(r) = W!Fate(r) /\ WP!Fate(r)' = W!Fate(r)'
  BY DEF WP!Fate, W!Fate
<1>3. WP!Ledger!Init => Ledger!Init
  BY <1>2 DEF WP!Ledger!Init, Ledger!Init
<1>4. [WP!Ledger!Next]_(WP!Ledger!vars) => [Ledger!Next]_(Ledger!vars)
  BY <1>2 DEF WP!Ledger!Next, WP!Ledger!vars, WP!Ledger!Accept, WP!Ledger!Reject,
     WP!Ledger!Record, WP!Ledger!Store, WP!Ledger!Becomes, WP!Ledger!Seal,
     Ledger!Next, Ledger!vars, Ledger!Accept, Ledger!Reject, Ledger!Record,
     Ledger!Store, Ledger!Becomes, Ledger!Seal
<1>. QED BY <1>1, <1>3, <1>4, SameWorker, ServerUsesWorker, PTL
         DEF WP!Ledger!Spec, Ledger!Spec

------------------------------------------------------------------------------
(* The order of the shutdown. *)

\* The channel is closed only in main's last steps on the clean way out; and
\* from the moment srv.Shutdown has returned nil there is no handler.
ShutdownOrder ==
  /\ req \in [Requests -> RequestStates]
  /\ closed => main \in {"wait", "exited"}
  /\ main \in {"cancel", "close", "wait", "exited"} => InFlight = {}

LEMMA ShutdownOrderInit == Init => ShutdownOrder
BY DEF Init, W!Init, ShutdownOrder, RequestStates

LEMMA ShutdownOrderNext == ShutdownOrder /\ [Next]_vars => ShutdownOrder'
<1>. SUFFICES ASSUME ShutdownOrder, [Next]_vars PROVE ShutdownOrder'
  OBVIOUS
<1>. USE DEF ShutdownOrder, RequestStates, InFlight
\* A request that moves is in flight afterwards only if main is still serving,
\* or it was in flight before.
<1>1. ASSUME NEW r \in Requests, Request(r) PROVE ShutdownOrder'
  <2>1. closed' = closed /\ main' = main
    BY <1>1 DEF Request, Sampled, NotSampled, HandlerReturns, HandlerPanics, Offer,
       CountDrop, W!Send, W!Refuse, W!CountDrop, mainVars, workerVars
  <2>2. req' \in [Requests -> RequestStates]
    BY <1>1 DEF Request, Sampled, NotSampled, HandlerReturns, HandlerPanics, Offer,
       CountDrop
  <2>3. Serving \/ r \in InFlight
    BY <1>1 DEF Request, Sampled, NotSampled, HandlerReturns, HandlerPanics, Offer,
       CountDrop
  <2>. QED BY <2>1, <2>2, <2>3 DEF Serving
<1>2. ASSUME NEW w \in Workers, WorkerStep(w) PROVE ShutdownOrder'
  <2>1. closed' = closed
    BY <1>2 DEF WorkerStep, W!Work, W!Receive, W!Exit, W!CheckContext, W!Observe,
       W!ObserveOnly, W!SaveOK, W!SaveError, W!EndSave
  <2>. QED BY <1>2, <2>1 DEF WorkerStep, mainVars, reqVars
<1>3. CASE Signal \/ ListenFails \/ PostQuit
  BY <1>3 DEF Signal, ListenFails, PostQuit, reqVars, workerVars
<1>4. CASE Main
  <2>1. CASE Boot
    BY <2>1 DEF Boot, W!Start, reqVars
  <2>2. CASE BootFails \/ ReceiveQuit \/ ShutdownBusy \/ ShutdownTimeout \/ Abort
             \/ StopWaited
    BY <2>2 DEF BootFails, ReceiveQuit, ShutdownBusy, ShutdownTimeout, Abort, StopWaited,
       MainStep, reqVars, workerVars
  <2>3. CASE ShutdownQuiescent
    BY <2>3 DEF ShutdownQuiescent, reqVars, workerVars
  <2>4. CASE CancelWorker \/ DeferredCancel
    BY <2>4 DEF CancelWorker, DeferredCancel, MainStep, W!Cancel, reqVars
  <2>5. CASE StopClose
    BY <2>5 DEF StopClose, MainStep, W!Close, reqVars
  <2>. QED BY <1>4, <2>1, <2>2, <2>3, <2>4, <2>5 DEF Main
<1>5. CASE Gone \/ UNCHANGED vars
  BY <1>5 DEF Gone, vars, mainVars, reqVars, workerVars
<1>. QED BY <1>1, <1>2, <1>3, <1>4, <1>5 DEF Next

\* No request can reach its select once the channel is closed: the panic that
\* the order of main.go:226-235 is there to avoid does not happen, whatever
\* the handlers do and however many requests there are.
THEOREM NeverSendOnClosed == Spec => []NoSendOnClosed
<1>1. ShutdownOrder => NoSendOnClosed
  BY DEF ShutdownOrder, NoSendOnClosed, Serving, InFlight
<1>. QED BY <1>1, ShutdownOrderInit, ShutdownOrderNext, PTL DEF Spec

------------------------------------------------------------------------------
(* The books balance after a clean exit.                                   *)

\* The requests that each of the two counters has counted.
LeftOut == {r \in Requests : \/ req[r] = "bypass"
                             \/ req[r] = "finished" /\ sender[r] = "idle"}
Dropped == {r \in Requests : sender[r] = "dropped"}

\* A request's goroutine and its place in the worker's select agree.
SendersMatch ==
  /\ req \in [Requests -> RequestStates]
  /\ sender \in [Requests -> W!SenderStates]
  /\ \A r \in Requests :
       /\ sender[r] # "idle" => req[r] \in {"counting", "finished"}
       /\ req[r] = "counting" <=> sender[r] = "dropping"

Books ==
  /\ SendersMatch
  /\ samplerDropped = Cardinality(LeftOut)
  /\ drops = Cardinality(Dropped)

\* The worker runs from Boot on, and main exits only behind Stop.
Crew ==
  /\ wpc \in [Workers -> W!WorkerStates]
  /\ main \notin {"boot", "aborted"} => \A w \in Workers : wpc[w] # "off"
  /\ main \in {"wait", "exited"} => closed
  /\ main = "exited" => W!Stopped

LEMMA CrewInit == Init => Crew
BY DEF Init, W!Init, Crew, W!WorkerStates

LEMMA CrewNext == Crew /\ [Next]_vars => Crew'
<1>. SUFFICES ASSUME Crew, [Next]_vars PROVE Crew'
  OBVIOUS
<1>. USE DEF Crew, W!WorkerStates
<1>1. ASSUME NEW r \in Requests, Request(r) PROVE Crew'
  <2>. UNCHANGED <<wpc, closed, main>>
    BY <1>1 DEF Request, Sampled, NotSampled, HandlerReturns, HandlerPanics, Offer,
       CountDrop, W!Send, W!Refuse, W!CountDrop, mainVars, workerVars
  <2>. QED BY DEF W!Stopped
<1>2. ASSUME NEW w \in Workers, WorkerStep(w) PROVE Crew'
  <2>1. main' = main /\ main # "exited" /\ closed' = closed
    BY <1>2 DEF WorkerStep, Alive, mainVars, W!Work, W!Receive, W!Exit, W!CheckContext,
       W!Observe, W!ObserveOnly, W!SaveOK, W!SaveError, W!EndSave
  <2>2. \E s \in W!WorkerStates \ {"off"} : wpc' = [wpc EXCEPT ![w] = s]
    BY <1>2 DEF WorkerStep, W!Work, W!Receive, W!Exit, W!CheckContext, W!SkipSave,
       W!Observe, W!ObserveOnly, W!SaveOK, W!SaveError, W!EndSave
  <2>. QED BY <2>1, <2>2
<1>3. CASE Signal \/ ListenFails \/ PostQuit
  BY <1>3 DEF Signal, ListenFails, PostQuit, workerVars, W!Stopped
<1>4. CASE Main
  <2>1. CASE Boot
    BY <2>1 DEF Boot, W!Start, W!Stopped
  <2>2. CASE \/ BootFails \/ ReceiveQuit \/ ShutdownBusy \/ ShutdownQuiescent
             \/ ShutdownTimeout \/ Abort
    BY <2>2 DEF BootFails, ReceiveQuit, ShutdownBusy, ShutdownQuiescent, ShutdownTimeout,
       Abort, MainStep, workerVars, W!Stopped
  <2>3. CASE CancelWorker \/ DeferredCancel
    BY <2>3 DEF CancelWorker, DeferredCancel, MainStep, W!Cancel, W!Stopped
  <2>4. CASE StopClose
    BY <2>4 DEF StopClose, MainStep, W!Close
  <2>5. CASE StopWaited
    <3>1. \A w \in Workers : wpc[w] = "exited"
      BY <2>5 DEF StopWaited, MainStep, W!Running
    <3>. QED BY <2>5, <3>1 DEF StopWaited, MainStep, W!Stopped, workerVars
  <2>. QED BY <1>4, <2>1, <2>2, <2>3, <2>4, <2>5 DEF Main
<1>5. CASE Gone \/ UNCHANGED vars
  BY <1>5 DEF Gone, vars, mainVars, workerVars, W!Stopped
<1>. QED BY <1>1, <1>2, <1>3, <1>4, <1>5 DEF Next

\* The sets of requests that are counted are finite.
LEMMA FiniteBooks ==
  \A S \in SUBSET Requests : IsFiniteSet(S) /\ Cardinality(S) \in Nat
BY RequestsAssumption, FS_Subset, FS_CardinalityType

LEMMA OneMore ==
  ASSUME NEW S \in SUBSET Requests, NEW r, r \notin S
  PROVE  Cardinality(S \cup {r}) = Cardinality(S) + 1
BY FiniteBooks, FS_AddElement

LEMMA BooksInit == Init => Books
<1>. SUFFICES ASSUME Init PROVE Books
  OBVIOUS
<1>1. SendersMatch
  BY DEF Init, W!Init, SendersMatch, RequestStates, W!SenderStates
<1>2. LeftOut = {} /\ Dropped = {}
  BY DEF Init, W!Init, LeftOut, Dropped
<1>. QED BY <1>1, <1>2, FS_EmptySet DEF Init, W!Init, Books

LEMMA BooksNext == Books /\ [Next]_vars => Books'
<1>. SUFFICES ASSUME Books, [Next]_vars PROVE Books'
  OBVIOUS
<1>. USE DEF SendersMatch, RequestStates, W!SenderStates
<1>1. ASSUME NEW r \in Requests, Request(r) PROVE Books'
  <2>1. SendersMatch'
    BY <1>1 DEF Books, Request, Sampled, NotSampled, HandlerReturns, HandlerPanics, Offer,
       CountDrop, W!Send, W!Refuse, W!CountDrop, workerVars
  <2>2. CASE NotSampled(r)
    <3>1. LeftOut' = LeftOut \cup {r} /\ r \notin LeftOut /\ Dropped' = Dropped
      BY <2>2 DEF Books, NotSampled, workerVars, LeftOut, Dropped
    <3>2. Cardinality(LeftOut') = Cardinality(LeftOut) + 1
      BY <3>1, OneMore DEF LeftOut
    <3>. QED BY <2>1, <2>2, <3>1, <3>2 DEF Books, NotSampled, workerVars
  <2>3. CASE CountDrop(r)
    <3>1. Dropped' = Dropped \cup {r} /\ r \notin Dropped
      BY <2>3 DEF Books, CountDrop, W!CountDrop, Dropped
    <3>2. LeftOut' = LeftOut
      BY <2>3 DEF Books, CountDrop, W!CountDrop, LeftOut
    <3>3. Cardinality(Dropped') = Cardinality(Dropped) + 1
      BY <3>1, OneMore DEF Dropped
    <3>. QED BY <2>1, <2>3, <3>1, <3>2, <3>3 DEF Books, CountDrop, W!CountDrop
  <2>4. CASE Sampled(r) \/ HandlerReturns(r) \/ HandlerPanics(r) \/ Offer(r)
    <3>1. LeftOut' = LeftOut
      BY <2>4 DEF Books, Sampled, HandlerReturns, HandlerPanics, Offer, W!Send, W!Refuse,
         workerVars, LeftOut
    <3>2. Dropped' = Dropped
      BY <2>4 DEF Books, Sampled, HandlerReturns, HandlerPanics, Offer, W!Send, W!Refuse,
         workerVars, Dropped
    <3>3. UNCHANGED <<samplerDropped, drops>>
      BY <2>4 DEF Sampled, HandlerReturns, HandlerPanics, Offer, W!Send, W!Refuse,
         workerVars
    <3>. QED BY <2>1, <3>1, <3>2, <3>3 DEF Books
  <2>. QED BY <1>1, <2>2, <2>3, <2>4 DEF Request
<1>2. CASE UNCHANGED <<req, sender, samplerDropped, drops>>
  BY <1>2 DEF Books, LeftOut, Dropped
<1>3. ASSUME NEW w \in Workers, WorkerStep(w) PROVE Books'
  BY <1>2, <1>3 DEF WorkerStep, reqVars, W!Work, W!Receive, W!Exit, W!CheckContext,
     W!Observe, W!ObserveOnly, W!SaveOK, W!SaveError, W!EndSave
<1>4. CASE Signal \/ ListenFails \/ PostQuit
  BY <1>2, <1>4 DEF Signal, ListenFails, PostQuit, reqVars, workerVars
<1>5. CASE Main
  BY <1>2, <1>5 DEF Main, Boot, BootFails, ReceiveQuit, ShutdownBusy, ShutdownQuiescent,
     ShutdownTimeout, CancelWorker, StopClose, StopWaited, DeferredCancel, Abort, MainStep,
     W!Start, W!Cancel, W!Close, reqVars, workerVars
<1>6. CASE Gone \/ UNCHANGED vars
  BY <1>2, <1>6 DEF Gone, vars, reqVars, workerVars
<1>. QED BY <1>1, <1>3, <1>4, <1>5, <1>6 DEF Next

\* Four sets that share no request: their sizes add up.
LEMMA FourParts ==
  ASSUME NEW A \in SUBSET Requests, NEW B \in SUBSET Requests,
         NEW C \in SUBSET Requests, NEW D \in SUBSET Requests,
         A \cap B = {}, (A \cup B) \cap C = {}, (A \cup B \cup C) \cap D = {}
  PROVE  Cardinality(A \cup B \cup C \cup D) =
           Cardinality(A) + Cardinality(B) + Cardinality(C) + Cardinality(D)
<1>1. \A S, T \in SUBSET Requests : S \cap T = {} =>
        Cardinality(S \cup T) = Cardinality(S) + Cardinality(T)
  BY FiniteBooks, FS_Union, FS_EmptySet
<1>2. Cardinality(A \cup B) = Cardinality(A) + Cardinality(B)
  BY <1>1
<1>3. Cardinality((A \cup B) \cup C) = Cardinality(A \cup B) + Cardinality(C)
  BY <1>1
<1>4. Cardinality((A \cup B \cup C) \cup D) = Cardinality(A \cup B \cup C) + Cardinality(D)
  BY <1>1
<1>. QED BY <1>2, <1>3, <1>4

LEMMA ServerDrains == Spec => [](W!ExactlyOnce /\ W!StopDrains)
<1>1. WP!Spec => [](WP!ExactlyOnce /\ WP!StopDrains)
  <2>1. WP!Spec => [](WP!StopDrains /\ WP!UncancelledStopSavesAll)
    BY WP!DrainedAtStop, WorkersAssumption, BufferAssumption, RequestsAssumption
  <2>2. WP!Spec => []WP!ExactlyOnce
    BY WP!ExactlyOnceDelivery, WorkersAssumption, BufferAssumption, RequestsAssumption
  <2>. QED BY <2>1, <2>2, PTL
<1>2. WP!ExactlyOnce /\ WP!StopDrains => W!ExactlyOnce /\ W!StopDrains
  BY DEF WP!ExactlyOnce, WP!Placed, WP!Queued, WP!InHand, WP!Sent, WP!StopDrains,
     WP!Stopped, W!ExactlyOnce, W!Placed, W!Queued, W!InHand, W!Sent, W!StopDrains,
     W!Stopped
<1>. QED BY <1>1, <1>2, SameWorker, ServerUsesWorker, PTL

\* What holds together at any time, and what that means at a clean exit.
ServerInv == Books /\ Crew /\ ShutdownOrder /\ W!ExactlyOnce /\ W!StopDrains

LEMMA ServerInvariance == Spec => []ServerInv
<1>1. Books /\ Crew /\ ShutdownOrder /\ W!ExactlyOnce /\ W!StopDrains => ServerInv
  BY DEF ServerInv
<1>. QED BY <1>1, BooksInit, BooksNext, CrewInit, CrewNext, ShutdownOrderInit,
       ShutdownOrderNext, ServerDrains, PTL DEF Spec

LEMMA AtExit ==
  ASSUME ServerInv, main = "exited"
  PROVE  /\ InFlight = {} /\ W!Queued = {} /\ W!InHand = {}
         /\ \A r \in Requests : sender[r] = "sent" <=> observed[r] = 1
         /\ \A r \in Requests : req[r] \in {"new", "finished", "lost"}
         /\ \A r \in Requests : sender[r] \in {"idle", "sent", "dropped"}
<1>. USE DEF ServerInv
<1>1. InFlight = {} /\ W!Stopped
  BY DEF ShutdownOrder, Crew
<1>2. W!Queued = {} /\ \A r \in W!Sent : observed[r] = 1
  BY <1>1 DEF W!StopDrains
<1>3. W!InHand = {}
  BY <1>1 DEF W!Stopped, W!InHand
<1>4. \A r \in Requests : sender[r] = "sent" <=> observed[r] = 1
  BY <1>2, <1>3 DEF W!ExactlyOnce, W!Placed, W!Sent
<1>5. \A r \in Requests : req[r] \in {"new", "finished", "lost"}
  BY <1>1 DEF InFlight, Books, SendersMatch, RequestStates
<1>6. \A r \in Requests : sender[r] \in {"idle", "sent", "dropped"}
  BY <1>5 DEF Books, SendersMatch, W!SenderStates
<1>. QED BY <1>1, <1>2, <1>3, <1>4, <1>5, <1>6

\* After a clean exit each request that arrived is in one of the four books, for
\* any number of requests and workers, any buffer and any rate.
THEOREM CleanExit == Spec => []CleanExitAccounts
<1>. DEFINE Counted == {r \in Requests : observed[r] = 1}
<1>1. ASSUME ServerInv, main = "exited"
      PROVE  CleanExitAccounts
  <2>1. Books
    BY <1>1 DEF ServerInv
  <2>2. /\ InFlight = {}
        /\ \A r \in Requests : sender[r] = "sent" <=> observed[r] = 1
        /\ \A r \in Requests : req[r] \in {"new", "finished", "lost"}
        /\ \A r \in Requests : sender[r] \in {"idle", "sent", "dropped"}
    BY <1>1, AtExit
  <2>3. {r \in Requests : req[r] # "new"} = LeftOut \cup Dropped \cup Lost \cup Counted
    BY <2>1, <2>2 DEF Books, SendersMatch, LeftOut, Dropped, Lost
  <2>4. /\ LeftOut \cap Dropped = {} /\ (LeftOut \cup Dropped) \cap Lost = {}
        /\ (LeftOut \cup Dropped \cup Lost) \cap Counted = {}
    BY <2>1, <2>2 DEF Books, SendersMatch, LeftOut, Dropped, Lost
  <2>5. /\ LeftOut \in SUBSET Requests /\ Dropped \in SUBSET Requests
        /\ Lost \in SUBSET Requests /\ Counted \in SUBSET Requests
    BY DEF LeftOut, Dropped, Lost
  <2>6. Cardinality(LeftOut \cup Dropped \cup Lost \cup Counted) =
          Cardinality(LeftOut) + Cardinality(Dropped) + Cardinality(Lost)
            + Cardinality(Counted)
    <3>. HIDE DEF Counted
    <3>. QED BY <2>4, <2>5, FourParts
  <2>. QED BY <2>1, <2>2, <2>3, <2>6 DEF Books, CleanExitAccounts
<1>2. ServerInv => CleanExitAccounts
  BY <1>1 DEF CleanExitAccounts
<1>. QED BY <1>2, ServerInvariance, PTL

\* What is left of ExitDrained, which a shutdown that times out refutes: on the
\* clean way out the worker has drained its channel and finished with what it had
\* taken (main.go:224-238, worker.go:218-235).
CleanExitDrained == main = "exited" => W!Queued = {} /\ W!InHand = {}

THEOREM DrainsOnCleanExit == Spec => []CleanExitDrained
<1>1. ServerInv => CleanExitDrained
  BY AtExit DEF CleanExitDrained
<1>. QED BY <1>1, ServerInvariance, PTL

\* The guards of the steps that HotPathNeverBlocks says are enabled: a request
\* that has its response finds the select open, one way or the other, and then
\* its drop still to be counted, whatever the workers and main have done
\* (eco_metrics.go:153-159).
HotPathOpen ==
  Alive => \A r \in Requests :
             /\ req[r] = "offering" => sender[r] = "idle" /\ ~closed
             /\ req[r] = "counting" => sender[r] = "dropping"

THEOREM HotPathStaysOpen == Spec => []HotPathOpen
<1>1. ServerInv => HotPathOpen
  <2>. SUFFICES ASSUME ServerInv, NEW r \in Requests
       PROVE  /\ req[r] = "offering" => sender[r] = "idle" /\ ~closed
              /\ req[r] = "counting" => sender[r] = "dropping"
    BY DEF HotPathOpen
  <2>1. req[r] = "offering" => ~closed
    BY DEF ServerInv, ShutdownOrder, InFlight
  <2>. QED BY <2>1 DEF ServerInv, Books, SendersMatch
<1>. QED BY <1>1, ServerInvariance, PTL

------------------------------------------------------------------------------
(* Every request is instrumented, but for panics. *)

\* At full rate nothing passes by the instruments.
NoneLeftOut == Rate = 100 =>
  \A r \in Requests : req[r] # "bypass" /\ (req[r] = "finished" => sender[r] # "idle")

LEMMA NoneLeftOutNext == NoneLeftOut /\ SendersMatch /\ [Next]_vars => NoneLeftOut'
<1>. SUFFICES ASSUME NoneLeftOut, SendersMatch, [Next]_vars PROVE NoneLeftOut'
  OBVIOUS
<1>. USE DEF NoneLeftOut, SendersMatch, RequestStates, W!SenderStates
<1>1. ASSUME NEW r \in Requests, Request(r) PROVE NoneLeftOut'
  <2>r. Rate' = Rate
    BY DEF Rate
  <2>s. SUFFICES ASSUME Rate = 100, NEW q \in Requests
        PROVE  req'[q] # "bypass" /\ (req'[q] = "finished" => sender'[q] # "idle")
    BY <2>r DEF NoneLeftOut
  <2>0. req[q] # "bypass" /\ (req[q] = "finished" => sender[q] # "idle")
    BY <2>s
  <2>1. ~NotSampled(r) /\ req[r] # "bypass"
    BY <2>s DEF NotSampled
  <2>2. CASE Sampled(r)
    BY <2>0, <2>2 DEF Sampled, workerVars
  <2>3. CASE HandlerReturns(r) \/ HandlerPanics(r)
    BY <2>0, <2>1, <2>3 DEF HandlerReturns, HandlerPanics, workerVars
  <2>4. CASE Offer(r)
    BY <2>0, <2>4 DEF Offer, W!Send, W!Refuse
  <2>5. CASE CountDrop(r)
    BY <2>0, <2>5 DEF CountDrop, W!CountDrop
  <2>. QED BY <1>1, <2>1, <2>2, <2>3, <2>4, <2>5 DEF Request
<1>2. CASE UNCHANGED <<req, sender>>
  BY <1>2 DEF Rate
<1>3. ASSUME NEW w \in Workers, WorkerStep(w) PROVE NoneLeftOut'
  BY <1>2, <1>3 DEF WorkerStep, reqVars, W!Work, W!Receive, W!Exit, W!CheckContext,
     W!Observe, W!ObserveOnly, W!SaveOK, W!SaveError, W!EndSave
<1>4. CASE Signal \/ ListenFails \/ PostQuit
  BY <1>2, <1>4 DEF Signal, ListenFails, PostQuit, reqVars, workerVars
<1>5. CASE Main
  BY <1>2, <1>5 DEF Main, Boot, BootFails, ReceiveQuit, ShutdownBusy, ShutdownQuiescent,
     ShutdownTimeout, CancelWorker, StopClose, StopWaited, DeferredCancel, Abort, MainStep,
     W!Start, W!Cancel, W!Close, reqVars, workerVars
<1>6. CASE Gone \/ UNCHANGED vars
  BY <1>2, <1>6 DEF Gone, vars, reqVars, workerVars
<1>. QED BY <1>1, <1>3, <1>4, <1>5, <1>6 DEF Next

\* What is left of FullRateInstrumentsAll, which a handler that panics refutes:
\* with SampleRate 1.0 every request that arrived has been counted by a worker or
\* is a counted drop once the server is down, but for those whose handler
\* panicked (eco_metrics.go:63-64, 100-159).
FullRateAllButPanics ==
  main = "exited" /\ Rate = 100 =>
    \A r \in Requests : req[r] \notin {"new", "lost"} =>
                          observed[r] = 1 \/ sender[r] = "dropped"

THEOREM FullRateLosesOnlyPanics == Spec => []FullRateAllButPanics
<1>1. Init => NoneLeftOut
  BY DEF Init, W!Init, NoneLeftOut
<1>2. ServerInv => SendersMatch
  BY DEF ServerInv, Books
<1>3. ServerInv /\ NoneLeftOut => FullRateAllButPanics
  <2>. SUFFICES ASSUME ServerInv, NoneLeftOut, main = "exited", Rate = 100,
                       NEW r \in Requests, req[r] \notin {"new", "lost"}
       PROVE  observed[r] = 1 \/ sender[r] = "dropped"
    BY DEF FullRateAllButPanics
  <2>1. req[r] = "finished" /\ sender[r] \in {"idle", "sent", "dropped"}
        /\ (sender[r] = "sent" => observed[r] = 1)
    BY AtExit
  <2>2. sender[r] # "idle"
    BY <2>1 DEF NoneLeftOut
  <2>. QED BY <2>1, <2>2
<1>. QED BY <1>1, <1>2, <1>3, ServerInvariance, NoneLeftOutNext, PTL DEF Spec

------------------------------------------------------------------------------
(* Type correctness. *)

MainTyped ==
  /\ main \in MainStates /\ quit \in 0..1 /\ listener \in ListenerStates
  /\ samplerDropped \in Nat

LEMMA MainTypedNext == MainTyped /\ [Next]_vars => MainTyped'
<1>. SUFFICES ASSUME MainTyped, [Next]_vars PROVE MainTyped'
  OBVIOUS
<1>. USE DEF MainTyped
<1>1. ASSUME NEW r \in Requests, Request(r) PROVE MainTyped'
  <2>1. UNCHANGED mainVars /\ samplerDropped' \in {samplerDropped, samplerDropped + 1}
    BY <1>1 DEF Request, Sampled, NotSampled, HandlerReturns, HandlerPanics, Offer, CountDrop
  <2>2. samplerDropped' \in Nat
    BY <2>1
  <2>. QED BY <2>1, <2>2 DEF mainVars
<1>2. ASSUME NEW w \in Workers, WorkerStep(w) PROVE MainTyped'
  BY <1>2 DEF WorkerStep, mainVars, reqVars
<1>3. CASE Signal \/ ListenFails \/ PostQuit
  BY <1>3 DEF Signal, ListenFails, PostQuit, reqVars, ListenerStates
<1>4. CASE Main
  BY <1>4 DEF Main, Boot, BootFails, ReceiveQuit, ShutdownBusy, ShutdownQuiescent,
     ShutdownTimeout, CancelWorker, StopClose, StopWaited, DeferredCancel, Abort, MainStep,
     reqVars, MainStates, ListenerStates
<1>5. CASE Gone \/ UNCHANGED vars
  BY <1>5 DEF Gone, vars, mainVars, reqVars
<1>. QED BY <1>1, <1>2, <1>3, <1>4, <1>5 DEF Next

\* Type correctness of the server and of its worker.
THEOREM ServerTypes == Spec => []TypeOK
<1>1. Init => MainTyped
  BY DEF Init, MainTyped, MainStates, ListenerStates
<1>2. WP!Spec => []WP!TypeOK
  BY WP!TypeCorrectness, WorkersAssumption, BufferAssumption, RequestsAssumption
<1>3. WP!TypeOK => W!TypeOK
  BY DEF WP!TypeOK, WP!SenderStates, WP!WorkerStates, WP!Capacity, W!TypeOK,
     W!SenderStates, W!WorkerStates, W!Capacity
<1>4. MainTyped /\ ShutdownOrder /\ W!TypeOK => TypeOK
  BY DEF MainTyped, ShutdownOrder, TypeOK
<1>. QED BY <1>1, <1>2, <1>3, <1>4, MainTypedNext, ShutdownOrderInit, ShutdownOrderNext,
       ServerUsesWorker, SameWorker, PTL DEF Spec
==============================================================================
