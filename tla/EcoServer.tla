------------------------------ MODULE EcoServer ------------------------------
(***************************************************************************)
(* cmd/server/main.go around the worker: the request goroutines that the   *)
(* EcoMetrics middleware wraps, the goroutine that listens, and main's     *)
(* graceful shutdown.  The worker itself is the instance W of EcoWorker,   *)
(* whose payloads are here the requests they stand for.                    *)
(*                                                                         *)
(* net/http is external: Shutdown returns nil only when no handler runs,   *)
(* no handler starts after it returned nil, and it gives up with an error  *)
(* when its context ends first.                                            *)
(***************************************************************************)
EXTENDS Integers, Sequences, FiniteSets

CONSTANTS
  Requests,     \* the HTTP requests that may arrive
  Workers,      \* as in EcoWorker
  BufferSize,   \* as in EcoWorker
  NoPayload,    \* as in EcoWorker
  SampleRate    \* Options.SampleRate, in percent

ASSUME RequestsAssumption == IsFiniteSet(Requests) /\ NoPayload \notin Requests
ASSUME WorkersAssumption  == Workers # {}
ASSUME BufferAssumption   == BufferSize \in Int
ASSUME RateAssumption     == SampleRate \in Int

VARIABLES
  main,              \* where main's goroutine is
  quit,              \* signals waiting in the quit channel, which holds one
  listener,          \* the goroutine that runs ListenAndServe
  req,               \* per request: where its goroutine is in EcoMetrics
  samplerDropped,    \* Sampler.dropped
  sender, ch, closed, cancelled, drops, wpc, held, observed, saved, failed,
  lateSaves          \* the worker's variables

W == INSTANCE EcoWorker WITH Payloads <- Requests

workerVars == <<sender, ch, closed, cancelled, drops, wpc, held, observed, saved,
                failed, lateSaves>>
mainVars == <<main, quit, listener>>
reqVars  == <<req, samplerDropped>>
vars     == <<mainVars, reqVars, workerVars>>

------------------------------------------------------------------------------
MainStates ==
  {"boot", "serving",
   "shutdown", "polling",          \* in srv.Shutdown, before and after its first poll
   "cancel", "close", "wait",      \* the clean way out: cancelWorker, then Stop
   "unwind", "unwound",            \* the way out after an error: deferred calls only
   "exited", "aborted"}            \* the process is gone, with status 0 or 1

ListenerStates == {"off", "up", "failing", "done"}

\* "lost" is a sampled request whose handler panicked: its payload never was.
RequestStates == {"new", "bypass", "handling", "offering", "counting",
                  "finished", "lost"}

TypeOK ==
  /\ main \in MainStates
  /\ quit \in 0..1
  /\ listener \in ListenerStates
  /\ req \in [Requests -> RequestStates]
  /\ samplerDropped \in Nat
  /\ W!TypeOK

Alive    == main \notin {"exited", "aborted"}
InFlight == {r \in Requests : req[r] \in {"bypass", "handling", "offering", "counting"}}

Init ==
  /\ main = "boot"
  /\ quit = 0
  /\ listener = "off"
  /\ req = [r \in Requests |-> "new"]
  /\ samplerDropped = 0
  /\ W!Init

------------------------------------------------------------------------------
\* The request goroutines: EcoMetrics and what net/http and chi put around it.

\* newSampler clamps the rate; sample then flips a coin unless it is 0 or 1.
Rate == IF SampleRate < 0 THEN 0 ELSE IF SampleRate > 100 THEN 100 ELSE SampleRate

\* A connection can still bring a request while Shutdown polls.
Serving == main \in {"serving", "shutdown", "polling"}

Sampled(r) ==
  /\ Serving
  /\ req[r] = "new"
  /\ Rate > 0
  /\ req' = [req EXCEPT ![r] = "handling"]
  /\ UNCHANGED <<samplerDropped, mainVars, workerVars>>

NotSampled(r) ==
  /\ Serving
  /\ req[r] = "new"
  /\ Rate < 100
  /\ req' = [req EXCEPT ![r] = "bypass"]
  /\ samplerDropped' = samplerDropped + 1
  /\ UNCHANGED <<mainVars, workerVars>>

HandlerReturns(r) ==
  /\ Alive
  /\ \/ req[r] = "bypass"   /\ req' = [req EXCEPT ![r] = "finished"]
     \/ req[r] = "handling" /\ req' = [req EXCEPT ![r] = "offering"]
  /\ UNCHANGED <<samplerDropped, mainVars, workerVars>>

\* next.ServeHTTP panics: EcoMetrics has no defer, so nothing after the call
\* runs; chi's Recoverer, further out, answers 500.
HandlerPanics(r) ==
  /\ Alive
  /\ \/ req[r] = "bypass"   /\ req' = [req EXCEPT ![r] = "finished"]
     \/ req[r] = "handling" /\ req' = [req EXCEPT ![r] = "lost"]
  /\ UNCHANGED <<samplerDropped, mainVars, workerVars>>

\* Mutant: the select without its default branch.
OfferBlocking(r) ==
  /\ Alive
  /\ req[r] = "offering"
  /\ W!Send(r)
  /\ req' = [req EXCEPT ![r] = "finished"]
  /\ UNCHANGED <<samplerDropped, mainVars>>

\* select { case workerCh <- payload: default: }
Offer(r) ==
  /\ Alive
  /\ req[r] = "offering"
  /\ \/ W!Send(r)   /\ req' = [req EXCEPT ![r] = "finished"]
     \/ W!Refuse(r) /\ req' = [req EXCEPT ![r] = "counting"]
  /\ UNCHANGED <<samplerDropped, mainVars>>

CountDrop(r) ==
  /\ Alive
  /\ req[r] = "counting"
  /\ W!CountDrop(r)
  /\ req' = [req EXCEPT ![r] = "finished"]
  /\ UNCHANGED <<samplerDropped, mainVars>>

Request(r) ==
  \/ Sampled(r) \/ NotSampled(r)
  \/ HandlerReturns(r) \/ HandlerPanics(r)
  \/ Offer(r) \/ CountDrop(r)

------------------------------------------------------------------------------
\* The workers run as long as the process does.

WorkerStep(w) ==
  /\ Alive
  /\ W!Work(w)
  /\ UNCHANGED <<mainVars, reqVars>>

------------------------------------------------------------------------------
\* Signals, the listener goroutine and main.

\* worker.Start(workerCtx), signal.Notify, go ListenAndServe.
Boot ==
  /\ main = "boot"
  /\ W!Start
  /\ main' = "serving"
  /\ listener' = "up"
  /\ UNCHANGED <<quit, reqVars>>

\* run returns an error before it has started anything: see EcoProcess.
BootFails ==
  /\ main = "boot"
  /\ main' = "aborted"
  /\ UNCHANGED <<quit, listener, reqVars, workerVars>>

\* Mutant: an unbounded quit.
SignalAlways ==
  /\ Alive
  /\ main # "boot"
  /\ quit' = quit + 1
  /\ UNCHANGED <<main, listener, reqVars, workerVars>>

\* os/signal never blocks: a signal that finds quit full is dropped.
Signal ==
  /\ Alive
  /\ main # "boot"
  /\ quit = 0
  /\ quit' = 1
  /\ UNCHANGED <<main, listener, reqVars, workerVars>>

\* ListenAndServe returns an error (port taken, accept failed).
ListenFails ==
  /\ Alive
  /\ listener = "up"
  /\ listener' = "failing"
  /\ UNCHANGED <<main, quit, reqVars, workerVars>>

\* quit <- syscall.SIGTERM: blocks while quit is full.
PostQuit ==
  /\ Alive
  /\ listener = "failing"
  /\ quit = 0
  /\ quit' = 1
  /\ listener' = "done"
  /\ UNCHANGED <<main, reqVars, workerVars>>

MainStep(from, to) ==
  /\ main = from
  /\ main' = to
  /\ UNCHANGED <<listener, reqVars>>

\* <-quit
ReceiveQuit ==
  /\ MainStep("serving", "shutdown")
  /\ quit = 1
  /\ quit' = 0
  /\ UNCHANGED workerVars

\* srv.Shutdown closes the listeners (ListenAndServe returns ErrServerClosed,
\* which its goroutine ignores) and polls until no handler runs.  The first
\* poll precedes the first look at the context.
ShutdownBusy ==
  /\ main = "shutdown"
  /\ InFlight # {}
  /\ main' = "polling"
  /\ listener' = IF listener = "up" THEN "done" ELSE listener
  /\ UNCHANGED <<quit, reqVars, workerVars>>

ShutdownQuiescent ==
  /\ main \in {"shutdown", "polling"}
  /\ InFlight = {}
  /\ main' = "cancel"
  /\ listener' = IF listener = "up" THEN "done" ELSE listener
  /\ UNCHANGED <<quit, reqVars, workerVars>>

\* Mutants: the error is logged and shutdown goes on; Shutdown has no deadline.
ShutdownErrorIgnored == MainStep("polling", "cancel") /\ UNCHANGED <<quit, workerVars>>
ShutdownNoDeadline   == FALSE

\* httpCtx ends after 15 s: run returns the error.
ShutdownTimeout == MainStep("polling", "unwind") /\ UNCHANGED <<quit, workerVars>>

\* cancelWorker(), then close(w.ch) and wg.Wait() in worker.Stop().
CancelWorker == MainStep("cancel", "close") /\ W!Cancel /\ UNCHANGED quit
StopClose    == MainStep("close", "wait") /\ W!Close /\ UNCHANGED quit

StopNoWait   == MainStep("wait", "exited") /\ UNCHANGED <<quit, workerVars>>   \* mutant
StopWaited ==
  /\ MainStep("wait", "exited")
  /\ W!Running = {}
  /\ UNCHANGED <<quit, workerVars>>

\* defer cancelWorker(), the provider's Shutdown, os.Exit(1): Stop is not called.
DeferredCancel == MainStep("unwind", "unwound") /\ W!Cancel /\ UNCHANGED quit
Abort          == MainStep("unwound", "aborted") /\ UNCHANGED <<quit, workerVars>>

Main ==
  \/ Boot \/ BootFails \/ ReceiveQuit
  \/ ShutdownBusy \/ ShutdownQuiescent \/ ShutdownTimeout
  \/ CancelWorker \/ StopClose \/ StopWaited
  \/ DeferredCancel \/ Abort

\* The process is gone.
Gone == ~Alive /\ UNCHANGED vars

Next ==
  \/ \E r \in Requests : Request(r)
  \/ \E w \in Workers : WorkerStep(w)
  \/ Signal \/ ListenFails \/ PostQuit
  \/ Main
  \/ Gone

Spec == Init /\ [][Next]_vars

------------------------------------------------------------------------------
(* Properties *)

\* Nobody can reach the select once the channel is closed, where it would
\* panic: no handler is running or still to come whose payload is not offered
\* yet.  (main.go:226-235, the order docs/architecture.md calls critical;
\* eco_metrics.go:153-159.)
NoSendOnClosed ==
  closed => /\ ~Serving
            /\ \A r \in Requests : req[r] \notin {"handling", "offering"}

\* After a clean exit the books balance: each request that arrived was either
\* left out by the sampler, or dropped, or counted by a worker, or lost to a
\* panic; the counters say how many of each, and none is still pending.
\* (main.go:224-238, eco_metrics.go:100-159, worker.go:218-235.)
Lost == {r \in Requests : req[r] = "lost"}

CleanExitAccounts ==
  main = "exited" =>
    /\ InFlight = {}
    /\ Cardinality({r \in Requests : req[r] # "new"}) =
         samplerDropped + drops + Cardinality(Lost)
           + Cardinality({r \in Requests : observed[r] = 1})

\* However the process ends, the worker has drained its channel: the last step
\* of the shutdown order in docs/architecture.md.
ExitDrained == ~Alive => W!Queued = {} /\ W!InHand = {}

\* A request that has its response is never held up by the worker: in every state
\* its next step, through the select and the drop counter, can be taken at once,
\* whether or not a worker, main or another request moves.  (eco_metrics.go:153-159.)
HotPathNeverBlocks ==
  Alive => \A r \in Requests :
             /\ req[r] = "offering" => ENABLED Offer(r)
             /\ req[r] = "counting" => ENABLED CountDrop(r)

\* With SampleRate 1.0 every request is instrumented (the comment on
\* Options.SampleRate, eco_metrics.go:63-64): once the server is down, each one
\* has been counted by a worker or is a counted drop.
FullRateInstrumentsAll ==
  main = "exited" /\ Rate = 100 =>
    \A r \in Requests : req[r] # "new" => observed[r] = 1 \/ sender[r] = "dropped"
==============================================================================
