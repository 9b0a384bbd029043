---------------------------- MODULE EcoMiddleware ----------------------------
(***************************************************************************)
(* pkg/middleware: one request through EcoMetrics, with the two sync.Pools *)
(* (EcoTrace, responseWriter) it borrows from, the wrapper that sees the   *)
(* handler's status and the payload made of them.  How the payload then    *)
(* reaches a worker is EcoWorker's business.                               *)
(*                                                                         *)
(* Objects have identities, so that one which is used after it was given   *)
(* back shows.  A time or an allocation counter read at the start of a     *)
(* request is the request it was read for.  External: sync.Pool, the       *)
(* handlers, net/http's own ResponseWriter (the first status wins) and     *)
(* chi's Timeout, which wraps EcoMetrics in main.go.                       *)
(***************************************************************************)
EXTENDS Integers, FiniteSets

CONSTANTS
  Requests,
  Traces,        \* identities of EcoTrace objects
  Writers,       \* identities of responseWriter objects
  Nobody,        \* nil, or the zero time: no request, no object
  Codes,         \* status codes a handler may choose
  SlowRequests,  \* requests whose handlers may outlive the 30 s of chi's Timeout
  Background     \* requests whose handlers leave a goroutine with the context

StatusOK       == 200
GatewayTimeout == 504

ASSUME CodesAssumption == Codes \subseteq 200..599
ASSUME NobodyAssumption == Nobody \notin Requests \cup Traces \cup Writers
ASSUME IdentityAssumption == Requests \cap Traces = {}
ASSUME SubsetAssumption == SlowRequests \subseteq Requests /\ Background \subseteq Requests

VARIABLES
  pc,            \* per request: its place in EcoMetrics
  trace,         \* per request: the EcoTrace of its context
  writer,        \* per request: its responseWriter
  traceObj,      \* per EcoTrace: its fields
  writerObj,     \* per responseWriter: its fields
  tracePool,     \* the EcoTraces in ecoTracePool, and those New has yet to make
  writerPool,    \* the same of responseWriterPool
  payload,       \* per request: its TracePayload
  client,        \* per request: the status its client is sent, 0 until then
  asked,         \* per request: the first status its handler asked for (history)
  marked,        \* per request: its handler called MarkCacheHit (history)
  late           \* history of late marks: the EcoTraces one has reached since
                 \* their last reset, and the requests whose payloads it reached

objVars == <<traceObj, writerObj, tracePool, writerPool>>
vars == <<pc, trace, writer, objVars, payload, client, asked, marked, late>>

------------------------------------------------------------------------------
ZeroTrace  == [start |-> Nobody, hit |-> FALSE, sampled |-> FALSE]
ZeroWriter == [under |-> Nobody, status |-> 0, wrote |-> FALSE]
NoPayload  == [start |-> Nobody, hit |-> FALSE, status |-> 0]

Statuses == Codes \cup {0, StatusOK, GatewayTimeout}

\* "captured": the payload is made; "half": the trace is back in its pool,
\* the writer is not; "offering": at the select.
Places == {"new", "bypass", "bypassed", "serving", "returned", "captured", "half",
           "offering", "ended", "panicked"}

TypeOK ==
  /\ pc \in [Requests -> Places]
  /\ trace \in [Requests -> Traces \cup {Nobody}]
  /\ writer \in [Requests -> Writers \cup {Nobody}]
  /\ traceObj \in [Traces -> [start: Requests \cup {Nobody}, hit: BOOLEAN, sampled: BOOLEAN]]
  /\ writerObj \in [Writers -> [under: Requests \cup {Nobody}, status: Statuses, wrote: BOOLEAN]]
  /\ tracePool \subseteq Traces
  /\ writerPool \subseteq Writers
  /\ payload \in [Requests -> [start: Requests \cup {Nobody}, hit: BOOLEAN, status: Statuses]]
  /\ client \in [Requests -> Statuses]
  /\ asked \in [Requests -> Statuses]
  /\ marked \in [Requests -> BOOLEAN]
  /\ late \subseteq Traces \cup Requests

Init ==
  /\ pc = [r \in Requests |-> "new"]
  /\ trace = [r \in Requests |-> Nobody]
  /\ writer = [r \in Requests |-> Nobody]
  /\ traceObj = [t \in Traces |-> ZeroTrace]
  /\ writerObj = [w \in Writers |-> ZeroWriter]
  /\ tracePool = Traces
  /\ writerPool = Writers
  /\ payload = [r \in Requests |-> NoPayload]
  /\ client = [r \in Requests |-> 0]
  /\ asked = [r \in Requests |-> 0]
  /\ marked = [r \in Requests |-> FALSE]
  /\ late = {}

Moves(r, from, to) == pc[r] = from /\ pc' = [pc EXCEPT ![r] = to]

\* The locals of a request that is over are gone, and so is what the history has
\* of it; a goroutine that its handler left keeps the context.
Forget(r) ==
  /\ trace'  = IF r \in Background THEN trace ELSE [trace EXCEPT ![r] = Nobody]
  /\ writer' = [writer EXCEPT ![r] = Nobody]
  /\ asked'  = [asked EXCEPT ![r] = 0]
  /\ marked' = [marked EXCEPT ![r] = FALSE]

------------------------------------------------------------------------------
\* acquireEcoTrace and acquireResponseWriter: Get takes an object from its pool
\* or has New make one, whether the pool is empty or not (the per-P caches hide
\* objects from one another).  As long as PoolsClean holds, and no goroutine has
\* kept it, a pooled object is as good as one that New makes.

\* The fast path: the trace is acquired so that the context holds one.
BeginBypass(r) == \E t \in Traces :
  /\ Moves(r, "new", "bypass")
  /\ t \in tracePool
  /\ tracePool' = tracePool \ {t}
  /\ trace' = [trace EXCEPT ![r] = t]
  /\ traceObj' = [traceObj EXCEPT ![t].sampled = FALSE]
  /\ UNCHANGED <<writer, writerObj, writerPool, payload, client, asked, marked, late>>

WrappingItself(w, r) == [writerObj[w] EXCEPT !.under = w, !.status = StatusOK]  \* mutant
Wrapping(w, r) == [writerObj[w] EXCEPT !.under = r, !.status = StatusOK]

BeginSampled(r) == \E t \in Traces, w \in Writers :
  /\ Moves(r, "new", "serving")
  /\ t \in tracePool /\ w \in writerPool
  /\ tracePool' = tracePool \ {t}
  /\ writerPool' = writerPool \ {w}
  /\ trace' = [trace EXCEPT ![r] = t]
  /\ writer' = [writer EXCEPT ![r] = w]
  /\ traceObj' = [traceObj EXCEPT ![t].start = r, ![t].sampled = TRUE]
  /\ writerObj' = [writerObj EXCEPT ![w] = Wrapping(w, r)]
  /\ UNCHANGED <<payload, client, asked, marked, late>>

------------------------------------------------------------------------------
\* What a handler does with the context and the writer it was given.

InHandler(r) == pc[r] \in {"serving", "bypass"}

\* MarkCacheHit(ctx); it does not look at sampled.
SetHit(r) == traceObj' = [traceObj EXCEPT ![trace[r]].hit = TRUE]

MarkCacheHit(r) ==
  /\ InHandler(r)
  /\ SetHit(r)
  /\ marked' = [marked EXCEPT ![r] = TRUE]
  /\ UNCHANGED <<pc, trace, writer, writerObj, tracePool, writerPool,
                 payload, client, asked, late>>

\* The same call from a goroutine that outlives ServeHTTP.
LateMarkCacheHit(r) ==
  /\ r \in Background
  /\ pc[r] \notin {"new", "serving", "bypass"}
  /\ SetHit(r)
  /\ late' = late \cup {trace[r]}
  /\ UNCHANGED <<pc, trace, writer, writerObj, tracePool, writerPool,
                 payload, client, asked, marked>>

\* The first status net/http is given for a response is the one it sends.
ToClient(u, c) == client' = [client EXCEPT ![u] = IF @ = 0 THEN c ELSE @]

\* responseWriter.WriteHeader and Write: a Write before any WriteHeader is a
\* WriteHeader(200); what follows the first status leaves the wrapper as it is.
AskFor(r, c) ==
  /\ pc[r] = "serving"
  /\ asked' = [asked EXCEPT ![r] = IF @ = 0 THEN c ELSE @]
  /\ UNCHANGED <<pc, trace, writer, traceObj, tracePool, writerPool,
                 payload, marked, late>>

\* Mutant: WriteHeader without its wroteHeader guard.
WriteStatusUnguarded(r, c) ==
  LET w == writer[r] IN
  /\ AskFor(r, c)
  /\ writerObj' = [writerObj EXCEPT ![w].status = c, ![w].wrote = TRUE]
  /\ ToClient(writerObj[w].under, c)

WriteStatus(r, c) ==
  LET w == writer[r] IN
  /\ AskFor(r, c)
  /\ IF writerObj[w].wrote
       THEN UNCHANGED <<writerObj, client>>
       ELSE /\ writerObj' = [writerObj EXCEPT ![w].status = c, ![w].wrote = TRUE]
            /\ ToClient(writerObj[w].under, c)

HandlerWrites(r) == \E c \in Codes \cup {StatusOK} : WriteStatus(r, c)

\* Nothing after next.ServeHTTP runs: the objects are left to the collector.
HandlerPanics(r) ==
  /\ InHandler(r)
  /\ pc' = [pc EXCEPT ![r] = "panicked"]
  /\ Forget(r)
  /\ UNCHANGED <<objVars, payload, client, late>>

HandlerReturns(r) ==
  /\ \/ Moves(r, "serving", "returned")
     \/ Moves(r, "bypass", "bypassed")
  /\ UNCHANGED <<trace, writer, objVars, payload, client, asked, marked, late>>

------------------------------------------------------------------------------
\* After next.ServeHTTP: copy, give back, offer, in this order.

Capture(r) ==
  /\ Moves(r, "returned", "captured")
  /\ payload' = [payload EXCEPT ![r] =
       [start  |-> traceObj[trace[r]].start,
        hit    |-> traceObj[trace[r]].hit,
        status |-> writerObj[writer[r]].status]]
  /\ late' = late \cup (IF trace[r] \in late THEN {r} ELSE {})
  /\ UNCHANGED <<trace, writer, objVars, client, asked, marked>>

\* releaseEcoTrace: reset, then Put.
ResetTraceKeepsHit(t) == [ZeroTrace EXCEPT !.hit = traceObj[t].hit]     \* mutant
ResetTrace(t) == ZeroTrace

PutTrace(r) ==
  /\ traceObj' = [traceObj EXCEPT ![trace[r]] = ResetTrace(trace[r])]
  /\ tracePool' = tracePool \cup {trace[r]}

\* Mutant: the trace goes back while the payload is still to be made.
ReleaseTraceEarly(r) ==
  /\ Moves(r, "returned", "returned") \/ Moves(r, "captured", "half")
  /\ PutTrace(r)
  /\ late' = late \ {trace[r]}
  /\ UNCHANGED <<trace, writer, writerObj, writerPool, payload, client, asked,
                 marked>>

ReleaseTrace(r) ==
  /\ Moves(r, "captured", "half")
  /\ PutTrace(r)
  /\ late' = late \ {trace[r]}
  /\ UNCHANGED <<trace, writer, writerObj, writerPool, payload, client, asked,
                 marked>>

EndBypass(r) ==
  /\ Moves(r, "bypassed", "ended")
  /\ PutTrace(r)
  /\ late' = late \ {trace[r]}
  /\ Forget(r)
  /\ UNCHANGED <<writerObj, writerPool, payload, client>>

\* releaseResponseWriter: reset, then Put.  The status becomes 0, not 200.
ResetWriterPartly(w) == [writerObj[w] EXCEPT !.status = 0]              \* mutant
ResetWriter(w) == ZeroWriter

ReleaseWriter(r) ==
  /\ Moves(r, "half", "offering")
  /\ writerObj' = [writerObj EXCEPT ![writer[r]] = ResetWriter(writer[r])]
  /\ writerPool' = writerPool \cup {writer[r]}
  /\ UNCHANGED <<trace, writer, traceObj, tracePool, payload, client, asked,
                 marked, late>>

\* The select (sent or dropped); then the middleware around EcoMetrics and
\* net/http finish a response that has no status yet: 504 from chi's Timeout
\* when its deadline has passed, else 200.
OfferAndEnd(r) ==
  /\ Moves(r, "offering", "ended")
  /\ \/ ToClient(r, StatusOK)
     \/ r \in SlowRequests /\ ToClient(r, GatewayTimeout)
  /\ late' = late \ {r}
  /\ Forget(r)
  /\ UNCHANGED <<objVars, payload>>

Request(r) ==
  \/ BeginBypass(r) \/ BeginSampled(r)
  \/ MarkCacheHit(r) \/ HandlerWrites(r) \/ LateMarkCacheHit(r)
  \/ HandlerPanics(r) \/ HandlerReturns(r)
  \/ Capture(r) \/ ReleaseTrace(r) \/ EndBypass(r) \/ ReleaseWriter(r) \/ OfferAndEnd(r)

------------------------------------------------------------------------------
\* The garbage collector empties pools as it likes.  An object it takes is lost
\* to the pool; that makes a difference if a goroutine still has it.
Collect == \E r \in Background :
  /\ trace[r] \in tracePool
  /\ tracePool' = tracePool \ {trace[r]}
  /\ UNCHANGED <<pc, trace, writer, traceObj, writerObj, writerPool, payload, client,
                 asked, marked, late>>

AllEnded == (\A r \in Requests : pc[r] \in {"ended", "panicked"}) /\ UNCHANGED vars

Next == (\E r \in Requests : Request(r)) \/ Collect \/ AllEnded

Spec == Init /\ [][Next]_vars

------------------------------------------------------------------------------
(* Properties *)

HasTrace(r)  == pc[r] \in {"serving", "bypass", "bypassed", "returned", "captured"}
HasWriter(r) == pc[r] \in {"serving", "returned", "captured", "half"}

\* No pooled object is reachable from a request that still uses it, and no two
\* such requests use one object.  (acquire and release, pool.go:33-73.)
ExclusiveOwnership ==
  \A r \in Requests :
    /\ HasTrace(r) =>
         /\ trace[r] \notin tracePool
         /\ \A q \in Requests : HasTrace(q) /\ trace[q] = trace[r] => q = r
    /\ HasWriter(r) =>
         /\ writer[r] \notin writerPool
         /\ \A q \in Requests : HasWriter(q) /\ writer[q] = writer[r] => q = r

MarkedTrace == [start |-> Nobody, hit |-> TRUE, sampled |-> FALSE]

\* "The acquirer receives a guaranteed-clean object" (docs/architecture.md,
\* pool.go:18-24): whatever an earlier request did, nothing of it is left in an
\* object that a Get can return, but for the hit of a goroutine that marked it
\* after it was given back.
PoolsClean ==
  /\ \A t \in tracePool  : traceObj[t] = IF t \in late THEN MarkedTrace ELSE ZeroTrace
  /\ \A w \in writerPool : writerObj[w] = ZeroWriter

\* The payload tells of its own request only: its start, the first status its
\* handler asked for (200 if none), and a hit exactly when its handler marked
\* one or a late mark reached its EcoTrace: a late MarkCacheHit, of this request
\* or of another that had the object before, makes a hit of a miss at worst.
\* (eco_metrics.go:117-147 and 44-48, with the objects of pool.go.)
HasPayload(r) == pc[r] \in {"captured", "half", "offering"}

PayloadFaithful ==
  \A r \in Requests :
    HasPayload(r) =>
      /\ payload[r].start = r
      /\ payload[r].hit = (marked[r] \/ r \in late)
      /\ payload[r].status = IF asked[r] = 0 THEN StatusOK ELSE asked[r]

\* A pooled wrapper never leads one handler's status to another one's client:
\* what a client is sent is what its own handler asked for first.
\* (responseWriter, eco_metrics.go:186-205, pool.go:64-73.)
ResponseFaithful ==
  \A r \in Requests : pc[r] \in {"serving", "returned", "captured", "half",
                                 "offering"} => client[r] = asked[r]

\* The status a request is counted under (README, "by method / path / status")
\* is the one its client got.
CountedStatusIsClients ==
  \A r \in Requests :
    pc[r] = "ended" /\ payload[r] # NoPayload => payload[r].status = client[r]
==============================================================================
