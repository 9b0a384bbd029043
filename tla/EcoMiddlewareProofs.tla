------------------------- MODULE EcoMiddlewareProofs -------------------------
(***************************************************************************)
(* Theorems about EcoMiddleware, for any requests, objects, codes, slow    *)
(* handlers and goroutines left behind: the pools lend each object to one  *)
(* request at a time and clean, and what a request reports is its own.     *)
(***************************************************************************)
EXTENDS EcoMiddleware, TLAPS

TraceRecords ==
  [start: Requests \cup {Nobody}, hit: BOOLEAN, sampled: BOOLEAN]
WriterRecords ==
  [under: Requests \cup {Nobody}, status: Statuses, wrote: BOOLEAN]

------------------------------------------------------------------------------
(* The inductive invariant *)

\* A goroutine that its handler left may still have the context.
Reaches(r) == HasTrace(r) \/ (r \in Background /\ pc[r] # "new")

\* Nothing has happened yet.
Fresh == \A r \in Requests :
  pc[r] = "new" => ~marked[r] /\ asked[r] = 0 /\ client[r] = 0

\* The objects of a request exist.
Real == \A r \in Requests :
  /\ Reaches(r) => trace[r] \in Traces
  /\ HasWriter(r) => writer[r] \in Writers

\* PoolsClean, field by field.
CleanTraces == \A t \in tracePool :
  /\ traceObj[t].start = Nobody /\ ~traceObj[t].sampled
  /\ traceObj[t].hit <=> t \in late

CleanWriters == \A w \in writerPool :
  writerObj[w].under = Nobody /\ writerObj[w].status = 0 /\ ~writerObj[w].wrote

\* What the borrowed EcoTrace says until the payload is made.
TraceTells == \A r \in Requests :
  pc[r] \in {"serving", "returned"} =>
    /\ traceObj[trace[r]].start = r
    /\ (traceObj[trace[r]].hit <=> marked[r] \/ trace[r] \in late)

\* What the borrowed wrapper says.
FirstStatus(r) == IF asked[r] = 0 THEN StatusOK ELSE asked[r]

WriterTells == \A r \in Requests :
  HasWriter(r) =>
    /\ writerObj[writer[r]].under = r
    /\ writerObj[writer[r]].status = FirstStatus(r)
    /\ (writerObj[writer[r]].wrote <=> asked[r] # 0)

\* A late mark is remembered as long as the payload is there.
LateHasPayload == \A r \in Requests : r \in late => HasPayload(r)

Lending == Fresh /\ Real /\ ExclusiveOwnership
Objects == CleanTraces /\ CleanWriters /\ TraceTells /\ WriterTells
Reports == LateHasPayload /\ PayloadFaithful /\ ResponseFaithful

IInv == TypeOK /\ Lending /\ Objects /\ Reports

LEMMA Initially == Init => IInv
BY NobodyAssumption, SubsetAssumption
   DEF Init, IInv, TypeOK, Lending, Fresh, Real, Reaches, ExclusiveOwnership, Objects,
       CleanTraces, CleanWriters, TraceTells, WriterTells, Reports, LateHasPayload,
       PayloadFaithful, ResponseFaithful, HasTrace, HasWriter, HasPayload, Places,
       Statuses, ZeroTrace, ZeroWriter, NoPayload

------------------------------------------------------------------------------
(* One lemma per action of a request. *)

LEMMA BeginBypassKeeps ==
  ASSUME IInv, NEW r \in Requests, BeginBypass(r) PROVE IInv'
<1>. USE NobodyAssumption, IdentityAssumption, CodesAssumption, SubsetAssumption
     DEF BeginBypass, Moves, IInv, Lending, Real, Reaches, HasTrace, HasWriter,
         HasPayload
<1>1. TypeOK'
  <2>1. PICK t \in Traces :
          traceObj' = [traceObj EXCEPT ![t] = [@ EXCEPT !.sampled = FALSE]]
    OBVIOUS
  <2>2. traceObj[t] \in TraceRecords
    BY DEF TypeOK, TraceRecords
  <2>3. traceObj \in [Traces -> TraceRecords]
    BY DEF TypeOK, TraceRecords
  <2>4. [traceObj[t] EXCEPT !.sampled = FALSE] \in TraceRecords
    BY ONLY <2>2 DEF TraceRecords
  <2>5. traceObj' \in [Traces -> TraceRecords]
    BY ONLY <2>1, <2>3, <2>4
  <2>. QED BY <2>5 DEF TypeOK, TraceRecords, Places
<1>2. Lending'
  BY DEF TypeOK, Fresh, ExclusiveOwnership, Objects, WriterTells
<1>3. Objects'
  BY DEF TypeOK, Fresh, ExclusiveOwnership, Objects, CleanTraces, CleanWriters,
     TraceTells, WriterTells, FirstStatus, StatusOK, ZeroTrace, ZeroWriter, Reports,
     LateHasPayload
<1>4. Reports'
  BY DEF TypeOK, Fresh, ExclusiveOwnership, Objects, TraceTells, WriterTells,
     FirstStatus, StatusOK, Reports, LateHasPayload, PayloadFaithful, ResponseFaithful
<1>. QED BY <1>1, <1>2, <1>3, <1>4

LEMMA Borrowing ==
  ASSUME NEW r \in Requests, BeginSampled(r),
         traceObj \in [Traces -> TraceRecords], writerObj \in [Writers -> WriterRecords]
  PROVE  /\ traceObj' \in [Traces -> TraceRecords]
         /\ writerObj' \in [Writers -> WriterRecords]
<1>1. PICK t \in Traces, w \in Writers :
        /\ traceObj' = [traceObj EXCEPT ![t].start = r, ![t].sampled = TRUE]
        /\ writerObj' = [writerObj EXCEPT ![w] = Wrapping(w, r)]
  BY DEF BeginSampled
<1>2. \A u \in Traces :
        traceObj'[u] = IF u = t THEN [traceObj[u] EXCEPT !.start = r, !.sampled = TRUE]
                                ELSE traceObj[u]
  BY <1>1
<1>3. \A o \in TraceRecords : [o EXCEPT !.start = r, !.sampled = TRUE] \in TraceRecords
  BY DEF TraceRecords
<1>4. traceObj' \in [Traces -> TraceRecords]
  BY <1>1, <1>2, <1>3
<1>5. \A o \in WriterRecords :
        [o EXCEPT !.under = r, !.status = StatusOK] \in WriterRecords
  BY DEF WriterRecords, Statuses
<1>6. Wrapping(w, r) \in WriterRecords
  BY <1>5 DEF Wrapping
<1>. QED BY <1>1, <1>4, <1>6

LEMMA BeginSampledKeeps ==
  ASSUME IInv, NEW r \in Requests, BeginSampled(r) PROVE IInv'
<1>. USE NobodyAssumption, IdentityAssumption, CodesAssumption, SubsetAssumption
     DEF BeginSampled, Moves, Wrapping, IInv, Lending, Real, Reaches, HasTrace,
         HasWriter, HasPayload
<1>1. TypeOK'
  <2>1. /\ traceObj' \in [Traces -> TraceRecords]
        /\ writerObj' \in [Writers -> WriterRecords]
    BY Borrowing DEF TypeOK, TraceRecords, WriterRecords
  <2>. QED BY <2>1 DEF TypeOK, TraceRecords, WriterRecords, Places
<1>2. Lending'
  BY DEF TypeOK, Fresh, ExclusiveOwnership, Objects, WriterTells
<1>3. Objects'
  BY DEF TypeOK, Fresh, ExclusiveOwnership, Objects, CleanTraces, CleanWriters,
     TraceTells, WriterTells, FirstStatus, StatusOK, ZeroTrace, ZeroWriter, Reports,
     LateHasPayload
<1>4. Reports'
  BY DEF TypeOK, Fresh, ExclusiveOwnership, Objects, TraceTells, WriterTells,
     FirstStatus, StatusOK, Reports, LateHasPayload, PayloadFaithful, ResponseFaithful
<1>. QED BY <1>1, <1>2, <1>3, <1>4

LEMMA Marking ==
  ASSUME NEW r \in Requests, trace[r] \in Traces,
         traceObj \in [Traces -> TraceRecords], SetHit(r)
  PROVE  traceObj' \in [Traces -> TraceRecords]
<1>1. traceObj' = [traceObj EXCEPT ![trace[r]] = [@ EXCEPT !.hit = TRUE]]
  BY DEF SetHit
<1>2. [traceObj[trace[r]] EXCEPT !.hit = TRUE] \in TraceRecords
  BY DEF TraceRecords
<1>. QED BY <1>1, <1>2

LEMMA MarkCacheHitKeeps ==
  ASSUME IInv, NEW r \in Requests, MarkCacheHit(r) PROVE IInv'
<1>. USE NobodyAssumption, IdentityAssumption, CodesAssumption, SubsetAssumption
     DEF MarkCacheHit, InHandler, SetHit, IInv, Lending, Real, Reaches, HasTrace,
         HasWriter, HasPayload
<1>1. TypeOK'
  <2>1. traceObj' \in [Traces -> TraceRecords]
    BY Marking DEF TypeOK, TraceRecords
  <2>. QED BY <2>1 DEF TypeOK, TraceRecords
<1>2. Lending'
  BY DEF TypeOK, Fresh, ExclusiveOwnership, Objects, WriterTells
<1>3. Objects'
  BY DEF TypeOK, Fresh, ExclusiveOwnership, Objects, CleanTraces, CleanWriters,
     TraceTells, WriterTells, FirstStatus, StatusOK, ZeroTrace, ZeroWriter, Reports,
     LateHasPayload
<1>4. Reports'
  BY DEF TypeOK, Fresh, ExclusiveOwnership, Objects, TraceTells, WriterTells,
     FirstStatus, StatusOK, Reports, LateHasPayload, PayloadFaithful, ResponseFaithful
<1>. QED BY <1>1, <1>2, <1>3, <1>4

LEMMA LateMarkCacheHitKeeps ==
  ASSUME IInv, NEW r \in Requests, LateMarkCacheHit(r) PROVE IInv'
<1>. USE NobodyAssumption, IdentityAssumption, CodesAssumption, SubsetAssumption
     DEF LateMarkCacheHit, SetHit, IInv, Lending, Real, Reaches, HasTrace, HasWriter,
         HasPayload
<1>1. TypeOK'
  <2>1. traceObj' \in [Traces -> TraceRecords]
    BY Marking DEF TypeOK, TraceRecords
  <2>. QED BY <2>1 DEF TypeOK, TraceRecords
<1>2. Lending'
  BY DEF TypeOK, Fresh, ExclusiveOwnership, Objects, WriterTells
<1>3. Objects'
  BY DEF TypeOK, Fresh, ExclusiveOwnership, Objects, CleanTraces, CleanWriters,
     TraceTells, WriterTells, FirstStatus, StatusOK, ZeroTrace, ZeroWriter, Reports,
     LateHasPayload
<1>4. Reports'
  BY DEF TypeOK, Fresh, ExclusiveOwnership, Objects, TraceTells, WriterTells,
     FirstStatus, StatusOK, Reports, LateHasPayload, PayloadFaithful, ResponseFaithful
<1>. QED BY <1>1, <1>2, <1>3, <1>4

LEMMA HandlerWritesKeeps ==
  ASSUME IInv, NEW r \in Requests, HandlerWrites(r) PROVE IInv'
<1>. USE NobodyAssumption, IdentityAssumption, CodesAssumption, SubsetAssumption
     DEF HandlerWrites, WriteStatus, AskFor, ToClient, IInv, Lending, Real, Reaches,
         HasTrace, HasWriter, HasPayload
<1>1. TypeOK'
  BY DEF TypeOK, Places, Statuses, StatusOK, GatewayTimeout, ZeroTrace, ZeroWriter
<1>2. Lending'
  BY DEF TypeOK, Fresh, ExclusiveOwnership, Objects, WriterTells
<1>3. Objects'
  BY DEF TypeOK, Fresh, ExclusiveOwnership, Objects, CleanTraces, CleanWriters,
     TraceTells, WriterTells, FirstStatus, StatusOK, ZeroTrace, ZeroWriter, Reports,
     LateHasPayload
<1>4. Reports'
  BY DEF TypeOK, Fresh, ExclusiveOwnership, Objects, TraceTells, WriterTells,
     FirstStatus, StatusOK, Reports, LateHasPayload, PayloadFaithful, ResponseFaithful
<1>. QED BY <1>1, <1>2, <1>3, <1>4

LEMMA HandlerPanicsKeeps ==
  ASSUME IInv, NEW r \in Requests, HandlerPanics(r) PROVE IInv'
<1>. USE NobodyAssumption, IdentityAssumption, CodesAssumption, SubsetAssumption
     DEF HandlerPanics, InHandler, Forget, objVars, IInv, Lending, Real, Reaches,
         HasTrace, HasWriter, HasPayload
<1>1. TypeOK'
  BY DEF TypeOK, Places, Statuses, StatusOK, GatewayTimeout, ZeroTrace, ZeroWriter
<1>2. Lending'
  BY DEF TypeOK, Fresh, ExclusiveOwnership, Objects, WriterTells
<1>3. Objects'
  BY DEF TypeOK, Fresh, ExclusiveOwnership, Objects, CleanTraces, CleanWriters,
     TraceTells, WriterTells, FirstStatus, StatusOK, ZeroTrace, ZeroWriter, Reports,
     LateHasPayload
<1>4. Reports'
  BY DEF TypeOK, Fresh, ExclusiveOwnership, Objects, TraceTells, WriterTells,
     FirstStatus, StatusOK, Reports, LateHasPayload, PayloadFaithful, ResponseFaithful
<1>. QED BY <1>1, <1>2, <1>3, <1>4

LEMMA HandlerReturnsKeeps ==
  ASSUME IInv, NEW r \in Requests, HandlerReturns(r) PROVE IInv'
<1>. USE NobodyAssumption, IdentityAssumption, CodesAssumption, SubsetAssumption
     DEF HandlerReturns, Moves, objVars, IInv, Lending, Real, Reaches, HasTrace,
         HasWriter, HasPayload
<1>1. TypeOK'
  BY DEF TypeOK, Places, Statuses, StatusOK, GatewayTimeout, ZeroTrace, ZeroWriter
<1>2. Lending'
  BY DEF TypeOK, Fresh, ExclusiveOwnership, Objects, WriterTells
<1>3. Objects'
  BY DEF TypeOK, Fresh, ExclusiveOwnership, Objects, CleanTraces, CleanWriters,
     TraceTells, WriterTells, FirstStatus, StatusOK, ZeroTrace, ZeroWriter, Reports,
     LateHasPayload
<1>4. Reports'
  BY DEF TypeOK, Fresh, ExclusiveOwnership, Objects, TraceTells, WriterTells,
     FirstStatus, StatusOK, Reports, LateHasPayload, PayloadFaithful, ResponseFaithful
<1>. QED BY <1>1, <1>2, <1>3, <1>4

LEMMA CaptureKeeps ==
  ASSUME IInv, NEW r \in Requests, Capture(r) PROVE IInv'
<1>. USE NobodyAssumption, IdentityAssumption, CodesAssumption, SubsetAssumption
     DEF Capture, Moves, objVars, IInv, Lending, Real, Reaches, HasTrace, HasWriter,
         HasPayload
<1>1. TypeOK'
  BY DEF TypeOK, Places, Statuses, StatusOK, GatewayTimeout, ZeroTrace, ZeroWriter
<1>2. Lending'
  BY DEF TypeOK, Fresh, ExclusiveOwnership, Objects, WriterTells
<1>3. Objects'
  BY DEF TypeOK, Fresh, ExclusiveOwnership, Objects, CleanTraces, CleanWriters,
     TraceTells, WriterTells, FirstStatus, StatusOK, ZeroTrace, ZeroWriter, Reports,
     LateHasPayload
<1>4. Reports'
  BY DEF TypeOK, Fresh, ExclusiveOwnership, Objects, TraceTells, WriterTells,
     FirstStatus, StatusOK, Reports, LateHasPayload, PayloadFaithful, ResponseFaithful
<1>. QED BY <1>1, <1>2, <1>3, <1>4

LEMMA ReleaseTraceKeeps ==
  ASSUME IInv, NEW r \in Requests, ReleaseTrace(r) PROVE IInv'
<1>. USE NobodyAssumption, IdentityAssumption, CodesAssumption, SubsetAssumption
     DEF ReleaseTrace, Moves, PutTrace, ResetTrace, IInv, Lending, Real, Reaches,
         HasTrace, HasWriter, HasPayload
<1>1. TypeOK'
  BY DEF TypeOK, Places, Statuses, StatusOK, GatewayTimeout, ZeroTrace, ZeroWriter
<1>2. Lending'
  BY DEF TypeOK, Fresh, ExclusiveOwnership, Objects, WriterTells
<1>3. Objects'
  BY DEF TypeOK, Fresh, ExclusiveOwnership, Objects, CleanTraces, CleanWriters,
     TraceTells, WriterTells, FirstStatus, StatusOK, ZeroTrace, ZeroWriter, Reports,
     LateHasPayload
<1>4. Reports'
  BY DEF TypeOK, Fresh, ExclusiveOwnership, Objects, TraceTells, WriterTells,
     FirstStatus, StatusOK, Reports, LateHasPayload, PayloadFaithful, ResponseFaithful
<1>. QED BY <1>1, <1>2, <1>3, <1>4

LEMMA EndBypassKeeps ==
  ASSUME IInv, NEW r \in Requests, EndBypass(r) PROVE IInv'
<1>. USE NobodyAssumption, IdentityAssumption, CodesAssumption, SubsetAssumption
     DEF EndBypass, Moves, PutTrace, ResetTrace, Forget, IInv, Lending, Real, Reaches,
         HasTrace, HasWriter, HasPayload
<1>1. TypeOK'
  BY DEF TypeOK, Places, Statuses, StatusOK, GatewayTimeout, ZeroTrace, ZeroWriter
<1>2. Lending'
  BY DEF TypeOK, Fresh, ExclusiveOwnership, Objects, WriterTells
<1>3. Objects'
  BY DEF TypeOK, Fresh, ExclusiveOwnership, Objects, CleanTraces, CleanWriters,
     TraceTells, WriterTells, FirstStatus, StatusOK, ZeroTrace, ZeroWriter, Reports,
     LateHasPayload
<1>4. Reports'
  BY DEF TypeOK, Fresh, ExclusiveOwnership, Objects, TraceTells, WriterTells,
     FirstStatus, StatusOK, Reports, LateHasPayload, PayloadFaithful, ResponseFaithful
<1>. QED BY <1>1, <1>2, <1>3, <1>4

LEMMA ReleaseWriterKeeps ==
  ASSUME IInv, NEW r \in Requests, ReleaseWriter(r) PROVE IInv'
<1>. USE NobodyAssumption, IdentityAssumption, CodesAssumption, SubsetAssumption
     DEF ReleaseWriter, Moves, ResetWriter, IInv, Lending, Real, Reaches, HasTrace,
         HasWriter, HasPayload
<1>1. TypeOK'
  BY DEF TypeOK, Places, Statuses, StatusOK, GatewayTimeout, ZeroTrace, ZeroWriter
<1>2. Lending'
  BY DEF TypeOK, Fresh, ExclusiveOwnership, Objects, WriterTells
<1>3. Objects'
  BY DEF TypeOK, Fresh, ExclusiveOwnership, Objects, CleanTraces, CleanWriters,
     TraceTells, WriterTells, FirstStatus, StatusOK, ZeroTrace, ZeroWriter, Reports,
     LateHasPayload
<1>4. Reports'
  BY DEF TypeOK, Fresh, ExclusiveOwnership, Objects, TraceTells, WriterTells,
     FirstStatus, StatusOK, Reports, LateHasPayload, PayloadFaithful, ResponseFaithful
<1>. QED BY <1>1, <1>2, <1>3, <1>4

LEMMA OfferAndEndKeeps ==
  ASSUME IInv, NEW r \in Requests, OfferAndEnd(r) PROVE IInv'
<1>. USE NobodyAssumption, IdentityAssumption, CodesAssumption, SubsetAssumption
     DEF OfferAndEnd, Moves, ToClient, Forget, objVars, IInv, Lending, Real, Reaches,
         HasTrace, HasWriter, HasPayload
<1>1. TypeOK'
  BY DEF TypeOK, Places, Statuses, StatusOK, GatewayTimeout, ZeroTrace, ZeroWriter
<1>2. Lending'
  BY DEF TypeOK, Fresh, ExclusiveOwnership, Objects, WriterTells
<1>3. Objects'
  BY DEF TypeOK, Fresh, ExclusiveOwnership, Objects, CleanTraces, CleanWriters,
     TraceTells, WriterTells, FirstStatus, StatusOK, ZeroTrace, ZeroWriter, Reports,
     LateHasPayload
<1>4. Reports'
  BY DEF TypeOK, Fresh, ExclusiveOwnership, Objects, TraceTells, WriterTells,
     FirstStatus, StatusOK, Reports, LateHasPayload, PayloadFaithful, ResponseFaithful
<1>. QED BY <1>1, <1>2, <1>3, <1>4

LEMMA Inductive == IInv /\ [Next]_vars => IInv'
<1>. SUFFICES ASSUME IInv, [Next]_vars PROVE IInv'
  OBVIOUS
<1>1. ASSUME NEW r \in Requests, Request(r) PROVE IInv'
  BY <1>1, BeginBypassKeeps, BeginSampledKeeps, MarkCacheHitKeeps, HandlerWritesKeeps,
     LateMarkCacheHitKeeps, HandlerPanicsKeeps, HandlerReturnsKeeps, CaptureKeeps,
     ReleaseTraceKeeps, EndBypassKeeps, ReleaseWriterKeeps, OfferAndEndKeeps
     DEF Request
\* A smaller pool: the objects that are left are as clean as they were.
<1>2. CASE Collect
  BY <1>2 DEF Collect, IInv, TypeOK, Lending, Fresh, Real, Reaches, ExclusiveOwnership,
     Objects, CleanTraces, CleanWriters, TraceTells, WriterTells, FirstStatus, Reports,
     LateHasPayload, PayloadFaithful, ResponseFaithful, HasTrace, HasWriter, HasPayload
<1>3. CASE AllEnded \/ UNCHANGED vars
  BY <1>3 DEF AllEnded, vars, objVars, IInv, TypeOK, Lending, Fresh, Real, Reaches,
     ExclusiveOwnership, Objects, CleanTraces, CleanWriters, TraceTells, WriterTells,
     FirstStatus, Reports, LateHasPayload, PayloadFaithful, ResponseFaithful, HasTrace,
     HasWriter, HasPayload
<1>. QED BY <1>1, <1>2, <1>3 DEF Next

THEOREM Invariance == Spec => []IInv
BY Initially, Inductive, PTL DEF Spec

------------------------------------------------------------------------------
(* What follows *)

\* Every object, place and status stays of its type.
THEOREM TypeCorrectness == Spec => []TypeOK
<1>1. IInv => TypeOK
  BY DEF IInv
<1>. QED BY <1>1, Invariance, PTL

\* No object is lent twice, however many requests there are and however their
\* steps interleave.
THEOREM LentOnce == Spec => []ExclusiveOwnership
<1>1. IInv => ExclusiveOwnership
  BY DEF IInv, Lending
<1>. QED BY <1>1, Invariance, PTL

\* What a Get returns is clean, but for a late mark.
THEOREM GetsCleanObjects == Spec => []PoolsClean
<1>1. IInv => PoolsClean
  <2>. SUFFICES ASSUME IInv PROVE PoolsClean
    OBVIOUS
  <2>1. ASSUME NEW t \in tracePool
        PROVE  traceObj[t] = IF t \in late THEN MarkedTrace ELSE ZeroTrace
    <3>1. traceObj[t] \in TraceRecords
      BY DEF IInv, TypeOK, TraceRecords
    <3>. QED BY <3>1 DEF IInv, Objects, CleanTraces, TraceRecords, MarkedTrace, ZeroTrace
  <2>2. ASSUME NEW w \in writerPool PROVE writerObj[w] = ZeroWriter
    <3>1. writerObj[w] \in WriterRecords
      BY DEF IInv, TypeOK, WriterRecords
    <3>. QED BY <3>1 DEF IInv, Objects, CleanWriters, WriterRecords, ZeroWriter
  <2>. QED BY <2>1, <2>2 DEF PoolsClean
<1>. QED BY <1>1, Invariance, PTL

\* A payload reports its own request, and the client gets its own handler's
\* status, whatever objects were used and by whom before.
THEOREM ReportsAreOwn == Spec => [](PayloadFaithful /\ ResponseFaithful)
<1>1. IInv => PayloadFaithful /\ ResponseFaithful
  BY DEF IInv, Reports
<1>. QED BY <1>1, Invariance, PTL

------------------------------------------------------------------------------
(* The status a request is counted under *)

\* CountedStatusIsClients holds of every request whose handler is within chi's
\* Timeout: the 504 that nobody sees in the counts is the only difference.
PromptStatusIsClients ==
  \A r \in Requests \ SlowRequests :
    pc[r] = "ended" /\ payload[r] # NoPayload => payload[r].status = client[r]

\* Only Capture makes a payload, and it is not touched again.
NoneYet == \A r \in Requests :
  ~HasPayload(r) /\ pc[r] # "ended" => payload[r] = NoPayload

LEMMA PromptInitially == Init => NoneYet /\ PromptStatusIsClients
BY DEF Init, NoneYet, PromptStatusIsClients, HasPayload

LEMMA PayloadsStay ==
  ASSUME TypeOK, NoneYet, NEW r \in Requests, Request(r), ~OfferAndEnd(r)
  PROVE  /\ NoneYet'
         /\ \A q \in Requests : pc'[q] = "ended" /\ payload'[q] # NoPayload =>
              pc[q] = "ended" /\ payload'[q] = payload[q]
<1>. USE DEF TypeOK, NoneYet, HasPayload, Moves
<1>1. CASE Capture(r)
  BY <1>1 DEF Capture
<1>2. CASE BeginBypass(r) \/ BeginSampled(r)
  BY <1>2 DEF BeginBypass, BeginSampled
<1>3. CASE MarkCacheHit(r) \/ HandlerWrites(r) \/ LateMarkCacheHit(r)
  BY <1>3 DEF MarkCacheHit, HandlerWrites, WriteStatus, AskFor, LateMarkCacheHit
<1>4. CASE HandlerPanics(r)
  BY <1>4 DEF HandlerPanics, InHandler
<1>5. CASE HandlerReturns(r)
  BY <1>5 DEF HandlerReturns
<1>6. CASE ReleaseTrace(r) \/ ReleaseWriter(r)
  BY <1>6 DEF ReleaseTrace, ReleaseWriter
<1>7. CASE EndBypass(r)
  BY <1>7 DEF EndBypass
<1>. QED BY <1>1, <1>2, <1>3, <1>4, <1>5, <1>6, <1>7 DEF Request

\* A response that is over is not written to: the wrapper that could is lent to
\* a request of its own.
LEMMA ClientsStay ==
  ASSUME IInv, NEW r \in Requests, Request(r), ~OfferAndEnd(r)
  PROVE  \A q \in Requests : pc[q] = "ended" => client'[q] = client[q]
<1>1. CASE HandlerWrites(r)
  <2>1. pc[r] = "serving"
    BY <1>1 DEF HandlerWrites, WriteStatus, AskFor
  <2>2. writerObj[writer[r]].under = r
    BY <2>1 DEF IInv, Objects, WriterTells, HasWriter
  <2>3. PICK c \in Codes \cup {StatusOK} : WriteStatus(r, c)
    BY <1>1 DEF HandlerWrites
  <2>4. client' = client \/ ToClient(r, c)
    BY <2>2, <2>3 DEF WriteStatus
  <2>. QED BY <2>1, <2>4 DEF ToClient, IInv, TypeOK
<1>2. CASE UNCHANGED client
  BY <1>2
<1>. QED BY <1>1, <1>2 DEF Request, BeginBypass, BeginSampled, MarkCacheHit,
       LateMarkCacheHit, HandlerPanics, HandlerReturns, Capture, ReleaseTrace, EndBypass,
       ReleaseWriter

LEMMA PromptNext ==
  IInv /\ NoneYet /\ PromptStatusIsClients /\ [Next]_vars
    => NoneYet' /\ PromptStatusIsClients'
<1>. SUFFICES ASSUME IInv, NoneYet, PromptStatusIsClients, [Next]_vars
              PROVE  NoneYet' /\ PromptStatusIsClients'
  OBVIOUS
<1>1. ASSUME NEW r \in Requests, Request(r), ~OfferAndEnd(r)
      PROVE  NoneYet' /\ PromptStatusIsClients'
  BY <1>1, PayloadsStay, ClientsStay DEF IInv, PromptStatusIsClients
<1>2. ASSUME NEW r \in Requests, OfferAndEnd(r)
      PROVE  NoneYet' /\ PromptStatusIsClients'
  <2>1. /\ pc[r] = "offering" /\ pc' = [pc EXCEPT ![r] = "ended"] /\ payload' = payload
        /\ pc \in [Requests -> Places] /\ client \in [Requests -> Statuses]
    BY <1>2 DEF OfferAndEnd, Moves, IInv, TypeOK
  <2>2. payload[r].status = FirstStatus(r) /\ client[r] = asked[r]
    BY <2>1 DEF IInv, Reports, PayloadFaithful, ResponseFaithful, HasPayload, FirstStatus
  <2>3. \A q \in Requests : q # r => client'[q] = client[q]
    BY <1>2, <2>1 DEF OfferAndEnd, ToClient
  <2>4. r \notin SlowRequests => payload[r].status = client'[r]
    BY <1>2, <2>1, <2>2 DEF OfferAndEnd, ToClient, FirstStatus
  <2>5. NoneYet'
    BY <2>1 DEF NoneYet, HasPayload
  <2>6. PromptStatusIsClients'
    BY <2>1, <2>3, <2>4 DEF PromptStatusIsClients
  <2>. QED BY <2>5, <2>6
<1>3. CASE Collect \/ AllEnded \/ UNCHANGED vars
  BY <1>3 DEF Collect, AllEnded, vars, NoneYet, PromptStatusIsClients, HasPayload
<1>. QED BY <1>1, <1>2, <1>3 DEF Next

\* Within the Timeout, a request is counted under the status its client got.
THEOREM PromptIsCountedRight == Spec => []PromptStatusIsClients
BY PromptInitially, PromptNext, Invariance, PTL DEF Spec
==============================================================================
