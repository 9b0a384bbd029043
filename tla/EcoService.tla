----------------------------- MODULE EcoService -----------------------------
(***************************************************************************)
(* GET /eco/cache: JWTAuth, EcoHandler.GetCacheMetrics,                    *)
(* EcoService.CacheMetrics, over the two caches (internal/cache) and the   *)
(* repository.  EcoRepository is extended by its reader: a Read q calls    *)
(* Aggregates when the cache has not answered it, and stores the report    *)
(* under the one key there is.  Calls run concurrently with each other     *)
(* and with the workers' Saves; every access to the cache is a step.       *)
(*                                                                         *)
(* External: the Redis server, which drops a key when its time is up, and  *)
(* the jwt library, whose NumericDate is whole seconds.                    *)
(***************************************************************************)
EXTENDS EcoRepository

CONSTANTS
  TTL,          \* defaultTTL, in ticks of the clock
  Second,       \* the ticks in a second
  TokenTTLs,    \* what IssueToken may be given as ttl, in ticks
  MaxTime       \* bound on the clock

ASSUME ClockAssumption ==
  /\ TTL \in Nat \ {0} /\ Second \in Nat \ {0} /\ MaxTime \in Nat
  /\ TokenTTLs \subseteq Nat

VARIABLES
  now,       \* the clock
  backend,   \* the Cache that main chose: "memory" or "redis"
  entry,     \* what it holds under "eco:cache_metrics"
  pc,        \* per call: its place
  held,      \* per call: the entry that Memory.Get has loaded
  answer,    \* per call: the CacheMetrics of its response
  seen,      \* per call under way (history): see NoHistory
  stored,    \* per call (history): when its Set was made
  disturbed  \* history: two fills have overlapped, or Redis has refused a Set

callVars == <<pc, held, answer, seen, stored>>
serviceVars == <<now, backend, entry, callVars, disturbed>>

------------------------------------------------------------------------------
NoEntry   == [data |-> Zero, expiresAt |-> -1]
NoHistory == [arrived |-> 0,   \* when the call began
              best    |-> 0,   \* the most requests an answer given before had counted
              base    |-> 0]   \* the requests counted when its Aggregates began

ServiceTypeOK ==
  /\ TypeOK
  /\ now \in 0..MaxTime
  /\ backend \in {"memory", "redis"}
  /\ entry.expiresAt \in -1..MaxTime + TTL
  /\ pc \in [Reads -> {"new", "get", "check", "delete", "fill", "answered"}]
  /\ \A q \in Reads : held[q].expiresAt \in -1..MaxTime + TTL
  /\ disturbed \in BOOLEAN

ServiceInit ==
  /\ Init
  /\ now = 0
  /\ backend \in {"memory", "redis"}
  /\ entry = NoEntry
  /\ pc = [q \in Reads |-> "new"]
  /\ held = [q \in Reads |-> NoEntry]
  /\ answer = [q \in Reads |-> Zero]
  /\ seen = [q \in Reads |-> NoHistory]
  /\ stored = [q \in Reads |-> 0]
  /\ disturbed = FALSE

Goes(q, from, to) == pc[q] = from /\ pc' = [pc EXCEPT ![q] = to]

Counted(m) == m.hits + m.misses
Answered   == {q \in Reads : pc[q] = "answered"}

------------------------------------------------------------------------------
\* JWTAuth.  IssueToken's dates lose their fractions of a second; a token holds
\* from its iat until just before its exp, with no leeway.
Whole(t) == (t \div Second) * Second
Dates(issued, ttl) == [iat |-> Whole(issued), exp |-> Whole(issued + ttl)]

AcceptedLate(issued, ttl, t) == t <= Dates(issued, ttl).exp + Second  \* mutant
Accepted(issued, ttl, t) ==
  LET token == Dates(issued, ttl) IN token.iat <= t /\ t < token.exp

\* A request whose token is missing, malformed or not accepted gets a 401 and
\* changes nothing; another one goes on to CacheMetrics.
Arrive(q) ==
  /\ \E issued \in 0..now, ttl \in TokenTTLs : Accepted(issued, ttl, now)
  /\ Goes(q, "new", "get")
  /\ LET best == Max({0} \cup {Counted(answer[p]) : p \in Answered})
     IN  seen' = [seen EXCEPT ![q] = [arrived |-> now, best |-> best, base |-> 0]]
  /\ UNCHANGED <<vars, now, backend, entry, held, answer, stored, disturbed>>

------------------------------------------------------------------------------
\* CacheMetrics, the way through the cache.

Answer(q, m) ==
  /\ answer' = [answer EXCEPT ![q] = m]
  /\ seen' = [seen EXCEPT ![q] = NoHistory]

\* Any error of Get, a miss or an outage, leads to the repository, whose
\* Aggregates has no error to return: every call ends with a 200.
Fill(q, from) ==
  /\ Goes(q, from, "fill")
  /\ seen' = [seen EXCEPT ![q].base = hits + misses]
  /\ disturbed' = (disturbed \/ \E p \in Reads : pc[p] = "fill")
  /\ UNCHANGED <<held, answer, stored>>

\* Memory.Get: Load, then the expiry, then perhaps Delete, whatever is stored
\* there by then.
MemoryLoad(q) ==
  /\ backend = "memory"
  /\ \/ entry = NoEntry /\ Fill(q, "get")
     \/ /\ entry # NoEntry
        /\ Goes(q, "get", "check")
        /\ held' = [held EXCEPT ![q] = entry]
        /\ UNCHANGED <<answer, seen, stored, disturbed>>
  /\ UNCHANGED <<vars, now, backend, entry>>

Expired(e) == now > e.expiresAt

\* Mutant: a hit renews the entry, so that it expires TTL after its last use.
MemoryCheckRefreshes(q) ==
  /\ IF Expired(held[q])
       THEN Goes(q, "check", "delete") /\ UNCHANGED <<answer, seen, entry>>
       ELSE /\ Goes(q, "check", "answered") /\ Answer(q, held[q].data)
            /\ entry' = [held[q] EXCEPT !.expiresAt = now + TTL]
  /\ held' = [held EXCEPT ![q] = NoEntry]
  /\ UNCHANGED <<vars, now, backend, stored, disturbed>>

MemoryCheck(q) ==
  /\ IF Expired(held[q])
       THEN Goes(q, "check", "delete") /\ UNCHANGED <<answer, seen>>
       ELSE Goes(q, "check", "answered") /\ Answer(q, held[q].data)
  /\ held' = [held EXCEPT ![q] = NoEntry]
  /\ UNCHANGED <<vars, now, backend, entry, stored, disturbed>>

MemoryDelete(q) ==
  /\ Fill(q, "delete")
  /\ entry' = NoEntry
  /\ UNCHANGED <<vars, now, backend>>

\* Redis.Get: one command, which the server answers from a key that is still
\* there; the command may fail, or the client be gone.
RedisGet(q) ==
  /\ backend = "redis"
  /\ \/ Fill(q, "get")
     \/ /\ now < entry.expiresAt
        /\ Goes(q, "get", "answered")
        /\ Answer(q, entry.data)
        /\ UNCHANGED <<held, stored, disturbed>>
  /\ UNCHANGED <<vars, now, backend, entry>>

------------------------------------------------------------------------------
\* CacheMetrics, the way through the repository: Aggregates, then Set.

ReadRepository(q) == pc[q] = "fill" /\ Aggregates(q) /\ UNCHANGED serviceVars

\* Memory.Set cannot fail.
StoreTooLong(q) ==                                                    \* mutant
  /\ entry' = [data |-> report[q], expiresAt |-> now + 2 * TTL]
  /\ UNCHANGED disturbed

Store(q) ==
  /\ entry' = [data |-> report[q], expiresAt |-> now + TTL]
  /\ UNCHANGED disturbed

\* Redis.Set can, and its error is dropped.  A Set that is carried out although
\* the client got no answer in time is a Store.
RedisRefuses ==
  /\ backend = "redis"
  /\ disturbed' = TRUE
  /\ UNCHANGED entry

\* Mutant: a goroutine of its own stores the report, some time after the answer.
SetLater(q) ==
  /\ rpc[q] = "done"
  /\ \/ /\ Goes(q, "fill", "answered")
        /\ Answer(q, report[q])
        /\ UNCHANGED <<entry, disturbed, stored>>
     \/ /\ pc[q] = "answered" /\ Store(q)
        /\ stored' = [stored EXCEPT ![q] = now]
        /\ UNCHANGED <<pc, answer, seen>>
  /\ UNCHANGED <<vars, now, backend, held>>

Set(q) ==
  /\ rpc[q] = "done"
  /\ Goes(q, "fill", "answered")
  /\ Store(q) \/ RedisRefuses
  /\ Answer(q, report[q])
  /\ stored' = [stored EXCEPT ![q] = now]
  /\ UNCHANGED <<vars, now, backend, held>>

CacheMetrics(q) ==
  \/ Arrive(q)
  \/ MemoryLoad(q) \/ MemoryCheck(q) \/ MemoryDelete(q) \/ RedisGet(q)
  \/ ReadRepository(q) \/ Set(q)

------------------------------------------------------------------------------
Workers == (\E s \in Saves : Save(s)) /\ UNCHANGED serviceVars

Tick ==
  /\ now < MaxTime
  /\ now' = now + 1
  /\ UNCHANGED <<vars, backend, entry, callVars, disturbed>>

AllDone ==
  /\ \A s \in Saves : spc[s] = "done"
  /\ Answered = Reads
  /\ UNCHANGED <<vars, serviceVars>>

ServiceNext ==
  \/ \E q \in Reads : CacheMetrics(q)
  \/ Workers
  \/ Tick
  \/ AllDone

ServiceSpec == ServiceInit /\ [][ServiceNext]_<<vars, serviceVars>>

------------------------------------------------------------------------------
(* Properties *)

\* However calls overtake each other, an answer is a report that some call made,
\* stored no longer than the TTL before the call that gets it began, unless it
\* made the report itself; and the report counts every request that had been
\* counted when its making began.  So a fill that is slow to store, or that
\* overwrites a newer one, makes answers older by its own duration at most.
\* (service/eco.go:35-51, cache.go:47-67.)
Answers(q) == pc[q] # "answered" /\ pc'[q] = "answered"

StalenessBounded ==
  [][\A q \in Reads : Answers(q) =>
       \/ answer'[q] = report[q] /\ Counted(report[q]) >= seen[q].base
       \/ \E f \in Answered : /\ answer'[q] = report[f] /\ rpc[f] = "done"
                             /\ seen[q].arrived <= stored[f] + TTL]_pc

\* Answers go back only if two fills overlapped or Redis refused one: else a call
\* that begins after another has its answer counts at least as many requests.
\* An expired entry, and a Delete that hits a newer one, cost a fill and no more.
\* (service/eco.go:39-49, cache.go:52-55.)
AnswersGoForward ==
  [][\A q \in Reads : Answers(q) /\ ~disturbed' =>
       Counted(answer'[q]) >= seen[q].best]_pc

\* A token is good until its exp, never after its ttl, and loses less than a
\* second of it.  (IssueToken and JWTAuth, auth.go:31-81; "clock skew tolerance
\* is 0", auth.go:26.)
TokenLifetime ==
  \A issued \in 0..now, ttl \in TokenTTLs :
    /\ Accepted(issued, ttl, now) => now < issued + ttl
    /\ now + Second <= issued + ttl => Accepted(issued, ttl, now)
=============================================================================
