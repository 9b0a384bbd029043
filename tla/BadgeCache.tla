----------------------------- MODULE BadgeCache -----------------------------
(***************************************************************************)
(* pkg/badge: the SVG that GET /badge serves, kept for a TTL and refreshed *)
(* under a RWMutex by the first request that finds it expired, and the     *)
(* ETag with which a client asks whether its own copy is still good.       *)
(*                                                                         *)
(* A client sends its next request when it has the answer to the last one. *)
(* Time is discrete and may pass between any two steps.  co2Fn is the      *)
(* application's: it returns the reading of the moment, or panics, which   *)
(* net/http or a middleware recovers.                                      *)
(***************************************************************************)
EXTENDS Integers

CONSTANTS
  Clients,
  Readings,    \* what co2Fn can return, in hundred-thousandths of a gram
  TTL,
  Nobody,      \* no SVG
  MaxTime      \* bound: the clock stops there

ASSUME TTLAssumption      == TTL \in Nat \ {0}
ASSUME ReadingsAssumption == Readings # {} /\ Readings \subseteq Nat
ASSUME TimeAssumption     == MaxTime \in Nat

VARIABLES
  now,
  current,   \* what co2Fn would return now
  svg, etag, renderedAt,     \* the fields of Cache
  readers, writer,           \* its RWMutex: who holds it
  pc,        \* per client: the next step of its request
  fresh,     \* per client: what its refresh has read and rendered
  got,       \* per client: what SVGAndETag has returned
  copy,      \* per client: the SVG it shows and the ETag that came with it
  readAt,    \* history: when co2Fn was called for svg
  begun      \* history, per client: when its request began and svg expires

cacheVars == <<svg, etag, renderedAt, readAt>>
lockVars  == <<readers, writer>>
outside   == <<now, current>>
vars == <<outside, cacheVars, lockVars, pc, fresh, got, copy, begun>>

------------------------------------------------------------------------------
\* classify: the label is rounded to fewer digits the larger it is.
Label(g, unit) == [shown |-> (g + unit \div 2) \div unit, unit |-> unit]
Badge(g, unit, color) == [label |-> Label(g, unit), color |-> color]
Classify(g) ==
  CASE g < 100                -> Badge(g, 10, "green")
    [] g >= 100 /\ g < 1000   -> Badge(g, 100, "light green")
    [] g >= 1000 /\ g < 10000 -> Badge(g, 1000, "yellow")
    [] OTHER                  -> Badge(g, 1000, "red")

\* render, and the weak ETag made of the SVG's hash, which is taken to be unique.
SVGs == {Classify(g) : g \in Readings}
ETagOf(s) == <<"W/", s>>

Places == {"idle", "read lock", "check", "copy svg", "copy etag", "want", "pending",
           "recheck", "co2Fn", "set svg", "set etag", "set time", "return", "answer"}
Reading(c) == pc[c] \in {"check", "copy svg", "copy etag"}
Writing(c) == pc[c] \in {"recheck", "co2Fn", "set svg", "set etag", "set time", "return"}

TypeOK ==
  /\ now \in 0..MaxTime /\ current \in Readings
  /\ svg \in SVGs /\ etag \in {ETagOf(s) : s \in SVGs}
  /\ renderedAt \in 0..now /\ readAt \in 0..renderedAt
  /\ pc \in [Clients -> Places]
  /\ readers = {c \in Clients : Reading(c)}
  /\ writer = {c \in Clients : Writing(c)}
  /\ fresh \in [Clients -> [svg : SVGs \cup {Nobody}, at : 0..now]]
  /\ got \in [Clients -> [svg : SVGs \cup {Nobody}, etag : {ETagOf(s) : s \in SVGs \cup {Nobody}},
                          rendered : 0..now, read : 0..now]]
  /\ copy \in [Clients -> [svg : SVGs \cup {Nobody}, etag : {ETagOf(s) : s \in SVGs \cup {Nobody}}]]
  /\ begun \in [Clients -> [at : 0..now, expiry : 0..(now + TTL)]]

\* NewCache renders once before anybody asks.
NoCopy == [svg |-> Nobody, etag |-> ETagOf(Nobody)]
NoAnswer == [svg |-> Nobody, etag |-> ETagOf(Nobody), rendered |-> 0, read |-> 0]
NotBegun == [at |-> 0, expiry |-> 0]
Unread == [svg |-> Nobody, at |-> 0]

Init ==
  /\ now = 0 /\ renderedAt = 0 /\ readAt = 0
  /\ current \in Readings
  /\ svg = Classify(current) /\ etag = ETagOf(svg)
  /\ readers = {} /\ writer = {}
  /\ pc = [c \in Clients |-> "idle"]
  /\ fresh = [c \in Clients |-> Unread]
  /\ got = [c \in Clients |-> NoAnswer]
  /\ copy = [c \in Clients |-> NoCopy]
  /\ begun = [c \in Clients |-> NotBegun]

------------------------------------------------------------------------------
Goes(c, from, to) == pc[c] = from /\ pc' = [pc EXCEPT ![c] = to]

ExpiredLater == now - renderedAt > TTL     \* mutant
Expired == now - renderedAt >= TTL

Begin(c) ==
  /\ Goes(c, "idle", "read lock")
  /\ begun' = [begun EXCEPT ![c] = [at |-> now, expiry |-> renderedAt + TTL]]
  /\ UNCHANGED <<outside, cacheVars, lockVars, fresh, got, copy>>

\* sync.RWMutex: a pending writer keeps new readers out.
RLock(c) ==
  /\ writer = {} /\ \A d \in Clients : pc[d] # "pending"
  /\ Goes(c, "read lock", "check")
  /\ readers' = readers \cup {c}
  /\ UNCHANGED <<outside, cacheVars, writer, fresh, got, copy, begun>>

\* Mutant: the early return forgets RUnlock.
CheckExpiredKeepsLock(c) ==
  /\ Expired /\ Goes(c, "check", "want")
  /\ UNCHANGED <<outside, cacheVars, lockVars, fresh, got, copy, begun>>

CheckExpired(c) ==
  /\ Expired /\ Goes(c, "check", "want")
  /\ readers' = readers \ {c}
  /\ UNCHANGED <<outside, cacheVars, writer, fresh, got, copy, begun>>

\* Mutant: RUnlock before the copy.
CheckValidUnlocks(c) ==
  /\ ~Expired /\ Goes(c, "check", "copy svg")
  /\ readers' = readers \ {c}
  /\ UNCHANGED <<outside, cacheVars, writer, fresh, got, copy, begun>>

CheckValid(c) ==
  /\ ~Expired /\ Goes(c, "check", "copy svg")
  /\ UNCHANGED <<outside, cacheVars, lockVars, fresh, got, copy, begun>>

Answer(s, e) == [svg |-> s, etag |-> e, rendered |-> renderedAt, read |-> readAt]

\* svg, etag = c.svg, c.etag, then RUnlock.
CopySVG(c) ==
  /\ Goes(c, "copy svg", "copy etag")
  /\ got' = [got EXCEPT ![c] = Answer(svg, ETagOf(Nobody))]
  /\ UNCHANGED <<outside, cacheVars, lockVars, fresh, copy, begun>>

CopyETag(c) ==
  /\ Goes(c, "copy etag", "answer")
  /\ got' = [got EXCEPT ![c].etag = etag]
  /\ readers' = readers \ {c}
  /\ UNCHANGED <<outside, cacheVars, writer, fresh, copy, begun>>

\* Lock waits for the other writers, then announces itself and waits for readers.
Announce(c) ==
  /\ writer = {} /\ \A d \in Clients : pc[d] # "pending"
  /\ Goes(c, "want", "pending")
  /\ UNCHANGED <<outside, cacheVars, lockVars, fresh, got, copy, begun>>

Lock(c) ==
  /\ readers = {}
  /\ Goes(c, "pending", "recheck")
  /\ writer' = {c}
  /\ UNCHANGED <<outside, cacheVars, readers, fresh, got, copy, begun>>

\* Mutant: no second look at the clock.
RecheckNever(c) ==
  /\ Goes(c, "recheck", "co2Fn")
  /\ UNCHANGED <<outside, cacheVars, lockVars, fresh, got, copy, begun>>

Recheck(c) ==
  /\ Goes(c, "recheck", IF Expired THEN "co2Fn" ELSE "return")
  /\ UNCHANGED <<outside, cacheVars, lockVars, fresh, got, copy, begun>>

\* refresh: co2Fn, classify and render, then the three fields.
CallCO2Fn(c) ==
  /\ Goes(c, "co2Fn", "set svg")
  /\ fresh' = [fresh EXCEPT ![c] = [svg |-> Classify(current), at |-> now]]
  /\ UNCHANGED <<outside, cacheVars, lockVars, got, copy, begun>>

SetSVG(c) ==
  /\ Goes(c, "set svg", "set etag")
  /\ svg' = fresh[c].svg
  /\ UNCHANGED <<outside, etag, renderedAt, readAt, lockVars, fresh, got, copy, begun>>

SetETag(c) ==
  /\ Goes(c, "set etag", "set time")
  /\ etag' = ETagOf(fresh[c].svg)
  /\ UNCHANGED <<outside, svg, renderedAt, readAt, lockVars, fresh, got, copy, begun>>

SetTime(c) ==
  /\ Goes(c, "set time", "return")
  /\ renderedAt' = now /\ readAt' = fresh[c].at
  /\ fresh' = [fresh EXCEPT ![c] = Unread]
  /\ UNCHANGED <<outside, svg, etag, lockVars, got, copy, begun>>

\* return c.svg, c.etag, then the deferred Unlock.
Return(c) ==
  /\ Goes(c, "return", "answer")
  /\ got' = [got EXCEPT ![c] = Answer(svg, etag)]
  /\ writer' = {}
  /\ UNCHANGED <<outside, cacheVars, readers, fresh, copy, begun>>

\* What the model remembers of a request, until the next.
Forget(c) ==
  /\ got' = [got EXCEPT ![c] = NoAnswer]
  /\ begun' = [begun EXCEPT ![c] = NotBegun]

\* Mutant: the Unlock is not deferred.
CO2FnPanicsLocked(c) ==
  /\ Goes(c, "co2Fn", "idle")
  /\ Forget(c)
  /\ UNCHANGED <<outside, cacheVars, lockVars, fresh, copy>>

\* The deferred Unlock runs; the client gets no badge.
CO2FnPanics(c) ==
  /\ Goes(c, "co2Fn", "idle")
  /\ writer' = {}
  /\ Forget(c)
  /\ UNCHANGED <<outside, cacheVars, readers, fresh, copy>>

\* Handler: 304 when If-None-Match names the ETag, otherwise 200 and the SVG.
NotModified(c) ==
  /\ copy[c].etag = got[c].etag
  /\ UNCHANGED copy
OK(c) ==
  /\ copy[c].etag # got[c].etag
  /\ copy' = [copy EXCEPT ![c] = [svg |-> got[c].svg, etag |-> got[c].etag]]
Respond(c) ==
  /\ Goes(c, "answer", "idle")
  /\ NotModified(c) \/ OK(c)
  /\ Forget(c)
  /\ UNCHANGED <<outside, cacheVars, lockVars, fresh>>

Steps(c) ==
  \/ CheckExpired(c) \/ CheckValid(c) \/ CopySVG(c) \/ CopyETag(c)
  \/ Lock(c) \/ Recheck(c) \/ CallCO2Fn(c) \/ CO2FnPanics(c)
  \/ SetSVG(c) \/ SetETag(c) \/ SetTime(c) \/ Return(c) \/ Respond(c)

Tick ==
  /\ now < MaxTime /\ now' = now + 1
  /\ UNCHANGED <<current, cacheVars, lockVars, pc, fresh, got, copy, begun>>
ReadingChanges ==
  /\ current' \in Readings \ {current}
  /\ UNCHANGED <<now, cacheVars, lockVars, pc, fresh, got, copy, begun>>

Next ==
  \/ \E c \in Clients : Begin(c) \/ RLock(c) \/ Announce(c) \/ Steps(c)
  \/ Tick \/ ReadingChanges

Spec == Init /\ [][Next]_vars

\* Request goroutines are scheduled, and sync.RWMutex starves nobody.  Nobody has
\* to ask, and the clock may stop.
FairSpec ==
  /\ Spec
  /\ \A c \in Clients : WF_vars(Steps(c)) /\ SF_vars(RLock(c)) /\ SF_vars(Announce(c))

------------------------------------------------------------------------------
(* Properties *)

\* The handler is never given the SVG of one refresh and the ETag of another, and
\* when the ETags agree, so that it answers 304, the client already shows the SVG
\* that it would have sent.  (cache.go:56-101, badge.go:42-62.)
ETagTellsSVG ==
  \A c \in Clients : pc[c] = "answer" =>
    /\ got[c].etag = ETagOf(got[c].svg)
    /\ copy[c].etag = got[c].etag => copy[c].svg = got[c].svg

\* What a client can tell of its request.
Stage(c) ==
  CASE pc[c] = "idle"   -> "idle"
    [] pc[c] = "answer" -> "told"
    [] OTHER            -> "asked"
ToldTo(c) == IF pc[c] = "answer" THEN got[c].svg ELSE Nobody

OneBadge == INSTANCE AtomicBadge WITH
  board <- svg,
  stage <- [c \in Clients |-> Stage(c)],
  told  <- [c \in Clients |-> ToldTo(c)],
  shown <- [c \in Clients |-> copy[c].svg]

\* The fields of the cache, its lock and the ETags cannot be told from one SVG that
\* is replaced and read in one step: after its answer, a 304 or a 200, a client
\* shows what the badge was at one moment of its request.  (cache.go:56-101,
\* badge.go:42-62.)
ImplementsOneBadge == OneBadge!Spec

\* No badge is older than the TTL when it is asked for, and a request that comes
\* after the expiry gets a reading made after the expiry ("sempre recebe dados
\* frescos", cache.go:55).
ServedFresh ==
  \A c \in Clients : pc[c] = "answer" =>
    /\ got[c].rendered > begun[c].at - TTL
    /\ begun[c].at >= begun[c].expiry => got[c].read >= begun[c].expiry

\* "A escrita (refresh) ocorre no máximo uma vez por TTL" (cache.go:20): a reading is
\* made no sooner than a TTL after the last rendering, whoever else waited.
RefreshOncePerTTL ==
  [][renderedAt' # renderedAt \/ readAt' # readAt => readAt' >= renderedAt + TTL]_<<renderedAt, readAt>>

\* Every request is answered, also after co2Fn has panicked in another one.
\* (The deferred Unlock, cache.go:71.)
EveryRequestEnds == \A c \in Clients : pc[c] # "idle" ~> pc[c] = "idle"
==============================================================================
