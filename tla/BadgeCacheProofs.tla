--------------------------- MODULE BadgeCacheProofs ---------------------------
(***************************************************************************)
(* Theorems about BadgeCache, for any clients, readings, TTL and clock:    *)
(* whoever refreshes and whoever waits, an ETag names one SVG, what is     *)
(* served is fresh, and a TTL sees one refresh.                            *)
(***************************************************************************)
EXTENDS BadgeCache, TLAPS

ETags        == {ETagOf(s) : s \in SVGs \cup {Nobody}}
FreshRecords == [svg : SVGs \cup {Nobody}, at : Nat]
GotRecords   == [svg : SVGs \cup {Nobody}, etag : ETags, rendered : Nat, read : Nat]
CopyRecords  == [svg : SVGs \cup {Nobody}, etag : ETags]
BegunRecords == [at : Nat, expiry : Nat]

------------------------------------------------------------------------------
(* The inductive invariant *)

\* TypeOK in parts: types, what is past, and who holds the RWMutex.
Typed ==
  /\ now \in 0..MaxTime /\ current \in Readings
  /\ svg \in SVGs /\ etag \in {ETagOf(s) : s \in SVGs}
  /\ renderedAt \in Nat /\ readAt \in Nat
  /\ pc \in [Clients -> Places]
  /\ fresh \in [Clients -> FreshRecords] /\ got \in [Clients -> GotRecords]
  /\ copy \in [Clients -> CopyRecords] /\ begun \in [Clients -> BegunRecords]

Clock == renderedAt <= now /\ readAt <= renderedAt

PastOf(c) ==
  /\ fresh[c].at <= now /\ got[c].rendered <= now /\ got[c].read <= now
  /\ begun[c].at <= now /\ begun[c].expiry <= now + TTL

Past == \A c \in Clients : PastOf(c)

Holders ==
  /\ readers = {c \in Clients : Reading(c)}
  /\ writer = {c \in Clients : Writing(c)}

\* The RWMutex: one writer, or readers; a pending writer waits for readers only.
Locks == \A c, d \in Clients :
  /\ Writing(c) => ~Reading(d) /\ (Writing(d) => c = d)
  /\ pc[c] = "pending" => ~Writing(d) /\ (pc[d] = "pending" => c = d)

\* The SVG and its ETag belong together, but between the two writes of refresh;
\* so do those of an answer, but between the two reads, and those of a copy.
Content ==
  /\ (\A c \in Clients : pc[c] # "set etag") => etag = ETagOf(svg)
  /\ \A c \in Clients :
       /\ pc[c] \in {"set svg", "set etag", "set time"} => fresh[c].svg \in SVGs
       /\ pc[c] = "set etag" => svg = fresh[c].svg
       /\ pc[c] = "copy etag" => got[c].svg = svg
       /\ pc[c] = "answer" => got[c].etag = ETagOf(got[c].svg)
       /\ copy[c].etag = ETagOf(copy[c].svg)

\* Something rendered at t from a reading made at r is good for the request of c.
Recent(c, t)   == t > begun[c].at - TTL
Known(c, t, r) ==
  \/ begun[c].expiry = t + TTL
  \/ begun[c].expiry <= t + TTL /\ begun[c].expiry <= r

TimesOf(c) ==
  /\ pc[c] \notin {"idle", "answer"} => Known(c, renderedAt, readAt)
  /\ pc[c] = "co2Fn" => now >= renderedAt + TTL
  /\ pc[c] \in {"set svg", "set etag", "set time"} => fresh[c].at >= renderedAt + TTL
  /\ pc[c] \in {"copy svg", "copy etag", "return"} => Recent(c, renderedAt)
  /\ pc[c] \in {"copy etag", "answer"} =>
       Recent(c, got[c].rendered) /\ Known(c, got[c].rendered, got[c].read)

Times == \A c \in Clients : TimesOf(c)

IInv == Typed /\ Clock /\ Past /\ Holders /\ Locks /\ Content /\ Times

LEMMA ClassifySVG == \A g \in Readings : Classify(g) \in SVGs
BY DEF SVGs

LEMMA Initially == Init => IInv
<1>. USE TTLAssumption, TimeAssumption, ClassifySVG
     DEF Init, Places, Reading, Writing, NoCopy, NoAnswer, NotBegun, Unread
<1>1. Init => Typed
  BY DEF Typed, FreshRecords, GotRecords, CopyRecords, BegunRecords, ETags
<1>2. Init => Clock /\ Past
  BY DEF Clock, Past, PastOf
<1>3. Init => Holders /\ Locks
  BY DEF Holders, Locks
<1>4. Init => Content /\ Times
  BY DEF Content, Times, TimesOf, Expired, Recent, Known
<1>. QED BY <1>1, <1>2, <1>3, <1>4 DEF IInv

LEMMA Numbers ==
  ASSUME Typed
  PROVE  /\ now \in Nat /\ renderedAt \in Nat /\ readAt \in Nat
         /\ \A c \in Clients :
              /\ fresh[c].at \in Nat /\ got[c].rendered \in Nat /\ got[c].read \in Nat
              /\ begun[c].at \in Nat /\ begun[c].expiry \in Nat
BY TimeAssumption DEF Typed, FreshRecords, GotRecords, BegunRecords

LEMMA ExpiredMeans == Typed => (Expired <=> now >= renderedAt + TTL)
BY TTLAssumption, TimeAssumption DEF Expired, Typed

------------------------------------------------------------------------------
(* One lemma per step of a client.  In each, the first steps say where the client  *)
(* goes, what stays and what is written; the others prove the parts of IInv from   *)
(* these facts alone, the last two for another client and for this one apart.      *)

LEMMA BeginKeeps == ASSUME IInv, NEW c \in Clients, Begin(c) PROVE IInv'
<1>. USE DEF IInv
<1>1. /\ pc[c] = "idle" /\ pc' \in [Clients -> Places]
      /\ \A d \in Clients : pc'[d] = IF d = c THEN "read lock" ELSE pc[d]
  BY DEF Begin, Goes, Typed, Places
<1>2. UNCHANGED <<now, current, svg, etag, renderedAt, readAt, readers, writer, fresh,
      got, copy>>
  BY DEF Begin, outside, cacheVars, lockVars
<1>3. /\ [at |-> now, expiry |-> renderedAt + TTL] \in BegunRecords
  BY Numbers, ClassifySVG, TTLAssumption DEF BegunRecords
<1>4. /\ begun' \in [Clients -> BegunRecords]
      /\ \A d \in Clients \ {c} : begun'[d] = begun[d]
      /\ begun'[c].at = now /\ begun'[c].expiry = renderedAt + TTL
  BY <1>3, ClassifySVG DEF Begin, Typed
<1>6. Typed' /\ Clock'
  BY <1>1, <1>2, <1>4, Numbers DEF Typed, Clock, Content
<1>7. Holders' /\ Locks'
  BY <1>1, <1>2, ZenonT(30) DEF Holders, Locks, Reading, Writing
<1>8. Content'
  BY <1>1, <1>2, <1>4, ZenonT(30) DEF Locks, Reading, Writing, Content
<1>9. ASSUME NEW d \in Clients PROVE PastOf(d)' /\ TimesOf(d)'
  <2>1. PastOf(d) /\ TimesOf(d) /\ Clock
    BY DEF Past, Times
  <2>2. PastOf(d)'
    BY <1>2, <1>4, <2>1, Numbers, TTLAssumption DEF Clock, PastOf
  <2>3. TimesOf(d)'
    <3>1. CASE d = c
      <4>1. pc[d] = "idle" /\ pc'[d] = "read lock"
        BY <3>1, <1>1
      <4>. QED BY <3>1, <4>1, <1>2, <1>4, <2>1, Numbers, ExpiredMeans, TTLAssumption
               DEF Clock, PastOf, TimesOf, Recent, Known
    <3>2. CASE d # c
      <4>1. pc'[d] = pc[d]
        BY <3>2, <1>1
      <4>. QED BY <3>2, <4>1, <1>2, <1>4, <2>1, Numbers, TTLAssumption DEF PastOf,
               TimesOf, Recent, Known
    <3>. QED BY <3>1, <3>2
  <2>. QED BY <2>2, <2>3
<1>. QED BY <1>6, <1>7, <1>8, <1>9 DEF Past, Times

LEMMA RLockKeeps == ASSUME IInv, NEW c \in Clients, RLock(c) PROVE IInv'
<1>. USE DEF IInv
<1>1. /\ pc[c] = "read lock" /\ pc' \in [Clients -> Places]
      /\ \A d \in Clients : pc'[d] = IF d = c THEN "check" ELSE pc[d]
  BY DEF RLock, Goes, Typed, Places
<1>2. writer = {} /\ (\A d \in Clients : pc[d] # "pending") /\ readers' = readers \cup
      {c} /\ UNCHANGED <<now, current, svg, etag, renderedAt, readAt, writer, fresh,
      got, copy, begun>>
  BY DEF RLock, outside, cacheVars, lockVars
<1>6. Typed' /\ Clock'
  BY <1>1, <1>2, Numbers DEF Typed, Clock, Content
<1>7. Holders' /\ Locks'
  BY <1>1, <1>2, ZenonT(30) DEF Holders, Locks, Reading, Writing
<1>8. Content'
  BY <1>1, <1>2, ZenonT(30) DEF Locks, Reading, Writing, Content
<1>9. ASSUME NEW d \in Clients PROVE PastOf(d)' /\ TimesOf(d)'
  <2>1. PastOf(d) /\ TimesOf(d) /\ Clock
    BY DEF Past, Times
  <2>2. PastOf(d)'
    BY <1>2, <2>1 DEF PastOf
  <2>3. TimesOf(d)'
    BY <1>1, <1>2, <2>1 DEF TimesOf, Recent, Known
  <2>. QED BY <2>2, <2>3
<1>. QED BY <1>6, <1>7, <1>8, <1>9 DEF Past, Times

LEMMA CheckExpiredKeeps == ASSUME IInv, NEW c \in Clients, CheckExpired(c) PROVE IInv'
<1>. USE DEF IInv
<1>1. /\ pc[c] = "check" /\ pc' \in [Clients -> Places]
      /\ \A d \in Clients : pc'[d] = IF d = c THEN "want" ELSE pc[d]
  BY DEF CheckExpired, Goes, Typed, Places
<1>2. readers' = readers \ {c} /\ UNCHANGED <<now, current, svg, etag, renderedAt,
      readAt, writer, fresh, got, copy, begun>>
  BY DEF CheckExpired, outside, cacheVars, lockVars
<1>6. Typed' /\ Clock'
  BY <1>1, <1>2, Numbers DEF Typed, Clock, Content
<1>7. Holders' /\ Locks'
  BY <1>1, <1>2, ZenonT(30) DEF Holders, Locks, Reading, Writing
<1>8. Content'
  BY <1>1, <1>2, ZenonT(30) DEF Locks, Reading, Writing, Content
<1>9. ASSUME NEW d \in Clients PROVE PastOf(d)' /\ TimesOf(d)'
  <2>1. PastOf(d) /\ TimesOf(d) /\ Clock
    BY DEF Past, Times
  <2>2. PastOf(d)'
    BY <1>2, <2>1 DEF PastOf
  <2>3. TimesOf(d)'
    BY <1>1, <1>2, <2>1 DEF TimesOf, Recent, Known
  <2>. QED BY <2>2, <2>3
<1>. QED BY <1>6, <1>7, <1>8, <1>9 DEF Past, Times

LEMMA CheckValidKeeps == ASSUME IInv, NEW c \in Clients, CheckValid(c) PROVE IInv'
<1>. USE DEF IInv
<1>1. /\ pc[c] = "check" /\ pc' \in [Clients -> Places]
      /\ \A d \in Clients : pc'[d] = IF d = c THEN "copy svg" ELSE pc[d]
  BY DEF CheckValid, Goes, Typed, Places
<1>2. ~Expired /\ UNCHANGED <<now, current, svg, etag, renderedAt, readAt, readers,
      writer, fresh, got, copy, begun>>
  BY DEF CheckValid, outside, cacheVars, lockVars
<1>6. Typed' /\ Clock'
  BY <1>1, <1>2, Numbers DEF Typed, Clock, Content
<1>7. Holders' /\ Locks'
  BY <1>1, <1>2, ZenonT(30) DEF Holders, Locks, Reading, Writing
<1>8. Content'
  BY <1>1, <1>2, ZenonT(30) DEF Locks, Reading, Writing, Content
<1>9. ASSUME NEW d \in Clients PROVE PastOf(d)' /\ TimesOf(d)'
  <2>1. PastOf(d) /\ TimesOf(d) /\ Clock
    BY DEF Past, Times
  <2>2. PastOf(d)'
    BY <1>2, <2>1 DEF PastOf
  <2>3. TimesOf(d)'
    <3>1. CASE d = c
      <4>1. pc[d] = "check" /\ pc'[d] = "copy svg"
        BY <3>1, <1>1
      <4>2. Recent(d, renderedAt)
        BY <1>2, <2>1, Numbers, ExpiredMeans, TTLAssumption DEF PastOf, Recent
      <4>. QED BY <4>1, <4>2, <1>2, <2>1 DEF TimesOf, Recent, Known
    <3>2. CASE d # c
      <4>1. pc'[d] = pc[d]
        BY <3>2, <1>1
      <4>. QED BY <3>2, <4>1, <1>2, <2>1, Numbers, TTLAssumption DEF PastOf, TimesOf,
               Recent, Known
    <3>. QED BY <3>1, <3>2
  <2>. QED BY <2>2, <2>3
<1>. QED BY <1>6, <1>7, <1>8, <1>9 DEF Past, Times

LEMMA CopySVGKeeps == ASSUME IInv, NEW c \in Clients, CopySVG(c) PROVE IInv'
<1>. USE DEF IInv
<1>1. /\ pc[c] = "copy svg" /\ pc' \in [Clients -> Places]
      /\ \A d \in Clients : pc'[d] = IF d = c THEN "copy etag" ELSE pc[d]
  BY DEF CopySVG, Goes, Typed, Places
<1>2. UNCHANGED <<now, current, svg, etag, renderedAt, readAt, readers, writer, fresh,
      copy, begun>>
  BY DEF CopySVG, outside, cacheVars, lockVars
<1>3. /\ Answer(svg, ETagOf(Nobody)) \in GotRecords
  BY Numbers, ClassifySVG, TTLAssumption DEF Typed, Answer, GotRecords, ETags
<1>4. /\ got' \in [Clients -> GotRecords]
      /\ \A d \in Clients \ {c} : got'[d] = got[d]
      /\ got'[c].svg = svg /\ got'[c].rendered = renderedAt /\ got'[c].read = readAt
  BY <1>3, ClassifySVG DEF CopySVG, Typed, Answer
<1>6. Typed' /\ Clock'
  BY <1>1, <1>2, <1>4, Numbers DEF Typed, Clock, Content
<1>7. Holders' /\ Locks'
  BY <1>1, <1>2, ZenonT(30) DEF Holders, Locks, Reading, Writing
<1>8. Content'
  BY <1>1, <1>2, <1>4, ZenonT(30) DEF Locks, Reading, Writing, Content
<1>9. ASSUME NEW d \in Clients PROVE PastOf(d)' /\ TimesOf(d)'
  <2>1. PastOf(d) /\ TimesOf(d) /\ Clock
    BY DEF Past, Times
  <2>2. PastOf(d)'
    BY <1>2, <1>4, <2>1, Numbers, TTLAssumption DEF Clock, PastOf
  <2>3. TimesOf(d)'
    <3>1. CASE d = c
      <4>1. pc[d] = "copy svg" /\ pc'[d] = "copy etag"
        BY <3>1, <1>1
      <4>. QED BY <3>1, <4>1, <1>2, <1>4, <2>1, Numbers, ExpiredMeans, TTLAssumption
               DEF Clock, PastOf, TimesOf, Recent, Known
    <3>2. CASE d # c
      <4>1. pc'[d] = pc[d]
        BY <3>2, <1>1
      <4>. QED BY <3>2, <4>1, <1>2, <1>4, <2>1, Numbers, TTLAssumption DEF PastOf,
               TimesOf, Recent, Known
    <3>. QED BY <3>1, <3>2
  <2>. QED BY <2>2, <2>3
<1>. QED BY <1>6, <1>7, <1>8, <1>9 DEF Past, Times

LEMMA CopyETagKeeps == ASSUME IInv, NEW c \in Clients, CopyETag(c) PROVE IInv'
<1>. USE DEF IInv
<1>1. /\ pc[c] = "copy etag" /\ pc' \in [Clients -> Places]
      /\ \A d \in Clients : pc'[d] = IF d = c THEN "answer" ELSE pc[d]
  BY DEF CopyETag, Goes, Typed, Places
<1>2. readers' = readers \ {c} /\ UNCHANGED <<now, current, svg, etag, renderedAt,
      readAt, writer, fresh, copy, begun>>
  BY DEF CopyETag, outside, cacheVars, lockVars
<1>3. /\ [got[c] EXCEPT !.etag = etag] \in GotRecords
  BY Numbers, ClassifySVG, TTLAssumption DEF Typed, GotRecords, ETags
<1>4. /\ got' \in [Clients -> GotRecords]
      /\ \A d \in Clients \ {c} : got'[d] = got[d]
      /\ got'[c].svg = got[c].svg /\ got'[c].etag = etag
      /\ got'[c].rendered = got[c].rendered /\ got'[c].read = got[c].read
  BY <1>3, ClassifySVG DEF CopyETag, Typed, GotRecords
<1>6. Typed' /\ Clock'
  BY <1>1, <1>2, <1>4, Numbers DEF Typed, Clock, Content
<1>7. Holders' /\ Locks'
  BY <1>1, <1>2, ZenonT(30) DEF Holders, Locks, Reading, Writing
<1>8. Content'
  BY <1>1, <1>2, <1>4, ZenonT(30) DEF Locks, Reading, Writing, Content
<1>9. ASSUME NEW d \in Clients PROVE PastOf(d)' /\ TimesOf(d)'
  <2>1. PastOf(d) /\ TimesOf(d) /\ Clock
    BY DEF Past, Times
  <2>2. PastOf(d)'
    BY <1>2, <1>4, <2>1, Numbers, TTLAssumption DEF Clock, PastOf
  <2>3. TimesOf(d)'
    <3>1. CASE d = c
      <4>1. pc[d] = "copy etag" /\ pc'[d] = "answer"
        BY <3>1, <1>1
      <4>. QED BY <3>1, <4>1, <1>2, <1>4, <2>1, Numbers, ExpiredMeans, TTLAssumption
               DEF Clock, PastOf, TimesOf, Recent, Known
    <3>2. CASE d # c
      <4>1. pc'[d] = pc[d]
        BY <3>2, <1>1
      <4>. QED BY <3>2, <4>1, <1>2, <1>4, <2>1, Numbers, TTLAssumption DEF PastOf,
               TimesOf, Recent, Known
    <3>. QED BY <3>1, <3>2
  <2>. QED BY <2>2, <2>3
<1>. QED BY <1>6, <1>7, <1>8, <1>9 DEF Past, Times

LEMMA AnnounceKeeps == ASSUME IInv, NEW c \in Clients, Announce(c) PROVE IInv'
<1>. USE DEF IInv
<1>1. /\ pc[c] = "want" /\ pc' \in [Clients -> Places]
      /\ \A d \in Clients : pc'[d] = IF d = c THEN "pending" ELSE pc[d]
  BY DEF Announce, Goes, Typed, Places
<1>2. writer = {} /\ \A d \in Clients : pc[d] # "pending" /\ UNCHANGED <<now, current,
      svg, etag, renderedAt, readAt, readers, writer, fresh, got, copy, begun>>
  BY DEF Announce, outside, cacheVars, lockVars
<1>6. Typed' /\ Clock'
  BY <1>1, <1>2, Numbers DEF Typed, Clock, Content
<1>7. Holders' /\ Locks'
  BY <1>1, <1>2, ZenonT(30) DEF Holders, Locks, Reading, Writing
<1>8. Content'
  BY <1>1, <1>2, ZenonT(30) DEF Locks, Reading, Writing, Content
<1>9. ASSUME NEW d \in Clients PROVE PastOf(d)' /\ TimesOf(d)'
  <2>1. PastOf(d) /\ TimesOf(d) /\ Clock
    BY DEF Past, Times
  <2>2. PastOf(d)'
    BY <1>2, <2>1 DEF PastOf
  <2>3. TimesOf(d)'
    BY <1>1, <1>2, <2>1 DEF TimesOf, Recent, Known
  <2>. QED BY <2>2, <2>3
<1>. QED BY <1>6, <1>7, <1>8, <1>9 DEF Past, Times

LEMMA LockKeeps == ASSUME IInv, NEW c \in Clients, Lock(c) PROVE IInv'
<1>. USE DEF IInv
<1>1. /\ pc[c] = "pending" /\ pc' \in [Clients -> Places]
      /\ \A d \in Clients : pc'[d] = IF d = c THEN "recheck" ELSE pc[d]
  BY DEF Lock, Goes, Typed, Places
<1>2. readers = {} /\ writer' = {c} /\ UNCHANGED <<now, current, svg, etag,
      renderedAt, readAt, readers, fresh, got, copy, begun>>
  BY DEF Lock, outside, cacheVars, lockVars
<1>6. Typed' /\ Clock'
  BY <1>1, <1>2, Numbers DEF Typed, Clock, Content
<1>7. Holders' /\ Locks'
  BY <1>1, <1>2, ZenonT(30) DEF Holders, Locks, Reading, Writing
<1>8. Content'
  BY <1>1, <1>2, ZenonT(30) DEF Locks, Reading, Writing, Content
<1>9. ASSUME NEW d \in Clients PROVE PastOf(d)' /\ TimesOf(d)'
  <2>1. PastOf(d) /\ TimesOf(d) /\ Clock
    BY DEF Past, Times
  <2>2. PastOf(d)'
    BY <1>2, <2>1 DEF PastOf
  <2>3. TimesOf(d)'
    BY <1>1, <1>2, <2>1 DEF TimesOf, Recent, Known
  <2>. QED BY <2>2, <2>3
<1>. QED BY <1>6, <1>7, <1>8, <1>9 DEF Past, Times

LEMMA RecheckKeeps == ASSUME IInv, NEW c \in Clients, Recheck(c) PROVE IInv'
<1>. USE DEF IInv
<1>1. /\ pc[c] = "recheck" /\ pc' \in [Clients -> Places]
      /\ \A d \in Clients :
           pc'[d] = IF d = c THEN (IF Expired THEN "co2Fn" ELSE "return") ELSE pc[d]
  BY DEF Recheck, Goes, Typed, Places
<1>2. UNCHANGED <<now, current, svg, etag, renderedAt, readAt, readers, writer, fresh,
      got, copy, begun>>
  BY DEF Recheck, outside, cacheVars, lockVars
<1>6. Typed' /\ Clock'
  BY <1>1, <1>2, Numbers DEF Typed, Clock, Content
<1>7. Holders' /\ Locks'
  BY <1>1, <1>2, ZenonT(30) DEF Holders, Locks, Reading, Writing
<1>8. Content'
  BY <1>1, <1>2, ZenonT(30) DEF Locks, Reading, Writing, Content
<1>9. ASSUME NEW d \in Clients PROVE PastOf(d)' /\ TimesOf(d)'
  <2>1. PastOf(d) /\ TimesOf(d) /\ Clock
    BY DEF Past, Times
  <2>2. PastOf(d)'
    BY <1>2, <2>1 DEF PastOf
  <2>3. TimesOf(d)'
    <3>1. CASE d = c
      <4>1. pc[d] = "recheck" /\ pc'[d] = (IF Expired THEN "co2Fn" ELSE "return")
        BY <3>1, <1>1
      <4>. QED BY <3>1, <4>1, <1>2, <2>1, Numbers, ExpiredMeans, TTLAssumption DEF
               Clock, PastOf, TimesOf, Recent, Known
    <3>2. CASE d # c
      <4>1. pc'[d] = pc[d]
        BY <3>2, <1>1
      <4>. QED BY <3>2, <4>1, <1>2, <2>1, Numbers, TTLAssumption DEF PastOf, TimesOf,
               Recent, Known
    <3>. QED BY <3>1, <3>2
  <2>. QED BY <2>2, <2>3
<1>. QED BY <1>6, <1>7, <1>8, <1>9 DEF Past, Times

LEMMA CallCO2FnKeeps == ASSUME IInv, NEW c \in Clients, CallCO2Fn(c) PROVE IInv'
<1>. USE DEF IInv
<1>1. /\ pc[c] = "co2Fn" /\ pc' \in [Clients -> Places]
      /\ \A d \in Clients : pc'[d] = IF d = c THEN "set svg" ELSE pc[d]
  BY DEF CallCO2Fn, Goes, Typed, Places
<1>2. UNCHANGED <<now, current, svg, etag, renderedAt, readAt, readers, writer, got,
      copy, begun>>
  BY DEF CallCO2Fn, outside, cacheVars, lockVars
<1>3. /\ [svg |-> Classify(current), at |-> now] \in FreshRecords
  BY Numbers, ClassifySVG, TTLAssumption DEF Typed, FreshRecords
<1>4. /\ fresh' \in [Clients -> FreshRecords]
      /\ \A d \in Clients \ {c} : fresh'[d] = fresh[d]
      /\ fresh'[c].svg \in SVGs /\ fresh'[c].at = now
  BY <1>3, ClassifySVG DEF CallCO2Fn, Typed
<1>6. Typed' /\ Clock'
  BY <1>1, <1>2, <1>4, Numbers DEF Typed, Clock, Content
<1>7. Holders' /\ Locks'
  BY <1>1, <1>2, ZenonT(30) DEF Holders, Locks, Reading, Writing
<1>8. Content'
  BY <1>1, <1>2, <1>4, ZenonT(30) DEF Locks, Reading, Writing, Content
<1>9. ASSUME NEW d \in Clients PROVE PastOf(d)' /\ TimesOf(d)'
  <2>1. PastOf(d) /\ TimesOf(d) /\ Clock
    BY DEF Past, Times
  <2>2. PastOf(d)'
    BY <1>2, <1>4, <2>1, Numbers, TTLAssumption DEF Clock, PastOf
  <2>3. TimesOf(d)'
    <3>1. CASE d = c
      <4>1. pc[d] = "co2Fn" /\ pc'[d] = "set svg"
        BY <3>1, <1>1
      <4>. QED BY <3>1, <4>1, <1>2, <1>4, <2>1, Numbers, ExpiredMeans, TTLAssumption
               DEF Clock, PastOf, TimesOf, Recent, Known
    <3>2. CASE d # c
      <4>1. pc'[d] = pc[d]
        BY <3>2, <1>1
      <4>. QED BY <3>2, <4>1, <1>2, <1>4, <2>1, Numbers, TTLAssumption DEF PastOf,
               TimesOf, Recent, Known
    <3>. QED BY <3>1, <3>2
  <2>. QED BY <2>2, <2>3
<1>. QED BY <1>6, <1>7, <1>8, <1>9 DEF Past, Times

LEMMA SetSVGKeeps == ASSUME IInv, NEW c \in Clients, SetSVG(c) PROVE IInv'
<1>. USE DEF IInv
<1>1. /\ pc[c] = "set svg" /\ pc' \in [Clients -> Places]
      /\ \A d \in Clients : pc'[d] = IF d = c THEN "set etag" ELSE pc[d]
  BY DEF SetSVG, Goes, Typed, Places
<1>2. svg' = fresh[c].svg /\ UNCHANGED <<now, current, etag, renderedAt, readAt,
      readers, writer, fresh, got, copy, begun>>
  BY DEF SetSVG, outside, cacheVars, lockVars
<1>6. Typed' /\ Clock'
  BY <1>1, <1>2, Numbers DEF Typed, Clock, Content
<1>7. Holders' /\ Locks'
  BY <1>1, <1>2, ZenonT(30) DEF Holders, Locks, Reading, Writing
<1>8. Content'
  BY <1>1, <1>2, ZenonT(30) DEF Locks, Reading, Writing, Content
<1>9. ASSUME NEW d \in Clients PROVE PastOf(d)' /\ TimesOf(d)'
  <2>1. PastOf(d) /\ TimesOf(d) /\ Clock
    BY DEF Past, Times
  <2>2. PastOf(d)'
    BY <1>2, <2>1 DEF PastOf
  <2>3. TimesOf(d)'
    BY <1>1, <1>2, <2>1 DEF TimesOf, Recent, Known
  <2>. QED BY <2>2, <2>3
<1>. QED BY <1>6, <1>7, <1>8, <1>9 DEF Past, Times

LEMMA SetETagKeeps == ASSUME IInv, NEW c \in Clients, SetETag(c) PROVE IInv'
<1>. USE DEF IInv
<1>1. /\ pc[c] = "set etag" /\ pc' \in [Clients -> Places]
      /\ \A d \in Clients : pc'[d] = IF d = c THEN "set time" ELSE pc[d]
  BY DEF SetETag, Goes, Typed, Places
<1>2. etag' = ETagOf(fresh[c].svg) /\ UNCHANGED <<now, current, svg, renderedAt,
      readAt, readers, writer, fresh, got, copy, begun>>
  BY DEF SetETag, outside, cacheVars, lockVars
<1>6. Typed' /\ Clock'
  BY <1>1, <1>2, Numbers DEF Typed, Clock, Content
<1>7. Holders' /\ Locks'
  BY <1>1, <1>2, ZenonT(30) DEF Holders, Locks, Reading, Writing
<1>8. Content'
  BY <1>1, <1>2, ZenonT(30) DEF Locks, Reading, Writing, Content
<1>9. ASSUME NEW d \in Clients PROVE PastOf(d)' /\ TimesOf(d)'
  <2>1. PastOf(d) /\ TimesOf(d) /\ Clock
    BY DEF Past, Times
  <2>2. PastOf(d)'
    BY <1>2, <2>1 DEF PastOf
  <2>3. TimesOf(d)'
    BY <1>1, <1>2, <2>1 DEF TimesOf, Recent, Known
  <2>. QED BY <2>2, <2>3
<1>. QED BY <1>6, <1>7, <1>8, <1>9 DEF Past, Times

LEMMA SetTimeKeeps == ASSUME IInv, NEW c \in Clients, SetTime(c) PROVE IInv'
<1>. USE DEF IInv
<1>1. /\ pc[c] = "set time" /\ pc' \in [Clients -> Places]
      /\ \A d \in Clients : pc'[d] = IF d = c THEN "return" ELSE pc[d]
  BY DEF SetTime, Goes, Typed, Places
<1>2. renderedAt' = now /\ readAt' = fresh[c].at /\ UNCHANGED <<now, current, svg,
      etag, readers, writer, got, copy, begun>>
  BY DEF SetTime, outside, cacheVars, lockVars
<1>3. /\ Unread \in FreshRecords
  BY Numbers, ClassifySVG, TTLAssumption DEF Unread, FreshRecords
<1>4. /\ fresh' \in [Clients -> FreshRecords]
      /\ \A d \in Clients \ {c} : fresh'[d] = fresh[d]
      /\ fresh'[c].at = 0
  BY <1>3, ClassifySVG DEF SetTime, Typed, Unread
<1>6. Typed' /\ Clock'
  <2>1. Clock'
    BY <1>2, Numbers DEF Clock, Past, PastOf
  <2>2. Typed'
    BY <1>1, <1>2, <1>4, Numbers DEF Typed
  <2>. QED BY <2>1, <2>2
<1>7. Holders' /\ Locks'
  BY <1>1, <1>2, ZenonT(30) DEF Holders, Locks, Reading, Writing
<1>8. Content'
  BY <1>1, <1>2, <1>4, ZenonT(30) DEF Locks, Reading, Writing, Content
<1>9. ASSUME NEW d \in Clients PROVE PastOf(d)' /\ TimesOf(d)'
  <2>1. PastOf(d) /\ TimesOf(d) /\ Clock
    BY DEF Past, Times
  <2>2. PastOf(d)'
    BY <1>2, <1>4, <2>1, Numbers, TTLAssumption DEF Clock, PastOf
  \* The reading was made after the last rendering had expired.
  <2>3. fresh[c].at >= renderedAt + TTL
    BY <1>1 DEF Times, TimesOf
  <2>4. pc[d] \notin {"idle", "answer"} => Known(d, now, fresh[c].at)
    <3>1. Known(d, renderedAt, readAt) => begun[d].expiry <= renderedAt + TTL
      BY Numbers, TTLAssumption DEF Known
    <3>2. Known(d, renderedAt, readAt) => Known(d, now, fresh[c].at)
      BY <2>1, <2>3, <3>1, Numbers, TTLAssumption DEF PastOf, Known
    <3>. QED BY <2>1, <3>2 DEF TimesOf
  <2>5. Recent(d, now)
    BY <2>1, Numbers, TTLAssumption DEF PastOf, Recent
  <2>6. TimesOf(d)'
    <3>1. CASE d = c
      <4>1. pc[d] = "set time" /\ pc'[d] = "return"
        BY <3>1, <1>1
      <4>. QED BY <4>1, <1>2, <2>4, <2>5 DEF TimesOf, Recent, Known
    \* Another client is not inside the lock.
    <3>2. CASE d # c
      <4>1. pc'[d] = pc[d] /\ ~Reading(d) /\ ~Writing(d)
        BY <3>2, <1>1 DEF Locks, Writing
      <4>. QED BY <4>1, <1>2, <2>1, <2>4 DEF TimesOf, Recent, Known, Reading, Writing
    <3>. QED BY <3>1, <3>2
  <2>. QED BY <2>2, <2>6
<1>. QED BY <1>6, <1>7, <1>8, <1>9 DEF Past, Times

LEMMA ReturnKeeps == ASSUME IInv, NEW c \in Clients, Return(c) PROVE IInv'
<1>. USE DEF IInv
<1>1. /\ pc[c] = "return" /\ pc' \in [Clients -> Places]
      /\ \A d \in Clients : pc'[d] = IF d = c THEN "answer" ELSE pc[d]
  BY DEF Return, Goes, Typed, Places
<1>2. writer' = {} /\ UNCHANGED <<now, current, svg, etag, renderedAt, readAt,
      readers, fresh, copy, begun>>
  BY DEF Return, outside, cacheVars, lockVars
<1>3. /\ Answer(svg, etag) \in GotRecords
  BY Numbers, ClassifySVG, TTLAssumption DEF Typed, Answer, GotRecords, ETags
<1>4. /\ got' \in [Clients -> GotRecords]
      /\ \A d \in Clients \ {c} : got'[d] = got[d]
      /\ got'[c].svg = svg /\ got'[c].etag = etag
      /\ got'[c].rendered = renderedAt /\ got'[c].read = readAt
  BY <1>3, ClassifySVG DEF Return, Typed, Answer
<1>6. Typed' /\ Clock'
  BY <1>1, <1>2, <1>4, Numbers DEF Typed, Clock, Content
<1>7. Holders' /\ Locks'
  BY <1>1, <1>2, ZenonT(30) DEF Holders, Locks, Reading, Writing
<1>8. Content'
  BY <1>1, <1>2, <1>4, ZenonT(30) DEF Locks, Reading, Writing, Content
<1>9. ASSUME NEW d \in Clients PROVE PastOf(d)' /\ TimesOf(d)'
  <2>1. PastOf(d) /\ TimesOf(d) /\ Clock
    BY DEF Past, Times
  <2>2. PastOf(d)'
    BY <1>2, <1>4, <2>1, Numbers, TTLAssumption DEF Clock, PastOf
  <2>3. TimesOf(d)'
    <3>1. CASE d = c
      <4>1. pc[d] = "return" /\ pc'[d] = "answer"
        BY <3>1, <1>1
      <4>. QED BY <3>1, <4>1, <1>2, <1>4, <2>1, Numbers, ExpiredMeans, TTLAssumption
               DEF Clock, PastOf, TimesOf, Recent, Known
    <3>2. CASE d # c
      <4>1. pc'[d] = pc[d]
        BY <3>2, <1>1
      <4>. QED BY <3>2, <4>1, <1>2, <1>4, <2>1, Numbers, TTLAssumption DEF PastOf,
               TimesOf, Recent, Known
    <3>. QED BY <3>1, <3>2
  <2>. QED BY <2>2, <2>3
<1>. QED BY <1>6, <1>7, <1>8, <1>9 DEF Past, Times

LEMMA CO2FnPanicsKeeps == ASSUME IInv, NEW c \in Clients, CO2FnPanics(c) PROVE IInv'
<1>. USE DEF IInv
<1>1. /\ pc[c] = "co2Fn" /\ pc' \in [Clients -> Places]
      /\ \A d \in Clients : pc'[d] = IF d = c THEN "idle" ELSE pc[d]
  BY DEF CO2FnPanics, Goes, Typed, Places
<1>2. writer' = {} /\ UNCHANGED <<now, current, svg, etag, renderedAt, readAt,
      readers, fresh, copy>>
  BY DEF CO2FnPanics, outside, cacheVars, lockVars
<1>3. /\ NoAnswer \in GotRecords
      /\ NotBegun \in BegunRecords
  BY Numbers, ClassifySVG, TTLAssumption DEF NoAnswer, NotBegun, GotRecords,
     BegunRecords, ETags
<1>4. /\ got' \in [Clients -> GotRecords]
      /\ \A d \in Clients \ {c} : got'[d] = got[d]
      /\ begun' \in [Clients -> BegunRecords]
      /\ \A d \in Clients \ {c} : begun'[d] = begun[d]
      /\ got'[c].rendered = 0 /\ got'[c].read = 0
      /\ begun'[c].at = 0 /\ begun'[c].expiry = 0
  BY <1>3, ClassifySVG DEF CO2FnPanics, Typed, Forget, NoAnswer, NotBegun
<1>6. Typed' /\ Clock'
  BY <1>1, <1>2, <1>4, Numbers DEF Typed, Clock, Content
<1>7. Holders' /\ Locks'
  BY <1>1, <1>2, ZenonT(30) DEF Holders, Locks, Reading, Writing
<1>8. Content'
  BY <1>1, <1>2, <1>4, ZenonT(30) DEF Locks, Reading, Writing, Content
<1>9. ASSUME NEW d \in Clients PROVE PastOf(d)' /\ TimesOf(d)'
  <2>1. PastOf(d) /\ TimesOf(d) /\ Clock
    BY DEF Past, Times
  <2>2. PastOf(d)'
    BY <1>2, <1>4, <2>1, Numbers, TTLAssumption DEF Clock, PastOf
  <2>3. TimesOf(d)'
    <3>1. CASE d = c
      <4>1. pc[d] = "co2Fn" /\ pc'[d] = "idle"
        BY <3>1, <1>1
      <4>. QED BY <3>1, <4>1, <1>2, <1>4, <2>1, Numbers, ExpiredMeans, TTLAssumption
               DEF Clock, PastOf, TimesOf, Recent, Known
    <3>2. CASE d # c
      <4>1. pc'[d] = pc[d]
        BY <3>2, <1>1
      <4>. QED BY <3>2, <4>1, <1>2, <1>4, <2>1, Numbers, TTLAssumption DEF PastOf,
               TimesOf, Recent, Known
    <3>. QED BY <3>1, <3>2
  <2>. QED BY <2>2, <2>3
<1>. QED BY <1>6, <1>7, <1>8, <1>9 DEF Past, Times

LEMMA RespondKeeps == ASSUME IInv, NEW c \in Clients, Respond(c) PROVE IInv'
<1>. USE DEF IInv
<1>1. /\ pc[c] = "answer" /\ pc' \in [Clients -> Places]
      /\ \A d \in Clients : pc'[d] = IF d = c THEN "idle" ELSE pc[d]
  BY DEF Respond, Goes, Typed, Places
<1>2. UNCHANGED <<now, current, svg, etag, renderedAt, readAt, readers, writer,
      fresh>>
  BY DEF Respond, outside, cacheVars, lockVars
<1>3. /\ NoAnswer \in GotRecords
      /\ NotBegun \in BegunRecords
  BY Numbers, ClassifySVG, TTLAssumption DEF NoAnswer, NotBegun, GotRecords,
     BegunRecords, ETags
<1>4. /\ got' \in [Clients -> GotRecords]
      /\ \A d \in Clients \ {c} : got'[d] = got[d]
      /\ begun' \in [Clients -> BegunRecords]
      /\ \A d \in Clients \ {c} : begun'[d] = begun[d]
      /\ got'[c].rendered = 0 /\ got'[c].read = 0
      /\ begun'[c].at = 0 /\ begun'[c].expiry = 0
  BY <1>3, ClassifySVG DEF Respond, Typed, Forget, NoAnswer, NotBegun, NotModified, OK
<1>5. /\ copy' \in [Clients -> CopyRecords]
      /\ \A d \in Clients \ {c} : copy'[d] = copy[d]
      /\ copy'[c] = copy[c] \/ (copy'[c].svg = got[c].svg /\ copy'[c].etag = got[c].etag)
  <2>1. got[c].svg \in SVGs \cup {Nobody} /\ got[c].etag \in ETags
    BY DEF Typed, GotRecords
  <2>2. [svg |-> got[c].svg, etag |-> got[c].etag] \in CopyRecords
    BY <2>1 DEF CopyRecords
  <2>3. CASE NotModified(c)
    BY <2>3 DEF NotModified, Typed
  <2>4. CASE OK(c)
    BY <2>2, <2>4 DEF OK, Typed
  <2>. QED BY <2>3, <2>4 DEF Respond
<1>6. Typed' /\ Clock'
  BY <1>1, <1>2, <1>4, <1>5, Numbers DEF Typed, Clock, Content
<1>7. Holders' /\ Locks'
  BY <1>1, <1>2, ZenonT(30) DEF Holders, Locks, Reading, Writing
<1>8. Content'
  <2>1. \A d \in Clients : pc'[d] = pc[d] \/ pc'[d] = "idle"
    BY <1>1
  <2>2. ASSUME NEW d \in Clients PROVE copy'[d].etag = ETagOf(copy'[d].svg)
    BY <1>1, <1>5 DEF Content
  <2>3. (\A d \in Clients : pc'[d] # "set etag") => etag' = ETagOf(svg')
    BY <1>1, <1>2 DEF Content
  <2>4. ASSUME NEW d \in Clients
        PROVE  /\ pc'[d] \in {"set svg", "set etag", "set time"} => fresh'[d].svg \in SVGs
               /\ pc'[d] = "set etag" => svg' = fresh'[d].svg
    BY <2>1, <1>2 DEF Content
  <2>5. ASSUME NEW d \in Clients
        PROVE  /\ pc'[d] = "copy etag" => got'[d].svg = svg'
               /\ pc'[d] = "answer" => got'[d].etag = ETagOf(got'[d].svg)
    BY <1>1, <1>2, <1>4 DEF Content
  <2>. QED BY <2>2, <2>3, <2>4, <2>5 DEF Content
<1>9. ASSUME NEW d \in Clients PROVE PastOf(d)' /\ TimesOf(d)'
  <2>1. PastOf(d) /\ TimesOf(d) /\ Clock
    BY DEF Past, Times
  <2>2. PastOf(d)'
    BY <1>2, <1>4, <1>5, <2>1, Numbers, TTLAssumption DEF Clock, PastOf
  <2>3. TimesOf(d)'
    <3>1. CASE d = c
      <4>1. pc[d] = "answer" /\ pc'[d] = "idle"
        BY <3>1, <1>1
      <4>. QED BY <3>1, <4>1, <1>2, <1>4, <1>5, <2>1, Numbers, ExpiredMeans,
               TTLAssumption DEF Clock, PastOf, TimesOf, Recent, Known
    <3>2. CASE d # c
      <4>1. pc'[d] = pc[d]
        BY <3>2, <1>1
      <4>. QED BY <3>2, <4>1, <1>2, <1>4, <1>5, <2>1, Numbers, TTLAssumption DEF
               PastOf, TimesOf, Recent, Known
    <3>. QED BY <3>1, <3>2
  <2>. QED BY <2>2, <2>3
<1>. QED BY <1>6, <1>7, <1>8, <1>9 DEF Past, Times

------------------------------------------------------------------------------
LEMMA Inductive == IInv /\ [Next]_vars => IInv'
<1>. SUFFICES ASSUME IInv, [Next]_vars PROVE IInv'
  OBVIOUS
<1>1. ASSUME NEW c \in Clients, Begin(c) \/ RLock(c) \/ Announce(c) \/ Steps(c)
      PROVE  IInv'
  BY <1>1, BeginKeeps, RLockKeeps, AnnounceKeeps, CheckExpiredKeeps, CheckValidKeeps,
     CopySVGKeeps, CopyETagKeeps, LockKeeps, RecheckKeeps, CallCO2FnKeeps,
     CO2FnPanicsKeeps, SetSVGKeeps, SetETagKeeps, SetTimeKeeps, ReturnKeeps, RespondKeeps
     DEF Steps
\* Time only makes what is past older and what is expired no younger.
<1>2. CASE Tick
  <2>1. now' = now + 1 /\ now' \in 0..MaxTime /\ UNCHANGED <<current, cacheVars,
          lockVars, pc, fresh, got, copy, begun>>
    BY <1>2, TimeAssumption DEF Tick, IInv, Typed
  <2>2. Typed'
    BY <2>1 DEF cacheVars, lockVars, IInv, Typed
  <2>3. Holders' /\ Locks' /\ Content'
    BY <2>1 DEF cacheVars, lockVars, IInv, Holders, Locks, Content, Reading, Writing
  <2>4. Clock'
    BY <2>1, Numbers DEF cacheVars, IInv, Clock
  <2>5. ASSUME NEW c \in Clients PROVE PastOf(c)'
    BY <2>1, Numbers, TTLAssumption DEF IInv, Past, PastOf
  <2>6. ASSUME NEW c \in Clients PROVE TimesOf(c)'
    <3>1. now >= renderedAt + TTL => now' >= renderedAt + TTL
      BY <2>1, Numbers, TTLAssumption DEF IInv
    <3>. QED BY <2>1, <3>1 DEF cacheVars, IInv, Times, TimesOf, Recent, Known
  <2>. QED BY <2>2, <2>3, <2>4, <2>5, <2>6 DEF IInv, Past, Times
<1>3. CASE ReadingChanges
  BY <1>3 DEF ReadingChanges, cacheVars, lockVars, IInv, Typed, Clock, Past, PastOf,
     Holders, Locks, Content, Times, TimesOf, Recent, Known, Reading, Writing
<1>4. CASE UNCHANGED vars
  BY <1>4 DEF vars, outside, cacheVars, lockVars, IInv, Typed, Clock, Past, PastOf,
     Holders, Locks, Content, Times, TimesOf, Recent, Known, Reading, Writing
<1>. QED BY <1>1, <1>2, <1>3, <1>4 DEF Next

THEOREM Invariance == Spec => []IInv
BY Initially, Inductive, PTL DEF Spec

------------------------------------------------------------------------------
(* What follows *)

\* Every variable keeps its type, and the RWMutex its readers or its writer.
THEOREM TypeCorrectness == Spec => []TypeOK
<1>1. IInv => TypeOK
  <2>. SUFFICES ASSUME IInv PROVE TypeOK
    OBVIOUS
  <2>1. renderedAt \in 0..now /\ readAt \in 0..renderedAt
    BY Numbers DEF IInv, Clock
  <2>2. ASSUME NEW c \in Clients
        PROVE  /\ fresh[c].at \in 0..now
               /\ got[c].rendered \in 0..now /\ got[c].read \in 0..now
               /\ begun[c].at \in 0..now /\ begun[c].expiry \in 0..(now + TTL)
    <3>1. PastOf(c)
      BY DEF IInv, Past
    <3>2. /\ now \in Nat /\ fresh[c].at \in Nat
          /\ got[c].rendered \in Nat /\ got[c].read \in Nat
      BY Numbers DEF IInv
    <3>3. begun[c].at \in Nat /\ begun[c].expiry \in Nat
      BY Numbers DEF IInv
    <3>. QED BY <3>1, <3>2, <3>3, TTLAssumption DEF PastOf
  <2>3. fresh \in [Clients -> [svg : SVGs \cup {Nobody}, at : 0..now]]
    BY <2>2 DEF IInv, Typed, FreshRecords
  <2>4. got \in [Clients -> [svg : SVGs \cup {Nobody}, etag : ETags,
                             rendered : 0..now, read : 0..now]]
    BY <2>2 DEF IInv, Typed, GotRecords
  <2>5. begun \in [Clients -> [at : 0..now, expiry : 0..(now + TTL)]]
    BY <2>2 DEF IInv, Typed, BegunRecords
  <2>. QED BY <2>1, <2>3, <2>4, <2>5 DEF TypeOK, IInv, Typed, Holders, CopyRecords, ETags
<1>. QED BY <1>1, Invariance, PTL

\* An answer's ETag is its SVG's, whoever refreshed meanwhile, and a 304 is sent to
\* a client that shows that SVG already.
THEOREM ETagsTell == Spec => []ETagTellsSVG
<1>1. \A s, t : ETagOf(s) = ETagOf(t) => s = t
  BY DEF ETagOf
<1>2. IInv => ETagTellsSVG
  <2>1. ASSUME IInv, NEW c \in Clients, pc[c] = "answer"
        PROVE  got[c].etag = ETagOf(got[c].svg) /\ copy[c].etag = ETagOf(copy[c].svg)
    BY <2>1 DEF IInv, Content
  <2>. QED BY <1>1, <2>1 DEF ETagTellsSVG
<1>. QED BY <1>2, Invariance, PTL

\* No answer is older than the TTL when it is asked for.
THEOREM AlwaysFresh == Spec => []ServedFresh
<1>1. IInv => ServedFresh
  <2>. SUFFICES ASSUME IInv, NEW c \in Clients, pc[c] = "answer"
                PROVE  /\ got[c].rendered > begun[c].at - TTL
                       /\ begun[c].at >= begun[c].expiry => got[c].read >= begun[c].expiry
    BY DEF ServedFresh
  <2>1. Recent(c, got[c].rendered) /\ Known(c, got[c].rendered, got[c].read)
    BY DEF IInv, Times, TimesOf
  <2>2. /\ got[c].rendered \in Nat /\ got[c].read \in Nat
        /\ begun[c].at \in Nat /\ begun[c].expiry \in Nat
    BY Numbers DEF IInv
  <2>. QED BY <2>1, <2>2, TTLAssumption DEF Recent, Known
<1>. QED BY <1>1, Invariance, PTL

\* Only SetTime moves the time of the rendering, and by then a TTL has passed.
THEOREM OneRefreshPerTTL == Spec => RefreshOncePerTTL
<1>1. IInv /\ [Next]_vars =>
        [renderedAt' # renderedAt \/ readAt' # readAt
           => readAt' >= renderedAt + TTL]_<<renderedAt, readAt>>
  <2>. SUFFICES ASSUME IInv, [Next]_vars, ~ UNCHANGED <<renderedAt, readAt>>
                PROVE  readAt' >= renderedAt + TTL
    OBVIOUS
  <2>1. PICK c \in Clients : SetTime(c)
    BY DEF Next, Begin, RLock, Announce, Steps, CheckExpired, CheckValid, CopySVG,
       CopyETag, Lock, Recheck, CallCO2Fn, CO2FnPanics, SetSVG, SetETag, Return, Respond,
       Tick, ReadingChanges, vars, cacheVars
  <2>. QED BY <2>1 DEF SetTime, Goes, IInv, Times, TimesOf
<1>. QED BY <1>1, Invariance, PTL DEF Spec, RefreshOncePerTTL

------------------------------------------------------------------------------
(* The cache is one SVG to its clients. *)

Stages == [c \in Clients |-> Stage(c)]
ToldAll == [c \in Clients |-> ToldTo(c)]
ShownAll == [c \in Clients |-> copy[c].svg]

\* Stage, now and in the next state, without CASE.
LEMMA StageIs ==
  ASSUME NEW c
  PROVE  /\ Stage(c) = IF pc[c] = "idle" THEN "idle"
                       ELSE IF pc[c] = "answer" THEN "told" ELSE "asked"
         /\ Stage(c)' = IF pc'[c] = "idle" THEN "idle"
                        ELSE IF pc'[c] = "answer" THEN "told" ELSE "asked"
<1>1. Stage(c) = IF pc[c] = "idle" THEN "idle"
                 ELSE IF pc[c] = "answer" THEN "told" ELSE "asked"
  <2>1. CASE pc[c] = "idle"
    BY <2>1 DEF Stage
  <2>2. CASE pc[c] = "answer"
    BY <2>2 DEF Stage
  <2>3. CASE pc[c] # "idle" /\ pc[c] # "answer"
    BY <2>3 DEF Stage
  <2>. QED BY <2>1, <2>2, <2>3
<1>2. Stage(c)' = IF pc'[c] = "idle" THEN "idle"
                  ELSE IF pc'[c] = "answer" THEN "told" ELSE "asked"
  <2>1. CASE pc'[c] = "idle"
    BY <2>1 DEF Stage
  <2>2. CASE pc'[c] = "answer"
    BY <2>2 DEF Stage
  <2>3. CASE pc'[c] # "idle" /\ pc'[c] # "answer"
    BY <2>3 DEF Stage
  <2>. QED BY <2>1, <2>2, <2>3
<1>. QED BY <1>1, <1>2

\* A step of one client moves that client's stage and nobody else's.
LEMMA OneStage ==
  ASSUME Typed, NEW c \in Clients, NEW p, pc' = [pc EXCEPT ![c] = p]
  PROVE  /\ Stages' = [Stages EXCEPT ![c] = IF p = "idle" THEN "idle"
                                            ELSE IF p = "answer" THEN "told" ELSE "asked"]
         /\ \A d \in Clients \ {c} : pc'[d] = pc[d]
         /\ pc'[c] = p
<1>1. \A d \in Clients : pc'[d] = IF d = c THEN p ELSE pc[d]
  BY DEF Typed
<1>2. ASSUME NEW d \in Clients
      PROVE  Stage(d)' = IF d = c THEN (IF p = "idle" THEN "idle"
                                        ELSE IF p = "answer" THEN "told" ELSE "asked")
                         ELSE Stage(d)
  BY <1>1, StageIs
<1>. QED BY <1>1, <1>2 DEF Stages

\* Inside the cache nothing is seen but the write of svg.
LEMMA InsideUnseen ==
  ASSUME Typed, NEW c \in Clients, NEW p, pc' = [pc EXCEPT ![c] = p],
         pc[c] \notin {"idle", "answer"}, p \notin {"idle", "answer"},
         \A d \in Clients \ {c} : got'[d] = got[d], copy' = copy
  PROVE  UNCHANGED <<Stages, ToldAll, ShownAll>> /\ Stage(c) = "asked"
<1>1. Stage(c) = "asked"
  BY StageIs
<1>2. Stages' = [Stages EXCEPT ![c] = "asked"] /\ Stages[c] = "asked"
  BY <1>1, OneStage DEF Stages
<1>3. Stages' = Stages
  BY <1>2 DEF Stages
<1>4. ASSUME NEW d \in Clients PROVE ToldTo(d)' = ToldTo(d)
  BY OneStage DEF ToldTo
<1>. QED BY <1>1, <1>3, <1>4 DEF ToldAll, ShownAll

LEMMA QuietSteps ==
  ASSUME IInv, NEW c \in Clients,
         \/ RLock(c) \/ Announce(c) \/ CheckExpired(c) \/ CheckValid(c) \/ CopySVG(c)
         \/ Lock(c) \/ Recheck(c) \/ CallCO2Fn(c) \/ SetETag(c) \/ SetTime(c)
  PROVE  UNCHANGED OneBadge!vars
<1>1. Typed
  BY DEF IInv
<1>2. PICK p \in Places \ {"idle", "answer"} :
        pc' = [pc EXCEPT ![c] = p] /\ pc[c] \notin {"idle", "answer"}
  BY DEF RLock, Announce, CheckExpired, CheckValid, CopySVG, Lock, Recheck, CallCO2Fn,
     SetETag, SetTime, Goes, Places
<1>3. \A d \in Clients \ {c} : got'[d] = got[d]
  BY <1>1 DEF RLock, Announce, CheckExpired, CheckValid, CopySVG, Lock, Recheck,
     CallCO2Fn, SetETag, SetTime, Typed
<1>4. copy' = copy /\ svg' = svg
  BY DEF RLock, Announce, CheckExpired, CheckValid, CopySVG, Lock, Recheck, CallCO2Fn,
     SetETag, SetTime, cacheVars
<1>5. UNCHANGED <<Stages, ToldAll, ShownAll>>
  BY <1>1, <1>2, <1>3, <1>4, InsideUnseen
<1>. QED BY <1>4, <1>5 DEF OneBadge!vars, Stages, ToldAll, ShownAll

LEMMA WriteIsReplace ==
  ASSUME IInv, NEW c \in Clients, SetSVG(c) PROVE OneBadge!Replace(c)
<1>1. /\ pc[c] = "set svg" /\ pc' = [pc EXCEPT ![c] = "set etag"]
      /\ svg' = fresh[c].svg /\ copy' = copy /\ got' = got
  BY DEF SetSVG, Goes
<1>2. svg' \in SVGs
  BY <1>1 DEF IInv, Content
<1>3. UNCHANGED <<Stages, ToldAll, ShownAll>> /\ Stage(c) = "asked"
  <2>1. Typed
    BY DEF IInv
  <2>2. PICK p \in Places \ {"idle", "answer"} :
          pc' = [pc EXCEPT ![c] = p] /\ pc[c] \notin {"idle", "answer"}
    BY <1>1 DEF Places
  <2>. QED BY <1>1, <2>1, <2>2, InsideUnseen
<1>. QED BY <1>2, <1>3 DEF OneBadge!Replace, Stages, ToldAll, ShownAll

LEMMA BeginIsAsk ==
  ASSUME IInv, NEW c \in Clients, Begin(c) PROVE OneBadge!Ask(c)
<1>1. /\ pc[c] = "idle" /\ pc' = [pc EXCEPT ![c] = "read lock"]
      /\ svg' = svg /\ copy' = copy /\ got' = got
  BY DEF Begin, Goes, cacheVars
<1>2. Stage(c) = "idle" /\ Stages' = [Stages EXCEPT ![c] = "asked"]
  <2>1. Typed
    BY DEF IInv
  <2>2. Stage(c) = "idle"
    BY <1>1, StageIs
  <2>. QED BY <1>1, <2>1, <2>2, OneStage
<1>3. \A d \in Clients : pc'[d] = pc[d] \/ (pc[d] # "answer" /\ pc'[d] # "answer")
  BY <1>1, OneStage DEF IInv
<1>4. ToldAll' = ToldAll
  BY <1>1, <1>3 DEF ToldAll, ToldTo
<1>. QED BY <1>1, <1>2, <1>4 DEF OneBadge!Ask, OneBadge!Goes, Stages, ToldAll

\* Between the reads of svg and of etag the read lock keeps svg as it is.
LEMMA UnlockIsRead ==
  ASSUME IInv, NEW c \in Clients, CopyETag(c) \/ Return(c) PROVE OneBadge!Read(c)
<1>1. /\ pc[c] \in {"copy etag", "return"} /\ pc' = [pc EXCEPT ![c] = "answer"]
      /\ svg' = svg /\ copy' = copy
  BY DEF CopyETag, Return, Goes, cacheVars
<1>2. got'[c].svg = svg /\ \A d \in Clients \ {c} : got'[d] = got[d]
  <2>1. got \in [Clients -> GotRecords] /\ got[c] \in GotRecords
    BY DEF IInv, Typed
  <2>2. CASE CopyETag(c)
    <3>1. got[c].svg = svg
      BY <2>2 DEF CopyETag, Goes, IInv, Content
    <3>2. got' = [got EXCEPT ![c].etag = etag]
      BY <2>2 DEF CopyETag
    <3>. QED BY <2>1, <3>1, <3>2 DEF GotRecords
  <2>3. CASE Return(c)
    BY <2>1, <2>3 DEF Return, Answer
  <2>. QED BY <2>2, <2>3
<1>3. Stage(c) = "asked" /\ Stages' = [Stages EXCEPT ![c] = "told"]
  BY <1>1, StageIs, OneStage DEF IInv
<1>4. ASSUME NEW d \in Clients PROVE ToldTo(d)' = IF d = c THEN svg ELSE ToldTo(d)
  BY <1>1, <1>2, OneStage DEF IInv, ToldTo
<1>5. ToldAll' = [ToldAll EXCEPT ![c] = svg]
  BY <1>4 DEF ToldAll
<1>. QED BY <1>1, <1>3, <1>5 DEF OneBadge!Read, OneBadge!Goes, Stages, ToldAll

LEMMA PanicIsGiveUp ==
  ASSUME IInv, NEW c \in Clients, CO2FnPanics(c) PROVE OneBadge!GiveUp(c)
<1>1. /\ pc[c] = "co2Fn" /\ pc' = [pc EXCEPT ![c] = "idle"]
      /\ svg' = svg /\ copy' = copy /\ got' = [got EXCEPT ![c] = NoAnswer]
  BY DEF CO2FnPanics, Forget, Goes, cacheVars
<1>2. Stage(c) = "asked" /\ Stages' = [Stages EXCEPT ![c] = "idle"]
  BY <1>1, StageIs, OneStage DEF IInv
<1>3. ASSUME NEW d \in Clients PROVE ToldTo(d)' = ToldTo(d)
  <2>1. d # c => got'[d] = got[d]
    BY <1>1 DEF IInv, Typed
  <2>. QED BY <1>1, <2>1, OneStage DEF IInv, ToldTo
<1>. QED BY <1>1, <1>2, <1>3 DEF OneBadge!GiveUp, OneBadge!Goes, Stages

\* A 304 leaves a copy that is the SVG it stands for, as ETags tell SVGs.
LEMMA RespondIsShow ==
  ASSUME IInv, NEW c \in Clients, Respond(c) PROVE OneBadge!Show(c)
<1>1. /\ pc[c] = "answer" /\ pc' = [pc EXCEPT ![c] = "idle"]
      /\ svg' = svg /\ got' = [got EXCEPT ![c] = NoAnswer]
  BY DEF Respond, Forget, Goes, cacheVars
<1>2. copy'[c].svg = got[c].svg /\ \A d \in Clients \ {c} : copy'[d] = copy[d]
  <2>1. got[c].etag = ETagOf(got[c].svg) /\ copy[c].etag = ETagOf(copy[c].svg)
    BY <1>1 DEF IInv, Content
  <2>2. CASE NotModified(c)
    BY <2>1, <2>2 DEF NotModified, ETagOf
  <2>3. CASE OK(c)
    BY <2>3 DEF OK, IInv, Typed
  <2>. QED BY <2>2, <2>3 DEF Respond
<1>3. Stage(c) = "told" /\ Stages' = [Stages EXCEPT ![c] = "idle"]
  BY <1>1, StageIs, OneStage DEF IInv
<1>4. ASSUME NEW d \in Clients PROVE ToldTo(d)' = IF d = c THEN Nobody ELSE ToldTo(d)
  <2>1. d # c => got'[d] = got[d]
    BY <1>1 DEF IInv, Typed
  <2>2. pc'[d] = IF d = c THEN "idle" ELSE pc[d]
    BY <1>1 DEF IInv, Typed
  <2>. QED BY <2>1, <2>2 DEF ToldTo
<1>5. ToldAll' = [ToldAll EXCEPT ![c] = Nobody] /\ ToldTo(c) = got[c].svg
  BY <1>1, <1>4 DEF ToldAll, ToldTo
<1>6. ShownAll' = [ShownAll EXCEPT ![c] = got[c].svg]
  BY <1>2 DEF ShownAll
<1>. QED BY <1>1, <1>3, <1>5, <1>6 DEF OneBadge!Show, OneBadge!Goes, Stages, ToldAll,
     ShownAll

LEMMA OneBadgeStep == IInv /\ [Next]_vars => [OneBadge!Next]_(OneBadge!vars)
<1>. SUFFICES ASSUME IInv, [Next]_vars PROVE [OneBadge!Next]_(OneBadge!vars)
  OBVIOUS
<1>1. ASSUME NEW c \in Clients, Begin(c) \/ RLock(c) \/ Announce(c) \/ Steps(c)
      PROVE  [OneBadge!Next]_(OneBadge!vars)
  BY <1>1, QuietSteps, WriteIsReplace, BeginIsAsk, UnlockIsRead, PanicIsGiveUp,
     RespondIsShow DEF Steps, OneBadge!Next
<1>2. CASE Tick \/ ReadingChanges \/ UNCHANGED vars
  <2>1. UNCHANGED <<svg, pc, got, copy>>
    BY <1>2 DEF Tick, ReadingChanges, vars, cacheVars
  <2>. QED BY <2>1 DEF OneBadge!vars, Stage, ToldTo
<1>. QED BY <1>1, <1>2 DEF Next

\* The badge is one SVG that is replaced and read in one step, and a client shows what
\* its request has read of it, however requests overlap and refresh, and whether it
\* is answered 304 or 200 (cache.go:56-101, badge.go:42-62).
THEOREM BadgeIsAtomic == Spec => ImplementsOneBadge
<1>1. Init => OneBadge!Init
  <2>. SUFFICES ASSUME Init PROVE OneBadge!Init
    OBVIOUS
  <2>1. svg \in SVGs
    BY ClassifySVG DEF Init
  <2>2. ASSUME NEW c \in Clients PROVE Stage(c) = "idle"
    BY StageIs DEF Init
  <2>. QED BY <2>1, <2>2 DEF Init, OneBadge!Init, ToldTo, NoCopy
<1>2. IInv /\ [Next]_vars => [OneBadge!Next]_(OneBadge!vars)
  BY OneBadgeStep
<1>. QED BY <1>1, <1>2, Invariance, PTL DEF Spec, OneBadge!Spec, ImplementsOneBadge
==============================================================================
