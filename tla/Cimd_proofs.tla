------------------------------ MODULE Cimd_proofs ------------------------------
(***************************************************************************)
(* The resolution of a client metadata document, for any number of         *)
(* resolutions over one cache, any URLs and origins, any limits, and a     *)
(* server and a DNS that may answer anything at any time.                  *)
(***************************************************************************)
EXTENDS Cimd, TLAPS

USE CimdAssumption, NoneAssumption

Resolution ==
  [pc : Waiting \cup {"idle", "done"}, id : Url \cup {None}, current : Url \cup {None},
   hops : 0..MaxRedirects, total : 0..MaxBytes, timer : BOOLEAN, next : Url \cup {None},
   doc : Document \cup {None}, outcome : Failure \cup {"document", None},
   fetched : 0..MaxRedirects + 1, safe : SUBSET Url]

-----------------------------------------------------------------------------
(***************************************************************************)
(* What a resolution has established where it waits.  Only the cache is    *)
(* shared, so this is about one resolution: the URL of the present hop has *)
(* passed the rules and is of the origin asked for, the next one too while *)
(* its host is looked up; a host is found public after the last lookup;    *)
(* and each request sent, but the first, was a redirect that was counted.  *)
(***************************************************************************)
Acceptable(q, u) == u \in Url /\ u \in Permitted /\ OriginOf[u] = OriginOf[q.id]

Fits(d, id) == d \in Document /\ d.valid /\ d.id = id /\ d.names = id

Hop == {"response", "redirect", "body", "recheck", "store"}

Good(q) ==
  /\ q \in Resolution
  /\ q.pc # "idle" => q.id \in ClientIds
  /\ q.pc \in {"idle", "cached", "guard"} =>
       q.current = q.id /\ q.hops = 0 /\ q.fetched = 0
  /\ q.pc \in {"guard"} \cup Hop => Acceptable(q, q.current)
  /\ q.pc \in Hop => q.fetched = q.hops + 1
  /\ q.pc = "redirect" => q.hops < MaxRedirects /\ Acceptable(q, q.next)
  /\ q.pc \in {"response", "store"} => q.current \in q.safe
  /\ q.pc = "recheck" => q.doc \in Document /\ q.doc.id = q.id
  /\ q.pc = "store" => Fits(q.doc, q.id)
  /\ q.pc # "done" => q.outcome = None
  /\ q.outcome = "document" => Fits(q.doc, q.id) /\ (q.fetched > 0 => q.current \in q.safe)

IInv ==
  /\ req \in [Req -> Resolution]
  /\ \A r \in Req : Good(req[r])
  /\ cache \subseteq Document
  /\ \A d \in cache : Fits(d, d.id)

-----------------------------------------------------------------------------
(* Steps of one resolution.                                                *)

LEMMA BecomeKeeps ==
  ASSUME IInv, NEW r \in Req, NEW q, Good(q), Become(r, q),
         cache' \subseteq Document, \A d \in cache' : Fits(d, d.id)
  PROVE  IInv'
<1>1. q \in Resolution
  BY DEF Good
<1>2. req' \in [Req -> Resolution] /\ \A s \in Req : req'[s] = IF s = r THEN q ELSE req[s]
  BY <1>1 DEF IInv, Become
<1> QED BY <1>2 DEF IInv

(* A resolution may fail anywhere. *)
LEMMA FailGood ==
  ASSUME NEW q, q \in Resolution, q.id \in ClientIds,
         NEW code \in Failure, NEW f, f = Fail(q, code)
  PROVE  Good(f)
<1>1. f \in Resolution
  BY DEF Resolution, Fail, Waiting
<1>2. f.pc = "done" /\ f.outcome = code /\ f.id = q.id
  BY DEF Resolution, Fail
<1>3. code # "document"
  BY DEF Failure
<1> QED BY <1>1, <1>2, <1>3 DEF Good, Hop

(* A lookup: the resolution becomes what follows it, or fails. *)
FoundPublic(q, u) == [q EXCEPT !.safe = @ \cup {u}]

LEMMA LookupKeeps ==
  ASSUME IInv, NEW r \in Req, req[r].id \in ClientIds, NEW u \in Url, NEW q1,
         AfterLookup(r, u, q1), UNCHANGED cache,
         NEW q2, q2 = FoundPublic(q1, u), Good(q2)
  PROVE  IInv'
<1>1. \A code \in Failure : Good(Fail(req[r], code))
  BY FailGood DEF IInv, Good
<1>2. \A answer \in Lookup : answer # "public" => LookupFailure(answer) \in Failure
  BY DEF Lookup, LookupFailure, Failure
<1>3. \A d \in cache' : Fits(d, d.id)
  BY DEF IInv
<1>4. cache' \subseteq Document
  BY DEF IInv
<1>5. PICK answer \in Lookup :
        Become(r, IF answer = "public" THEN q2 ELSE Fail(req[r], LookupFailure(answer)))
  BY DEF AfterLookup, FoundPublic
<1>6. CASE answer = "public"
  <2>1. Become(r, q2)
    BY <1>5, <1>6
  <2> QED BY <2>1, <1>3, <1>4, BecomeKeeps
<1>7. CASE answer # "public"
  <2>1. Become(r, Fail(req[r], LookupFailure(answer)))
    BY <1>5, <1>7
  <2>2. Good(Fail(req[r], LookupFailure(answer)))
    BY <1>1, <1>2, <1>7
  <2> QED BY <2>1, <2>2, <1>3, <1>4, BecomeKeeps
<1> QED BY <1>6, <1>7

(* A step of one resolution that leaves the cache alone. *)
LEMMA StepKeeps ==
  ASSUME IInv, NEW r \in Req, NEW q, Good(q), Become(r, q), UNCHANGED cache
  PROVE  IInv'
<1>1. cache' \subseteq Document /\ \A d \in cache' : Fits(d, d.id)
  BY DEF IInv
<1> QED BY <1>1, BecomeKeeps

(* The URL rules, before a lookup. *)
LEMMA GuardedGood ==
  ASSUME NEW q, q \in Resolution, q.id \in ClientIds, NEW u, NEW pc \in Waiting,
         NEW g, g = Guarded(q, u, pc),
         NEW ok, ok = [q EXCEPT !.pc = pc], IsPermitted(u) => Good(ok)
  PROVE  Good(g)
<1>1. CASE IsPermitted(u)
  BY <1>1 DEF Guarded
<1>2. CASE ~IsPermitted(u)
  <2>1. UrlFailure(u) \in Failure
    BY DEF UrlFailure, Failure
  <2>2. g = Fail(q, UrlFailure(u))
    BY <1>2 DEF Guarded
  <2> QED BY <2>1, <2>2, FailGood
<1> QED BY <1>1, <1>2

LEMMA InitGood == Init => IInv
<1>1. Good(Idle)
  BY DEF Good, Idle, Resolution, Hop, Waiting
<1> QED BY <1>1 DEF Init, IInv, Good

-----------------------------------------------------------------------------
(* One lemma per action, or per actions of one kind.                       *)

LEMMA ResolveKeeps ==
  ASSUME IInv, NEW r \in Req, Resolve(r)
  PROVE  IInv'
<1>1. PICK u \in ClientIds :
        LET q == [Idle EXCEPT !.id = u, !.current = u]
        IN Become(r, IF HasCache THEN [q EXCEPT !.pc = "cached"] ELSE Guarded(q, u, "guard"))
  BY DEF Resolve
<1> DEFINE q == [Idle EXCEPT !.id = u, !.current = u]
<1>A. Idle \in Resolution /\ Idle.hops = 0 /\ Idle.fetched = 0 /\ Idle.outcome = None
  BY DEF Idle, Resolution, Waiting
<1>2. /\ q \in Resolution /\ q.id = u /\ q.current = u /\ u \in Url
      /\ q.hops = 0 /\ q.fetched = 0 /\ q.outcome = None
  BY <1>A DEF Resolution
<1> HIDE DEF q
<1>3. Good([q EXCEPT !.pc = "cached"])
  <2> DEFINE c == [q EXCEPT !.pc = "cached"]
  <2>1. /\ c \in Resolution /\ c.pc = "cached" /\ c.id = u /\ c.current = u
        /\ c.hops = 0 /\ c.fetched = 0 /\ c.outcome = None
    BY <1>2 DEF Resolution, Waiting
  <2> HIDE DEF c
  <2>2. Good(c)
    BY <2>1 DEF Good, Hop
  <2> QED BY <2>2 DEF c
<1>4. IsPermitted(u) => Good([q EXCEPT !.pc = "guard"])
  <2> DEFINE c == [q EXCEPT !.pc = "guard"]
  <2>1. /\ c \in Resolution /\ c.pc = "guard" /\ c.id = u /\ c.current = u
        /\ c.hops = 0 /\ c.fetched = 0 /\ c.outcome = None
    BY <1>2 DEF Resolution, Waiting
  <2> HIDE DEF c
  <2>2. IsPermitted(u) => Good(c)
    BY <1>2, <2>1 DEF Good, Hop, Acceptable, IsPermitted
  <2> QED BY <2>2 DEF c
<1>5. Good(Guarded(q, u, "guard"))
  BY <1>2, <1>4, GuardedGood DEF Waiting
<1>6. UNCHANGED cache
  BY DEF Resolve
<1>7. CASE HasCache
  BY <1>1, <1>3, <1>6, <1>7, StepKeeps DEF q
<1>8. CASE ~HasCache
  BY <1>1, <1>5, <1>6, <1>8, StepKeeps DEF q
<1> QED BY <1>7, <1>8

LEMMA CacheKeeps ==
  ASSUME IInv, NEW r \in Req, CacheHit(r) \/ CacheMiss(r) \/ CacheThrows(r)
  PROVE  IInv'
<1> DEFINE q == req[r]
<1>1. Good(q) /\ q \in Resolution /\ q.pc = "cached" /\ q.id \in ClientIds /\ UNCHANGED cache
  BY DEF IInv, Good, CacheHit, CacheMiss, CacheThrows, At
<1>2. CASE CacheHit(r)
  <2>1. PICK d \in cache : d.id = q.id /\ Become(r, Finish([q EXCEPT !.doc = d]))
    BY <1>2 DEF CacheHit
  <2>2. Fits(d, d.id)
    BY DEF IInv
  <2> DEFINE f == Finish([q EXCEPT !.doc = d])
  <2>3. f \in Resolution
    BY <1>1, <2>2 DEF Resolution, Finish, Fits, Waiting
  <2>4. f.pc = "done" /\ f.id = q.id /\ f.doc = d /\ f.fetched = 0
    BY <1>1 DEF Resolution, Finish, Good
  <2> HIDE DEF f
  <2>5. Good(f)
    BY <1>1, <2>1, <2>2, <2>3, <2>4 DEF Good, Hop
  <2> QED BY <1>1, <2>1, <2>5, StepKeeps DEF f
<1>3. CASE CacheMiss(r)
  <2>1. IsPermitted(q.id) => Good([q EXCEPT !.pc = "guard"])
    BY <1>1 DEF Resolution, Good, Hop, Waiting, IsPermitted, Acceptable
  <2>2. Good(Guarded(q, q.id, "guard"))
    BY <1>1, <2>1, GuardedGood DEF Waiting
  <2> QED BY <1>1, <1>3, <2>2, StepKeeps DEF CacheMiss
<1>4. CASE CacheThrows(r)
  <2>1. Good(Fail(q, "cache_failed"))
    BY <1>1, FailGood DEF Failure
  <2> QED BY <1>1, <1>4, <2>1, StepKeeps DEF CacheThrows
<1> QED BY <1>2, <1>3, <1>4

(* The request of a hop. *)
LEMMA StartHopFits ==
  ASSUME NEW q, q \in Resolution, q.fetched + 1 \in 0..MaxRedirects + 1,
         NEW u, u \in Url, NEW s, s = StartHop(q), NEW h, h = FoundPublic(s, u)
  PROVE  /\ h \in Resolution
         /\ h.pc = "response" /\ h.id = q.id /\ h.current = q.current /\ h.hops = q.hops
         /\ h.fetched = q.fetched + 1 /\ h.outcome = q.outcome /\ u \in h.safe
<1> DEFINE w == [q EXCEPT !.pc = "response", !.timer = TRUE, !.total = 0]
<1>1. 0 \in 0..MaxBytes /\ "response" \in Waiting
  BY DEF Waiting
<1>2. /\ w \in Resolution
      /\ w.pc = "response" /\ w.id = q.id /\ w.current = q.current /\ w.hops = q.hops
      /\ w.fetched = q.fetched /\ w.outcome = q.outcome
  BY <1>1 DEF Resolution
<1>3. s = [w EXCEPT !.fetched = @ + 1]
  BY DEF StartHop
<1> HIDE DEF w
<1>4. /\ s \in Resolution
      /\ s.pc = "response" /\ s.id = q.id /\ s.current = q.current /\ s.hops = q.hops
      /\ s.fetched = q.fetched + 1 /\ s.outcome = q.outcome
  BY <1>2, <1>3 DEF Resolution
<1> QED BY <1>4 DEF Resolution, FoundPublic

LEMMA FirstGuardKeeps ==
  ASSUME IInv, NEW r \in Req, FirstGuard(r)
  PROVE  IInv'
<1> DEFINE q == req[r]
           q1 == StartHop(q)
           u == q.current
           q2 == FoundPublic(q1, u)
<1>1. /\ Good(q) /\ q \in Resolution /\ q.pc = "guard" /\ q.id \in ClientIds
      /\ UNCHANGED cache /\ u \in Url /\ AfterLookup(r, u, q1)
  BY DEF IInv, Good, FirstGuard, At, Acceptable
<1>2. q.hops = 0 /\ q.fetched = 0 /\ q.fetched + 1 \in 0..MaxRedirects + 1
  BY <1>1 DEF Good
<1>S. q1 = StartHop(q) /\ q2 = FoundPublic(q1, u)
  OBVIOUS
<1> HIDE DEF q1, q2
<1>3. /\ q2 \in Resolution
      /\ q2.pc = "response" /\ q2.id = q.id /\ q2.current = u /\ u \in q2.safe
      /\ q2.hops = 0 /\ q2.fetched = 1 /\ q2.outcome = q.outcome
  BY <1>1, <1>2, <1>S, StartHopFits
<1>4. Good(q2)
  BY <1>1, <1>2, <1>3 DEF Good, Hop, Acceptable
<1> QED BY <1>1, <1>S, <1>4, LookupKeeps

LEMMA TimerKeeps ==
  ASSUME IInv, NEW r \in Req, TimerFires(r)
  PROVE  IInv'
<1> DEFINE q == req[r]
           n == [q EXCEPT !.timer = FALSE]
<1>1. Good(q) /\ q \in Resolution /\ UNCHANGED cache
  BY DEF IInv, TimerFires
<1>2. CASE q.pc \in {"response", "body"}
  <2>1. q.id \in ClientIds
    BY <1>1, <1>2 DEF Good
  <2>2. Good(Fail(q, "timeout"))
    BY <1>1, <2>1, FailGood DEF Failure
  <2> QED BY <1>1, <1>2, <2>2, StepKeeps DEF TimerFires
<1>3. CASE q.pc \notin {"response", "body"}
  <2>1. /\ n \in Resolution /\ n.pc = q.pc /\ n.id = q.id /\ n.current = q.current
        /\ n.hops = q.hops /\ n.fetched = q.fetched /\ n.next = q.next
        /\ n.doc = q.doc /\ n.outcome = q.outcome /\ n.safe = q.safe
    BY <1>1 DEF Resolution
  <2> HIDE DEF n
  <2>2. Good(n)
    BY <1>1, <2>1 DEF Good, Acceptable
  <2> QED BY <1>1, <1>3, <2>2, StepKeeps DEF TimerFires, n
<1> QED BY <1>2, <1>3

LEMMA FetchThrowsKeeps ==
  ASSUME IInv, NEW r \in Req, FetchThrows(r)
  PROVE  IInv'
<1>1. Good(Fail(req[r], "fetch_failed"))
  BY FailGood DEF IInv, Good, FetchThrows, At, Failure
<1> QED BY <1>1, StepKeeps DEF FetchThrows

LEMMA RedirectedKeeps ==
  ASSUME IInv, NEW r \in Req, Redirected(r)
  PROVE  IInv'
<1> DEFINE q == req[r]
<1>1. Good(q) /\ q \in Resolution /\ q.pc = "response" /\ q.id \in ClientIds /\ UNCHANGED cache
  BY DEF IInv, Good, Redirected, At
<1>2. PICK u \in Url \cup {None} :
        Become(r, IF u = None \/ LimitReached(q) \/ ~SameOrigin(q, u)
                  THEN Fail(q, "redirect_refused")
                  ELSE Guarded([q EXCEPT !.next = u], u, "redirect"))
  BY DEF Redirected
<1>3. CASE u = None \/ LimitReached(q) \/ ~SameOrigin(q, u)
  <2>1. Good(Fail(q, "redirect_refused"))
    BY <1>1, FailGood DEF Failure
  <2> QED BY <1>1, <1>2, <1>3, <2>1, StepKeeps
<1>4. CASE u # None /\ ~LimitReached(q) /\ SameOrigin(q, u)
  <2> DEFINE n == [q EXCEPT !.next = u]
             ok == [n EXCEPT !.pc = "redirect"]
  <2>1. n \in Resolution /\ n.id \in ClientIds /\ u \in Url
    BY <1>1, <1>4 DEF Resolution
  <2>2. /\ ok \in Resolution /\ ok.pc = "redirect" /\ ok.next = u /\ ok.id = q.id
        /\ ok.current = q.current /\ ok.hops = q.hops /\ ok.fetched = q.fetched
        /\ ok.outcome = q.outcome
    BY <1>1, <2>1 DEF Resolution, Waiting
  <2>3. q.hops < MaxRedirects
    BY <1>1, <1>4 DEF Resolution, LimitReached
  <2> HIDE DEF ok, n
  <2>4. IsPermitted(u) => Good(ok)
    BY <1>1, <1>4, <2>1, <2>2, <2>3 DEF Good, Hop, Acceptable, SameOrigin, IsPermitted
  <2>5. Good(Guarded(n, u, "redirect"))
    BY <2>1, <2>4, GuardedGood DEF Waiting, ok
  <2> QED BY <1>1, <1>2, <1>4, <2>5, StepKeeps DEF n
<1> QED BY <1>3, <1>4

LEMMA RedirectCheckedKeeps ==
  ASSUME IInv, NEW r \in Req, RedirectChecked(r)
  PROVE  IInv'
<1> DEFINE q == req[r]
           u == q.next
           p == [q EXCEPT !.current = q.next, !.next = None, !.hops = @ + 1]
           q1 == StartHop(p)
           q2 == FoundPublic(q1, u)
<1>1. /\ Good(q) /\ q \in Resolution /\ q.pc = "redirect" /\ q.id \in ClientIds
      /\ UNCHANGED cache /\ Acceptable(q, u) /\ AfterLookup(r, u, q1)
      /\ q.hops < MaxRedirects /\ q.fetched = q.hops + 1
  BY DEF IInv, Good, RedirectChecked, At, Hop
<1>2. q.hops + 1 \in 0..MaxRedirects /\ q.fetched + 1 \in 0..MaxRedirects + 1
  BY <1>1 DEF Resolution
<1>3. /\ p \in Resolution /\ p.id = q.id /\ p.current = u
      /\ p.hops = q.hops + 1 /\ p.fetched = q.fetched /\ p.outcome = q.outcome
  BY <1>1, <1>2 DEF Resolution, Acceptable
<1>S. q1 = StartHop(p) /\ q2 = FoundPublic(q1, u)
  OBVIOUS
<1> HIDE DEF p, q1, q2
<1>4. /\ q2 \in Resolution
      /\ q2.pc = "response" /\ q2.id = q.id /\ q2.current = u /\ u \in q2.safe
      /\ q2.hops = q.hops + 1 /\ q2.fetched = q.fetched + 1 /\ q2.outcome = q.outcome
  BY <1>1, <1>2, <1>3, <1>S, StartHopFits DEF Acceptable
<1>5. Good(q2)
  BY <1>1, <1>3, <1>4 DEF Good, Hop, Acceptable, Resolution
<1> QED BY <1>1, <1>S, <1>5, LookupKeeps DEF Acceptable

LEMMA RespondedKeeps ==
  ASSUME IInv, NEW r \in Req, Responded(r)
  PROVE  IInv'
<1> DEFINE q == req[r]
<1>1. Good(q) /\ q \in Resolution /\ q.pc = "response" /\ q.id \in ClientIds /\ UNCHANGED cache
  BY DEF IInv, Good, Responded, At
<1>2. Good(Fail(q, "http_status")) /\ Good(Fail(q, "too_large"))
  BY <1>1, FailGood DEF Failure
<1>3. Good(Reading(q))
  BY <1>1 DEF Good, Resolution, Reading, Hop, Acceptable, Waiting
<1> QED BY <1>1, <1>2, <1>3, StepKeeps DEF Responded

LEMMA ChunkKeeps ==
  ASSUME IInv, NEW r \in Req, Chunk(r)
  PROVE  IInv'
<1> DEFINE q == req[r]
           n == [q EXCEPT !.total = @ + 1]
<1>1. Good(q) /\ q \in Resolution /\ q.pc = "body" /\ q.id \in ClientIds /\ UNCHANGED cache
  BY DEF IInv, Good, Chunk, At
<1>2. Good(Fail(q, "too_large"))
  BY <1>1, FailGood DEF Failure
<1>3. ASSUME ~Overflows(q) PROVE Good(n)
  <2>1. q.total + 1 \in 0..MaxBytes
    BY <1>1, <1>3 DEF Resolution, Overflows
  <2> QED BY <1>1, <2>1 DEF Good, Resolution, Hop, Acceptable
<1> QED BY <1>1, <1>2, <1>3, StepKeeps DEF Chunk

LEMMA BodyEndsKeeps ==
  ASSUME IInv, NEW r \in Req, BodyEnds(r)
  PROVE  IInv'
<1> DEFINE q == req[r]
<1>1. Good(q) /\ q \in Resolution /\ q.pc = "body" /\ q.id \in ClientIds /\ UNCHANGED cache
  BY DEF IInv, Good, BodyEnds, At
<1>2. PICK d \in Document :
        d.id = q.id /\ Become(r, Guarded([q EXCEPT !.doc = d, !.safe = {}], q.current, "recheck"))
  BY DEF BodyEnds
<1> DEFINE n == [q EXCEPT !.doc = d, !.safe = {}]
           ok == [n EXCEPT !.pc = "recheck"]
<1>3. n \in Resolution /\ n.id \in ClientIds
  BY <1>1 DEF Resolution
<1>4. /\ ok \in Resolution /\ ok.pc = "recheck" /\ ok.doc = d /\ ok.id = q.id
      /\ ok.current = q.current /\ ok.hops = q.hops /\ ok.fetched = q.fetched
      /\ ok.outcome = q.outcome
  BY <1>1 DEF Resolution, Waiting
<1> HIDE DEF ok, n
<1>5. Good(ok)
  BY <1>1, <1>2, <1>4 DEF Good, Hop, Acceptable
<1>6. Good(Guarded(n, q.current, "recheck"))
  BY <1>3, <1>5, GuardedGood DEF Waiting, ok
<1> QED BY <1>1, <1>2, <1>6, StepKeeps DEF n

(* A document that parses is valid and names the id it is kept under. *)
LEMMA ParsedFits ==
  ASSUME NEW d \in Document
  PROVE  /\ ParseFailure(d) = None => Fits(d, d.id)
         /\ ParseFailure(d) # None => ParseFailure(d) \in Failure
BY DEF Document, ParseFailure, Fits, Failure

LEMMA RecheckedKeeps ==
  ASSUME IInv, NEW r \in Req, Rechecked(r)
  PROVE  IInv'
<1> DEFINE q == req[r]
           u == q.current
           done == [q EXCEPT !.timer = FALSE]
           code == ParseFailure(q.doc)
           q1 == IF code # None THEN Fail(q, code)
                 ELSE IF HasCache THEN [done EXCEPT !.pc = "store"] ELSE Finish(done)
           q2 == FoundPublic(q1, u)
<1>1. /\ Good(q) /\ q \in Resolution /\ q.pc = "recheck" /\ q.id \in ClientIds
      /\ UNCHANGED cache /\ Acceptable(q, u) /\ q.fetched = q.hops + 1
      /\ q.doc \in Document /\ q.doc.id = q.id /\ AfterLookup(r, u, q1)
  BY DEF IInv, Good, Rechecked, At, Hop
<1>2. CASE code # None
  <2>1. q1 \in Resolution
    BY <1>1, <1>2, ParsedFits DEF Resolution, Fail, Waiting
  <2>2. q2 \in Resolution /\ q2.pc = "done" /\ q2.outcome = code /\ q2.id = q.id
    BY <1>1, <1>2, ParsedFits DEF Resolution, Fail, Waiting, Acceptable, FoundPublic
  <2>3. code # "document"
    BY <1>1, <1>2, ParsedFits DEF Failure
  <2> QED
    <3> HIDE DEF q2, code
    <3>1. Good(q2)
      BY <1>1, <2>2, <2>3 DEF Good, Hop
    <3> QED BY <1>1, <3>1, LookupKeeps DEF q2, code, Acceptable
<1>3. CASE code = None
  <2>1. Fits(q.doc, q.id)
    BY <1>1, <1>3, ParsedFits
  <2>2. CASE HasCache
    <3>1. /\ q2 \in Resolution /\ q2.pc = "store" /\ q2.id = q.id /\ q2.current = u
          /\ u \in q2.safe /\ q2.hops = q.hops /\ q2.fetched = q.fetched /\ q2.doc = q.doc
          /\ q2.outcome = q.outcome
      BY <1>1, <1>3, <2>2 DEF Resolution, Waiting, Acceptable, FoundPublic
    <3> HIDE DEF q2, code
    <3>2. Good(q2)
      BY <1>1, <2>1, <3>1 DEF Good, Hop, Acceptable
    <3> QED BY <1>1, <3>2, LookupKeeps DEF q2, code, Acceptable
  <2>3. CASE ~HasCache
    <3>1. /\ q2 \in Resolution /\ q2.pc = "done" /\ q2.id = q.id /\ q2.current = u
          /\ u \in q2.safe /\ q2.doc = q.doc
      BY <1>1, <1>3, <2>3 DEF Resolution, Waiting, Acceptable, FoundPublic, Finish
    <3> HIDE DEF q2, code
    <3>2. Good(q2)
      BY <1>1, <2>1, <3>1 DEF Good, Hop, Acceptable
    <3> QED BY <1>1, <3>2, LookupKeeps DEF q2, code, Acceptable
  <2> QED BY <2>2, <2>3
<1> QED BY <1>2, <1>3

LEMMA StoreKeeps ==
  ASSUME IInv, NEW r \in Req, Store(r)
  PROVE  IInv'
<1> DEFINE q == req[r]
           f == Finish(q)
<1>1. /\ Good(q) /\ q \in Resolution /\ q.pc = "store" /\ q.id \in ClientIds
      /\ Fits(q.doc, q.id) /\ q.current \in q.safe
  BY DEF IInv, Good, Store, At
<1>2. f \in Resolution
  BY <1>1 DEF Resolution, Finish, Waiting
<1>3. /\ f.pc = "done" /\ f.id = q.id /\ f.doc = q.doc /\ f.current = q.current
      /\ f.safe = q.safe
  BY <1>1 DEF Resolution, Finish
<1> HIDE DEF f
<1>4. Good(f)
  BY <1>1, <1>2, <1>3 DEF Good, Hop
<1>5. cache' \subseteq Document /\ \A d \in cache' : Fits(d, d.id)
  BY <1>1 DEF IInv, Store, Fits
<1> QED BY <1>4, <1>5, BecomeKeeps DEF Store, f

LEMMA NextIInv == IInv /\ [Next]_vars => IInv'
<1>1. ASSUME IInv, UNCHANGED vars PROVE IInv'
  BY <1>1 DEF IInv, vars
<1>2. ASSUME IInv, Next PROVE IInv'
  BY <1>2, ResolveKeeps, CacheKeeps, FirstGuardKeeps, TimerKeeps, FetchThrowsKeeps,
     RedirectedKeeps, RedirectCheckedKeeps, RespondedKeeps, ChunkKeeps, BodyEndsKeeps,
     RecheckedKeeps, StoreKeeps DEF Next
<1> QED BY <1>1, <1>2

LEMMA Invariance == Spec => []IInv
BY InitGood, NextIInv, PTL DEF Spec

-----------------------------------------------------------------------------
(***************************************************************************)
(* Every resolution, wherever its client sends it, keeps to its bounds:    *)
(* a body within the cap and at most MaxRedirects + 1 requests.            *)
(***************************************************************************)
THEOREM StaysInBounds == Spec => []TypeOK
<1>1. IInv => TypeOK
  BY DEF IInv, TypeOK, Resolution
<1> QED BY <1>1, Invariance, PTL

(***************************************************************************)
(* A request is sent only to a URL of the client_id's origin that passed   *)
(* the URL rules, after a lookup that found its host public.               *)
(***************************************************************************)
THEOREM OnlyCheckedUrlsAreFetched == Spec => []FetchesOnlyCheckedUrls
<1>1. IInv => FetchesOnlyCheckedUrls
  BY DEF IInv, FetchesOnlyCheckedUrls, Good, Acceptable, Hop
<1> QED BY <1>1, Invariance, PTL

(***************************************************************************)
(* A resolution that succeeds answers a valid document naming the          *)
(* client_id it was asked for, whichever of the concurrent resolutions     *)
(* wrote the cache it was read from.                                       *)
(***************************************************************************)
THEOREM TheClientsOwnDocument == Spec => []DocumentIsTheClients
<1>1. IInv => DocumentIsTheClients
  BY DEF IInv, DocumentIsTheClients, Good, Fits
<1> QED BY <1>1, Invariance, PTL
-----------------------------------------------------------------------------
(***************************************************************************)
(* The timer.  A hop starts it with its request; a failure clears it, and  *)
(* so does the end of the last lookup.  A lookup in the middle of a hop    *)
(* runs under it, or after it has fired: nobody waits for the server then. *)
(***************************************************************************)
Timed(q) ==
  /\ q.pc \in {"response", "body"} => q.timer
  /\ q.timer => q.pc \in {"response", "redirect", "body", "recheck"}

WaitsUnderTheTimer == \A r \in Req : Timed(req[r])

LEMMA TimedStep ==
  ASSUME IInv, WaitsUnderTheTimer, NEW r \in Req, NEW q, Timed(q), Become(r, q)
  PROVE  WaitsUnderTheTimer'
<1>1. \A s \in Req : req'[s] = IF s = r THEN q ELSE req[s]
  BY DEF IInv, Become
<1> QED BY <1>1 DEF WaitsUnderTheTimer

LEMMA FailTimed ==
  ASSUME NEW q \in Resolution, NEW code
  PROVE  Timed(Fail(q, code))
BY DEF Timed, Fail, Resolution

(* The rules, before a lookup that runs under the timer q has. *)
LEMMA GuardedTimed ==
  ASSUME NEW q \in Resolution, NEW u, NEW pc,
         Timed([q EXCEPT !.pc = pc])
  PROVE  Timed(Guarded(q, u, pc))
BY FailTimed DEF Guarded

(* A lookup fails its resolution, or lets it go on as q1. *)
LEMMA LookupTimed ==
  ASSUME IInv, WaitsUnderTheTimer, NEW r \in Req, NEW u, NEW q1, AfterLookup(r, u, q1),
         NEW q2, q2 = FoundPublic(q1, u), Timed(q2)
  PROVE  WaitsUnderTheTimer'
<1>1. PICK answer \in Lookup :
        Become(r, IF answer = "public" THEN q2 ELSE Fail(req[r], LookupFailure(answer)))
  BY DEF AfterLookup, FoundPublic
<1>2. Timed(Fail(req[r], LookupFailure(answer)))
  BY FailTimed DEF IInv
<1>3. CASE answer = "public"
  BY <1>1, <1>3, TimedStep
<1>4. CASE answer # "public"
  BY <1>1, <1>2, <1>4, TimedStep
<1> QED BY <1>3, <1>4

(* The request of a hop starts with its timer. *)
LEMMA StartHopTimed ==
  ASSUME NEW q, q \in Resolution, q.fetched + 1 \in 0..MaxRedirects + 1,
         NEW u, NEW h, h = FoundPublic(StartHop(q), u)
  PROVE  Timed(h)
<1>1. h.pc = "response" /\ h.timer
  BY DEF FoundPublic, StartHop, Resolution
<1> QED BY <1>1 DEF Timed

LEMMA NextTimed ==
  ASSUME IInv, WaitsUnderTheTimer, NEW r \in Req,
         \/ Resolve(r) \/ CacheHit(r) \/ CacheMiss(r) \/ CacheThrows(r)
         \/ FirstGuard(r) \/ TimerFires(r) \/ FetchThrows(r)
         \/ Redirected(r) \/ RedirectChecked(r)
         \/ Responded(r) \/ Chunk(r) \/ BodyEnds(r) \/ Rechecked(r) \/ Store(r)
  PROVE  WaitsUnderTheTimer'
<1> DEFINE q == req[r]
<1>1. q \in Resolution /\ Good(q) /\ Timed(q) /\ \A code : Timed(Fail(q, code))
  BY FailTimed DEF IInv, WaitsUnderTheTimer
<1>2. CASE Resolve(r)
  <2>1. PICK u \in ClientIds :
          LET i == [Idle EXCEPT !.id = u, !.current = u]
          IN Become(r, IF HasCache THEN [i EXCEPT !.pc = "cached"] ELSE Guarded(i, u, "guard"))
    BY <1>2 DEF Resolve
  <2> DEFINE i == [Idle EXCEPT !.id = u, !.current = u]
  <2>2. Idle \in Resolution /\ ~Idle.timer
    BY DEF Idle, Resolution, Waiting
  <2>3. i \in Resolution /\ ~i.timer
    BY <2>2 DEF Resolution
  <2> HIDE DEF i
  <2>4. Timed([i EXCEPT !.pc = "cached"]) /\ Timed([i EXCEPT !.pc = "guard"])
    BY <2>3 DEF Timed, Resolution
  <2>5. Timed(Guarded(i, u, "guard"))
    BY <2>3, <2>4, GuardedTimed
  <2>6. CASE HasCache
    BY <2>1, <2>4, <2>6, TimedStep DEF i
  <2>7. CASE ~HasCache
    BY <2>1, <2>5, <2>7, TimedStep DEF i
  <2> QED BY <2>6, <2>7
<1>3. CASE CacheHit(r)
  <2>1. PICK d \in cache : Become(r, Finish([q EXCEPT !.doc = d]))
    BY <1>3 DEF CacheHit
  <2>2. ~q.timer
    BY <1>1, <1>3 DEF Timed, CacheHit, At
  <2>3. Timed(Finish([q EXCEPT !.doc = d]))
    BY <1>1, <2>2 DEF Timed, Finish, Resolution
  <2> QED BY <2>1, <2>3, TimedStep
<1>4. CASE CacheMiss(r)
  <2>1. q.pc = "cached" /\ Become(r, Guarded(q, q.id, "guard"))
    BY <1>4 DEF CacheMiss, At
  <2>2. ~q.timer
    BY <1>1, <2>1 DEF Timed
  <2>3. Timed([q EXCEPT !.pc = "guard"])
    BY <1>1, <2>2 DEF Timed, Resolution
  <2>4. Timed(Guarded(q, q.id, "guard"))
    BY <1>1, <2>3, GuardedTimed
  <2> QED BY <2>1, <2>4, TimedStep
<1>5. CASE CacheThrows(r)
  BY <1>1, <1>5, TimedStep DEF CacheThrows
<1>6. CASE FirstGuard(r)
  <2>1. AfterLookup(r, q.current, StartHop(q)) /\ q.pc = "guard"
    BY <1>6 DEF FirstGuard, At
  <2>2. q.fetched + 1 \in 0..MaxRedirects + 1
    BY <1>1, <2>1 DEF Good
  <2>3. \A h : h = FoundPublic(StartHop(q), q.current) => Timed(h)
    BY <1>1, <2>2, StartHopTimed
  <2> QED BY <2>1, <2>3, LookupTimed
<1>7. CASE TimerFires(r)
  <2>1. CASE q.pc \in {"response", "body"}
    BY <1>1, <1>7, <2>1, TimedStep DEF TimerFires
  <2>2. CASE q.pc \notin {"response", "body"}
    <3>1. Timed([q EXCEPT !.timer = FALSE])
      BY <1>1, <2>2 DEF Timed, Resolution
    <3> QED BY <1>7, <2>2, <3>1, TimedStep DEF TimerFires
  <2> QED BY <2>1, <2>2
<1>8. CASE FetchThrows(r)
  BY <1>1, <1>8, TimedStep DEF FetchThrows
<1>9. CASE Redirected(r)
  <2>1. PICK u \in Url \cup {None} :
          Become(r, IF u = None \/ LimitReached(q) \/ ~SameOrigin(q, u)
                    THEN Fail(q, "redirect_refused")
                    ELSE Guarded([q EXCEPT !.next = u], u, "redirect"))
    BY <1>9 DEF Redirected
  <2> DEFINE n == [q EXCEPT !.next = u]
  <2>2. n \in Resolution
    BY <1>1 DEF Resolution
  <2> HIDE DEF n
  <2>3. Timed([n EXCEPT !.pc = "redirect"])
    BY <2>2 DEF Timed, Resolution
  <2>4. Timed(Guarded(n, u, "redirect"))
    BY <2>2, <2>3, GuardedTimed
  <2>5. CASE u = None \/ LimitReached(q) \/ ~SameOrigin(q, u)
    BY <1>1, <2>1, <2>5, TimedStep
  <2>6. CASE ~(u = None \/ LimitReached(q) \/ ~SameOrigin(q, u))
    BY <2>1, <2>4, <2>6, TimedStep DEF n
  <2> QED BY <2>5, <2>6
<1>10. CASE RedirectChecked(r)
  <2> DEFINE p == [q EXCEPT !.current = q.next, !.next = None, !.hops = @ + 1]
  <2>1. AfterLookup(r, q.next, StartHop(p)) /\ q.pc = "redirect"
    BY <1>10 DEF RedirectChecked, At
  <2>2. q.hops < MaxRedirects /\ q.fetched = q.hops + 1 /\ q.next \in Url
    BY <1>1, <2>1 DEF Good, Hop, Acceptable
  <2>3. q.hops + 1 \in 0..MaxRedirects /\ q.fetched + 1 \in 0..MaxRedirects + 1
    BY <1>1, <2>2 DEF Resolution
  <2>4. p \in Resolution /\ p.fetched = q.fetched
    BY <1>1, <2>2, <2>3 DEF Resolution
  <2> HIDE DEF p
  <2>5. \A h : h = FoundPublic(StartHop(p), q.next) => Timed(h)
    BY <2>3, <2>4, StartHopTimed
  <2> QED BY <2>1, <2>5, LookupTimed
<1>11. CASE Responded(r)
  <2>1. q.pc = "response"
    BY <1>11 DEF Responded, At
  <2>2. Timed(Reading(q))
    BY <1>1, <2>1 DEF Timed, Reading, Resolution
  <2> QED BY <1>1, <1>11, <2>2, TimedStep DEF Responded
<1>12. CASE Chunk(r)
  <2>1. Timed([q EXCEPT !.total = @ + 1])
    BY <1>1 DEF Timed, Resolution
  <2> QED BY <1>1, <1>12, <2>1, TimedStep DEF Chunk
<1>13. CASE BodyEnds(r)
  <2>1. PICK d \in Document :
          Become(r, Guarded([q EXCEPT !.doc = d, !.safe = {}], q.current, "recheck"))
    BY <1>13 DEF BodyEnds
  <2> DEFINE n == [q EXCEPT !.doc = d, !.safe = {}]
  <2>2. n \in Resolution
    BY <1>1 DEF Resolution
  <2> HIDE DEF n
  <2>3. Timed([n EXCEPT !.pc = "recheck"])
    BY <2>2 DEF Timed, Resolution
  <2>4. Timed(Guarded(n, q.current, "recheck"))
    BY <2>2, <2>3, GuardedTimed
  <2> QED BY <2>1, <2>4, TimedStep DEF n
<1>14. CASE Rechecked(r)
  <2> DEFINE code == ParseFailure(q.doc)
             done == [q EXCEPT !.timer = FALSE]
             q1 == IF code # None THEN Fail(q, code)
                   ELSE IF HasCache THEN [done EXCEPT !.pc = "store"] ELSE Finish(done)
  <2>1. AfterLookup(r, q.current, q1)
    BY <1>14 DEF Rechecked
  <2>2. ~FoundPublic(q1, q.current).timer
    BY <1>1 DEF Resolution, FoundPublic, Fail, Finish
  <2>3. FoundPublic(q1, q.current).pc \in {"done", "store"}
    BY <1>1 DEF Resolution, FoundPublic, Fail, Finish
  <2> HIDE DEF q1
  <2>4. \A h : h = FoundPublic(q1, q.current) => Timed(h)
    BY <2>2, <2>3 DEF Timed
  <2> QED BY <2>1, <2>4, LookupTimed
<1>15. CASE Store(r)
  <2>1. Become(r, Finish(q)) /\ q.pc = "store"
    BY <1>15 DEF Store, At
  <2>2. Timed(Finish(q))
    BY <1>1, <2>1 DEF Timed, Finish, Resolution
  <2> QED BY <2>1, <2>2, TimedStep
<1> QED BY <1>2, <1>3, <1>4, <1>5, <1>6, <1>7, <1>8, <1>9, <1>10, <1>11, <1>12, <1>13,
       <1>14, <1>15

(***************************************************************************)
(* A resolution waits for the server only under the timer of its hop, and  *)
(* leaves no timer behind it, whichever way it ends: of the two halves of  *)
(* EveryResolutionEnds, the one that is not a matter of fairness.          *)
(***************************************************************************)
THEOREM ServerWaitsAreTimed == Spec => []WaitsUnderTheTimer
<1>1. Init => WaitsUnderTheTimer
  BY DEF Init, WaitsUnderTheTimer, Timed, Idle
<1>2. IInv /\ WaitsUnderTheTimer /\ [Next]_vars => WaitsUnderTheTimer'
  <2>1. ASSUME WaitsUnderTheTimer, UNCHANGED vars PROVE WaitsUnderTheTimer'
    BY <2>1 DEF WaitsUnderTheTimer, vars
  <2>2. ASSUME IInv, WaitsUnderTheTimer, Next PROVE WaitsUnderTheTimer'
    BY <2>2, NextTimed DEF Next
  <2> QED BY <2>1, <2>2
<1> QED BY <1>1, <1>2, Invariance, PTL DEF Spec

=============================================================================
