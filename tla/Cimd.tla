--------------------------------- MODULE Cimd ---------------------------------
(***************************************************************************)
(* Resolution of a client metadata document: resolveCimdOutcome, for the   *)
(* client_ids that isCimdClientId accepts, over a cache that the requests  *)
(* of /authorize, /token and /revoke share.  One action per await: the     *)
(* cache, a DNS lookup, the response of the client's server, a chunk of    *)
(* its body.  The server, DNS and the hop timer may answer in any order or *)
(* not at all; an aborted fetch or read is refused by the runtime.         *)
(***************************************************************************)
EXTENDS Naturals, FiniteSets

CONSTANTS
  Req,            \* resolutions in flight
  Url,            \* URLs: client_ids and redirect targets
  ClientIds,      \* the client_ids asked for
  OriginOf,       \* Url -> origin
  Permitted,      \* the URLs that pass URL_SAFETY: https, no credentials, public name
  PrivateHost,    \* those that fail it by the name of their host alone
  MaxRedirects,   \* CIMD_MAX_REDIRECTS
  MaxBytes,       \* CIMD_MAX_BYTES, in chunks
  HasCache,       \* whether options.cache is given
  None

ASSUME CimdAssumption ==
  /\ ClientIds \subseteq Url
  /\ PrivateHost \subseteq Url \ Permitted
  /\ MaxRedirects \in Nat /\ MaxBytes \in Nat
  /\ HasCache \in BOOLEAN

VARIABLES
  req,      \* Req -> the state of its resolution
  cache     \* the documents cached: a set of [id, names]

vars == <<req, cache>>

\* A document: the client_id it is stored or returned under, and whether its
\* JSON, auth methods and redirect_uris pass parseDocument.
Document == [id : Url, names : Url, valid : BOOLEAN]

Failure == {"blocked_url", "dns_failed", "blocked_address", "fetch_failed",
            "redirect_refused", "http_status", "too_large", "timeout", "document_invalid",
            "client_id_mismatch", "cache_failed"}

ASSUME NoneAssumption == None \notin Url \cup Failure \cup {"document"}

\* Where a resolution waits; guard, recheck and redirect are DNS lookups.
Waiting == {"cached", "guard", "response", "redirect", "body", "recheck", "store"}

\* fetched, safe: history, the requests sent and the URLs whose host was public at
\* their last lookup.
Idle == [pc |-> "idle", id |-> None, current |-> None, hops |-> 0, total |-> 0,
         timer |-> FALSE, next |-> None, doc |-> None,
         outcome |-> None, fetched |-> 0, safe |-> {}]

Init ==
  /\ req = [r \in Req |-> Idle]
  /\ cache = {}

Become(r, q) == req' = [req EXCEPT ![r] = q]

At(r, pc) == req[r].pc = pc

\* The result of a resolution; the finally blocks clear the hop's timer.
Fail(q, code) == [q EXCEPT !.pc = "done", !.outcome = code, !.timer = FALSE]
Finish(q) == [q EXCEPT !.pc = "done", !.outcome = "document"]

-----------------------------------------------------------------------------
(* assertSafeUrl: the rules on the URL, then the addresses of its host.    *)

\* Fault: only the first URL is held against the rules.
IsPermittedFirst(u) == u \in Permitted \cup (Url \ ClientIds)

IsPermitted(u) == u \in Permitted

\* Answers of one lookup: a failure (an empty list too), only public addresses,
\* or some that are not.
Lookup == {"fails", "public", "private"}

LookupFailure(answer) == IF answer = "fails" THEN "dns_failed" ELSE "blocked_address"

\* What follows a lookup of u: q1 when the addresses are public.
AfterLookup(r, u, q1) ==
  \E answer \in Lookup :
    Become(r, IF answer = "public" THEN [q1 EXCEPT !.safe = @ \cup {u}]
                                   ELSE Fail(req[r], LookupFailure(answer)))

\* The code of the first rule that u fails.
UrlFailure(u) == IF u \in PrivateHost THEN "blocked_address" ELSE "blocked_url"

\* A lookup of u, unless the rules refuse it first.
Guarded(q, u, pc) ==
  IF IsPermitted(u) THEN [q EXCEPT !.pc = pc] ELSE Fail(q, UrlFailure(u))

-----------------------------------------------------------------------------
(* resolveCimdOutcome                                                      *)

Resolve(r) ==
  /\ At(r, "idle")
  /\ \E u \in ClientIds :
       LET q == [Idle EXCEPT !.id = u, !.current = u]
       IN Become(r, IF HasCache THEN [q EXCEPT !.pc = "cached"] ELSE Guarded(q, u, "guard"))
  /\ UNCHANGED cache

\* The host's cache answers what was set, or nothing (expired, evicted).
CacheHit(r) ==
  /\ At(r, "cached")
  /\ \E d \in cache : d.id = req[r].id /\ Become(r, Finish([req[r] EXCEPT !.doc = d]))
  /\ UNCHANGED cache

CacheMiss(r) ==
  /\ At(r, "cached")
  /\ Become(r, Guarded(req[r], req[r].id, "guard"))
  /\ UNCHANGED cache

\* A cache that throws is not a failure of the document: it is thrown to the caller.
CacheThrows(r) ==
  /\ At(r, "cached")
  /\ Become(r, Fail(req[r], "cache_failed"))
  /\ UNCHANGED cache

\* fetchHop: a controller and a timer of its own, then the request.
StartHop(q) ==
  [q EXCEPT !.pc = "response", !.timer = TRUE, !.total = 0, !.fetched = @ + 1]

FirstGuard(r) ==
  /\ At(r, "guard")
  /\ AfterLookup(r, req[r].current, StartHop(req[r]))
  /\ UNCHANGED cache

\* The hop's timer aborts the fetch or the read it is waiting in; a lookup
\* does not see the signal.
TimerFires(r) ==
  /\ req[r].timer
  /\ Become(r, IF req[r].pc \in {"response", "body"}
               THEN Fail(req[r], "timeout")
               ELSE [req[r] EXCEPT !.timer = FALSE])
  /\ UNCHANGED cache

FetchThrows(r) ==
  /\ \/ At(r, "response")
     \/ At(r, "body")
  /\ Become(r, Fail(req[r], "fetch_failed"))
  /\ UNCHANGED cache

-----------------------------------------------------------------------------
(* followRedirect                                                          *)

\* Fault: the limit is one redirect later.
LimitReachedLate(q) == q.hops > MaxRedirects

LimitReached(q) == q.hops = MaxRedirects

SameOrigin(q, u) == OriginOf[u] = OriginOf[q.id]

\* A 3xx whose Location is missing (None) or u.
Redirected(r) ==
  LET q == req[r] IN
  /\ At(r, "response")
  /\ \E u \in Url \cup {None} :
       Become(r, IF u = None \/ LimitReached(q) \/ ~SameOrigin(q, u)
                 THEN Fail(q, "redirect_refused")
                 ELSE Guarded([q EXCEPT !.next = u], u, "redirect"))
  /\ UNCHANGED cache

RedirectChecked(r) ==
  LET q == req[r] IN
  /\ At(r, "redirect")
  /\ AfterLookup(r, q.next,
       StartHop([q EXCEPT !.current = q.next, !.next = None, !.hops = @ + 1]))
  /\ UNCHANGED cache

-----------------------------------------------------------------------------
(* readCimdBody                                                            *)

\* Fault: the timer is cleared as soon as the headers are there.
ReadingUntimed(q) == [q EXCEPT !.pc = "body", !.timer = FALSE]

Reading(q) == [q EXCEPT !.pc = "body"]

\* Not a redirect: an error status, a declared length over the cap, or a body.
Responded(r) ==
  /\ At(r, "response")
  /\ \/ Become(r, Fail(req[r], "http_status"))
     \/ Become(r, Fail(req[r], "too_large"))
     \/ Become(r, Reading(req[r]))
  /\ UNCHANGED cache

\* Fault: the cap is tested before the chunk is counted.
OverflowsLate(q) == q.total > MaxBytes

Overflows(q) == q.total + 1 > MaxBytes

Chunk(r) ==
  LET q == req[r] IN
  /\ At(r, "body")
  /\ Become(r, IF Overflows(q) THEN Fail(q, "too_large") ELSE [q EXCEPT !.total = @ + 1])
  /\ UNCHANGED cache

\* The body ends; its host is looked up once more before it is parsed.
BodyEnds(r) ==
  LET q == req[r] IN
  /\ At(r, "body")
  /\ \E d \in Document :
       /\ d.id = q.id
       /\ Become(r, Guarded([q EXCEPT !.doc = d, !.safe = {}], q.current, "recheck"))
  /\ UNCHANGED cache

\* Fault: a document is taken for whatever client_id it names.
ParseFailureAny(d) == IF d.valid THEN None ELSE "document_invalid"

\* parseDocument
ParseFailure(d) ==
  CASE d.names # d.id -> "client_id_mismatch"
    [] d.names = d.id /\ ~d.valid -> "document_invalid"
    [] OTHER -> None

Rechecked(r) ==
  LET q == req[r]
      done == [q EXCEPT !.timer = FALSE]
  IN /\ At(r, "recheck")
     /\ LET code == ParseFailure(q.doc)
        IN AfterLookup(r, q.current,
            IF code # None THEN Fail(q, code)
            ELSE IF HasCache THEN [done EXCEPT !.pc = "store"] ELSE Finish(done))
     /\ UNCHANGED cache

\* cacheBestEffort: a write that throws changes nothing for the caller.
Store(r) ==
  /\ At(r, "store")
  /\ Become(r, Finish(req[r]))
  /\ \/ cache' = {d \in cache : d.id # req[r].id} \cup {req[r].doc}
     \/ UNCHANGED cache

Next == \E r \in Req :
  \/ Resolve(r) \/ CacheHit(r) \/ CacheMiss(r) \/ CacheThrows(r)
  \/ FirstGuard(r) \/ TimerFires(r) \/ FetchThrows(r)
  \/ Redirected(r) \/ RedirectChecked(r)
  \/ Responded(r) \/ Chunk(r) \/ BodyEnds(r) \/ Rechecked(r) \/ Store(r)

Spec == Init /\ [][Next]_vars

\* Timers fire, lookups and the cache answer; the server owes nothing.
FairSpec ==
  /\ Spec
  /\ \A r \in Req :
       /\ WF_vars(TimerFires(r))
       /\ WF_vars(FirstGuard(r)) /\ WF_vars(RedirectChecked(r)) /\ WF_vars(Rechecked(r))
       /\ WF_vars(CacheHit(r) \/ CacheMiss(r) \/ CacheThrows(r)) /\ WF_vars(Store(r))

-----------------------------------------------------------------------------
\* The bounds are part of the type: a body stays within its cap, and a resolution
\* sends a bounded number of requests wherever it is sent.
TypeOK ==
  /\ cache \subseteq Document
  /\ \A r \in Req :
       LET q == req[r] IN
       /\ q.pc \in Waiting \cup {"idle", "done"}
       /\ {q.id, q.current, q.next} \subseteq Url \cup {None}
       /\ q.hops \in 0..MaxRedirects /\ q.total \in 0..MaxBytes
       /\ q.fetched \in 0..MaxRedirects + 1
       /\ q.doc \in Document \cup {None}
       /\ q.outcome \in Failure \cup {"document", None}
       /\ q.timer \in BOOLEAN

\* What is requested, at every hop, is a URL of the client_id's own origin that
\* passed the URL rules and whose host was looked up and found public.
FetchesOnlyCheckedUrls ==
  \A r \in Req :
    LET q == req[r] IN
    q.pc = "response" =>
      /\ OriginOf[q.current] = OriginOf[q.id]
      /\ q.current \in Permitted
      /\ q.current \in q.safe

\* A resolution that succeeds answers a valid document that names exactly the
\* client_id asked for, fresh or cached, and a fresh one only after its host
\* was found public again; nothing else is ever cached.
DocumentIsTheClients ==
  /\ \A d \in cache : d.valid /\ d.names = d.id
  /\ \A r \in Req :
       LET q == req[r] IN
       q.outcome = "document" =>
         /\ q.doc.names = q.id /\ q.doc.valid
         /\ q.fetched > 0 => q.current \in q.safe

\* A resolution ends though the server never answers, stalls in the body or
\* redirects for ever: the timer of the hop ends it, and no timer outlives it.
EveryResolutionEnds ==
  \A r \in Req : (req[r].pc # "idle") ~> (req[r].pc = "done" /\ ~req[r].timer)

=============================================================================
