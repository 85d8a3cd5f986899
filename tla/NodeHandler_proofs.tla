-------------------------- MODULE NodeHandler_proofs --------------------------
(***************************************************************************)
(* A Node request and its response, for any number of requests, any hosts, *)
(* origins and limits, and a stream that may bring, end or break anything  *)
(* between two steps of the handler.                                       *)
(***************************************************************************)
EXTENDS NodeHandler, TLAPS

USE NodeHandlerAssumption

Stage == {"new", "reading", "ready", "fetching", "sending", "done"}
Stream == {"open", "paused", "returned", "broken", "ended"}
Body == Seq(Nat) \cup {None, "preset"}
Status == {None, 200, 400, 413, 500}

Connection ==
  [pc : Stage, in : Incoming \cup {None}, sent : Seq(Nat), stream : Stream,
   collected : Seq(Nat), total : Nat, body : Body,
   ends : Nat, status : Status, flushed : BOOLEAN, destroyed : BOOLEAN]

LEMMA Values ==
  /\ "new" \in Stage /\ "reading" \in Stage /\ "ready" \in Stage
  /\ "fetching" \in Stage /\ "sending" \in Stage /\ "done" \in Stage
  /\ "open" \in Stream /\ "paused" \in Stream /\ "returned" \in Stream
  /\ "broken" \in Stream /\ "ended" \in Stream
  /\ {200, 400, 413, 500} \subseteq Status /\ None \in Status
  /\ Seq(Nat) \subseteq Body /\ None \in Body /\ "preset" \in Body
BY DEF Stage, Stream, Status, Body

-----------------------------------------------------------------------------
(***************************************************************************)
(* What a connection has established where it is.  Requests share nothing, *)
(* so this is about one of them.  While the stream is read, what has been  *)
(* collected is what was sent and it is within the cap; afterwards it is   *)
(* the body, unless a preset stood for it.  Only an answered request is    *)
(* flushed, and only a flushed one destroyed.                              *)
(***************************************************************************)
Denied(c) == hostDenied(c) \/ originDenied(c)

Whole(c) ==
  /\ c.collected = c.sent
  /\ c.stream = "ended"
  /\ Len(c.sent) <= Limit[c.in.path]

Good(c) ==
  /\ c \in Connection
  /\ c.pc = "new" => c = Untouched
  /\ c.pc # "new" => c.in \in Incoming
  /\ c.pc = "reading" =>
       /\ c.in.preset = None
       /\ c.collected = c.sent /\ c.total = Len(c.sent) /\ c.total <= Limit[c.in.path]
  /\ c.pc \in {"ready", "fetching", "sending"} /\ c.in.preset = None =>
       /\ Whole(c)
       /\ c.pc = "ready" \/ ~c.in.bodyless => c.body = c.sent
  /\ c.pc # "new" /\ Denied(c) => c.pc = "done" /\ c.status = 400 /\ c.sent = <<>>
  /\ c.ends = IF c.pc = "done" THEN 1 ELSE 0
  /\ c.flushed => c.pc = "done"
  /\ c.destroyed => c.flushed /\ c.status = 413

IInv ==
  /\ conn \in [Req -> Connection]
  /\ \A r \in Req : Good(conn[r])

-----------------------------------------------------------------------------
(* Steps of one connection.                                                *)

LEMMA BecomeKeeps ==
  ASSUME IInv, NEW r \in Req, NEW outcomes, \A c \in outcomes : Good(c), Become(r, outcomes)
  PROVE  IInv'
<1>1. PICK c \in outcomes : conn' = [conn EXCEPT ![r] = c]
  BY DEF Become
<1>2. Good(c) /\ c \in Connection
  BY DEF Good
<1>3. conn' \in [Req -> Connection] /\ \A s \in Req : conn'[s] = IF s = r THEN c ELSE conn[s]
  BY <1>1, <1>2 DEF IInv
<1> QED BY <1>2, <1>3 DEF IInv

(* An answer, to a request that has not been answered yet. *)
LEMMA EndedGood ==
  ASSUME NEW c, c \in Connection, c.in \in Incoming, c.ends = 0, ~c.flushed, ~c.destroyed,
         NEW status \in {200, 400, 413, 500}, Denied(c) => status = 400 /\ c.sent = <<>>,
         NEW e, e = Ended(c, status)
  PROVE  Good(e)
<1>1. e \in Connection
  <2>1. "done" \in Stage /\ status \in Status /\ c.ends + 1 \in Nat
    BY Values
  <2> QED BY <2>1 DEF Connection, Ended
<1>2. /\ e.pc = "done" /\ e.status = status /\ e.in = c.in
      /\ e.sent = c.sent /\ e.ends = 1 /\ ~e.flushed /\ ~e.destroyed
  BY DEF Connection, Ended
<1>3. Denied(e) <=> Denied(c)
  BY <1>2 DEF Denied, hostDenied, originDenied
<1> QED BY <1>1, <1>2, <1>3 DEF Good

(* What Good says of a request that is being served. *)
LEMMA Serving ==
  ASSUME IInv, NEW r \in Req, NEW c, c = conn[r],
         c.pc \in {"reading", "ready", "fetching", "sending"}
  PROVE  /\ Good(c) /\ c \in Connection /\ c.in \in Incoming
         /\ c.ends = 0 /\ ~c.flushed /\ ~c.destroyed /\ ~Denied(c)
BY DEF IInv, Good

LEMMA InitGood == Init => IInv
<1>1. Untouched \in Connection
  BY Values DEF Untouched, Connection
<1>2. Good(Untouched)
  BY <1>1 DEF Good, Untouched
<1> QED BY <1>1, <1>2 DEF Init, IInv

-----------------------------------------------------------------------------
(* The checks, and the body up to its first event. *)
LEMMA AcceptKeeps ==
  ASSUME IInv, NEW r \in Req, Accept(r)
  PROVE  IInv'
<1>1. PICK in \in Incoming :
        LET c == [conn[r] EXCEPT !.in = in]
        IN Become(r, {IF hostDenied(c) \/ originDenied(c) THEN Ended(c, 400) ELSE ReadBody(c)})
  BY DEF Accept
<1> DEFINE c == [conn[r] EXCEPT !.in = in]
<1>2. conn[r] = Untouched /\ conn[r].pc = "new"
  BY DEF IInv, Good, Accept
<1>3. /\ c \in Connection /\ c.in = in /\ c.sent = <<>> /\ c.collected = <<>> /\ c.total = 0
      /\ c.pc = "new" /\ c.ends = 0 /\ ~c.flushed /\ ~c.destroyed
  <2>1. Untouched \in Connection
    BY Values DEF Untouched, Connection
  <2>2. /\ Untouched.sent = <<>> /\ Untouched.collected = <<>> /\ Untouched.total = 0
        /\ Untouched.pc = "new" /\ Untouched.ends = 0
        /\ ~Untouched.flushed /\ ~Untouched.destroyed
    BY DEF Untouched
  <2> QED BY <1>2, <2>1, <2>2 DEF Connection
<1>4. Become(r, {IF Denied(c) THEN Ended(c, 400) ELSE ReadBody(c)})
  BY <1>1 DEF Denied
<1> HIDE DEF c
<1>5. Limit[in.path] \in Nat
  BY DEF Incoming
<1>6. CASE Denied(c)
  <2>1. Good(Ended(c, 400))
    BY <1>3, EndedGood
  <2> QED BY <1>4, <1>6, <2>1, BecomeKeeps
<1>7. CASE ~Denied(c)
  <2>1. Good(Ended(c, 413))
    BY <1>3, <1>7, EndedGood
  <2>2. ASSUME c.in.preset # None
        PROVE  Good([c EXCEPT !.pc = "ready", !.body = "preset"])
    <3> DEFINE d == [c EXCEPT !.pc = "ready", !.body = "preset"]
    <3>0. d \in Connection
      <4>1. "ready" \in Stage /\ "preset" \in Body
        BY Values
      <4> QED BY <1>3, <4>1 DEF Connection
    <3>1. d.pc = "ready" /\ d.in = in /\ d.ends = 0 /\ ~d.flushed /\ ~d.destroyed
      BY <1>3 DEF Connection
    <3>2. ~Denied(d)
      BY <1>3, <1>7, <3>1 DEF Denied, hostDenied, originDenied
    <3> HIDE DEF d
    <3>3. Good(d)
      BY <1>3, <2>2, <3>0, <3>1, <3>2 DEF Good
    <3> QED BY <3>3 DEF d
  <2>3. Good(Drained(c))
    <3> DEFINE d == Drained(c)
    <3>0. d \in Connection
      <4>1. "ready" \in Stage /\ "ended" \in Stream /\ c.collected \in Body
        BY <1>3, Values DEF Connection
      <4> QED BY <1>3, <4>1 DEF Connection, Drained
    <3>1. /\ d.pc = "ready" /\ d.in = in /\ d.ends = 0
          /\ ~d.flushed /\ ~d.destroyed /\ d.stream = "ended" /\ d.sent = <<>>
          /\ d.collected = <<>> /\ d.body = <<>>
      BY <1>3 DEF Connection, Drained
    <3>2. ~Denied(d)
      BY <1>3, <1>7, <3>1 DEF Denied, hostDenied, originDenied
    <3> HIDE DEF d
    <3>3. Good(d)
      BY <1>5, <3>0, <3>1, <3>2 DEF Good, Whole
    <3> QED BY <3>3 DEF d
  <2>4. ASSUME c.in.preset = None PROVE Good([c EXCEPT !.pc = "reading"])
    <3> DEFINE d == [c EXCEPT !.pc = "reading"]
    <3>1. /\ d \in Connection /\ d.pc = "reading" /\ d.in = in /\ d.ends = 0
          /\ ~d.flushed /\ ~d.destroyed /\ d.sent = <<>> /\ d.collected = <<>> /\ d.total = 0
      BY <1>3, Values DEF Connection
    <3>2. ~Denied(d)
      BY <1>3, <1>7, <3>1 DEF Denied, hostDenied, originDenied
    <3> HIDE DEF d
    <3>3. Good(d)
      BY <1>3, <1>5, <2>4, <3>1, <3>2 DEF Good
    <3> QED BY <3>3 DEF d
  <2>5. Good(ReadBody(c))
    <3>1. CASE c.in.preset # None /\ TooLarge(c, c.in.preset)
      BY <3>1, <2>1 DEF ReadBody
    <3>2. CASE c.in.preset # None /\ ~TooLarge(c, c.in.preset)
      BY <3>2, <2>2 DEF ReadBody
    <3>3. CASE c.in.preset = None /\ c.in.source = "neither"
      BY <3>3, <2>3 DEF ReadBody
    <3>4. CASE c.in.preset = None /\ c.in.source # "neither" /\ TooLarge(c, c.in.declared)
      BY <3>4, <2>1 DEF ReadBody
    <3>5. CASE c.in.preset = None /\ c.in.source # "neither" /\ ~TooLarge(c, c.in.declared)
      BY <3>5, <2>4 DEF ReadBody
    <3> QED BY <3>1, <3>2, <3>3, <3>4, <3>5
  <2> QED BY <1>4, <1>7, <2>5, BecomeKeeps
<1> QED BY <1>6, <1>7
(* One more chunk: it is collected, or the reader gives up over the cap. *)
LEMMA DataKeeps ==
  ASSUME IInv, NEW r \in Req, Data(r)
  PROVE  IInv'
<1> DEFINE c == conn[r]
           n == Len(c.sent) + 1
           got == [c EXCEPT !.sent = Append(@, n), !.total = @ + 1]
           d == [got EXCEPT !.collected = Append(@, n)]
<1>1. /\ Good(c) /\ c \in Connection /\ c.in \in Incoming /\ c.pc = "reading"
      /\ c.ends = 0 /\ ~c.flushed /\ ~c.destroyed /\ ~Denied(c)
  BY Serving DEF Data
<1>2. /\ c.in.preset = None /\ c.collected = c.sent /\ c.total = Len(c.sent)
      /\ c.sent \in Seq(Nat) /\ n \in Nat /\ Limit[c.in.path] \in Nat
  BY <1>1 DEF Good, Connection, Incoming
<1>3. Append(c.sent, n) \in Seq(Nat) /\ Len(Append(c.sent, n)) = n
  BY <1>2
<1>4. got \in Connection
  BY <1>1, <1>2, <1>3 DEF Connection
<1>5. /\ got.pc = "reading" /\ got.in = c.in /\ got.sent = Append(c.sent, n) /\ got.total = n
      /\ got.collected = c.sent /\ got.ends = 0 /\ ~got.flushed /\ ~got.destroyed
  BY <1>1, <1>2 DEF Connection
<1>6. Become(r, {IF got.total > Limit[c.in.path] THEN CapCrossed(got) ELSE d})
  BY DEF Data
<1> HIDE DEF got
<1>7. ~Denied(got)
  BY <1>1, <1>5 DEF Denied, hostDenied, originDenied
<1>8. CASE got.total > Limit[c.in.path]
  <2>1. Good(CapCrossed(got))
    <3> DEFINE e == Ended(got, 413)
    <3>1. Good(e) /\ e.pc = "done" /\ ~Denied(e)
      <4>1. Good(e)
        BY <1>1, <1>4, <1>5, <1>7, EndedGood
      <4>2. e.pc = "done" /\ e.in = got.in
        BY <1>4 DEF Ended, Connection
      <4> QED BY <1>7, <4>1, <4>2 DEF Denied, hostDenied, originDenied
    <3> HIDE DEF e
    <3>2. ASSUME NEW s \in {"paused", "returned"} PROVE Good([e EXCEPT !.stream = s])
      <4> DEFINE f == [e EXCEPT !.stream = s]
      <4>1. e \in Connection /\ s \in Stream
        BY <3>1, Values DEF Good
      <4>2. f \in Connection
        BY <4>1 DEF Connection
      <4>3. /\ f.pc = "done" /\ f.in = e.in /\ f.ends = e.ends /\ f.status = e.status
            /\ f.sent = e.sent /\ f.flushed = e.flushed /\ f.destroyed = e.destroyed
        BY <3>1, <4>1 DEF Connection
      <4> HIDE DEF f
      <4>4. Good(f)
        BY <3>1, <4>2, <4>3 DEF Good, Denied, hostDenied, originDenied
      <4> QED BY <4>4 DEF f
    <3> QED BY <3>2 DEF CapCrossed, Overflow, LeaveLoop, e
  <2> QED BY <1>6, <1>8, <2>1, BecomeKeeps
<1>9. CASE ~(got.total > Limit[c.in.path])
  <2>1. d \in Connection
    BY <1>2, <1>3, <1>4, <1>5 DEF Connection
  <2>2. /\ d.pc = "reading" /\ d.in = c.in /\ d.sent = Append(c.sent, n) /\ d.total = n
        /\ d.collected = Append(c.sent, n) /\ d.ends = 0 /\ ~d.flushed /\ ~d.destroyed
    BY <1>2, <1>4, <1>5 DEF Connection
  <2> HIDE DEF d
  <2>3. ~Denied(d)
    BY <1>1, <2>2 DEF Denied, hostDenied, originDenied
  <2>4. n <= Limit[c.in.path]
    BY <1>2, <1>5, <1>9
  <2>5. Good(d)
    BY <1>1, <1>2, <1>3, <2>1, <2>2, <2>3, <2>4 DEF Good
  <2> QED BY <1>6, <1>9, <2>5, BecomeKeeps
<1> QED BY <1>8, <1>9

(* The end of the stream: what was collected is the body. *)
LEMMA StreamEndsKeeps ==
  ASSUME IInv, NEW r \in Req, StreamEnds(r)
  PROVE  IInv'
<1> DEFINE c == conn[r]
           d == Drained(c)
<1>1. /\ Good(c) /\ c \in Connection /\ c.in \in Incoming /\ c.pc = "reading"
      /\ c.ends = 0 /\ ~c.flushed /\ ~c.destroyed /\ ~Denied(c)
  BY Serving DEF StreamEnds
<1>2. d \in Connection
  <2>1. "ready" \in Stage /\ "ended" \in Stream /\ c.collected \in Body
    BY <1>1, Values DEF Connection
  <2> QED BY <1>1, <2>1 DEF Connection, Drained
<1>3. /\ d.pc = "ready" /\ d.in = c.in /\ d.ends = 0 /\ ~d.flushed /\ ~d.destroyed
      /\ d.stream = "ended" /\ d.sent = c.sent /\ d.collected = c.collected
      /\ d.body = c.collected
  BY <1>1 DEF Connection, Drained
<1> HIDE DEF d
<1>4. ~Denied(d)
  BY <1>1, <1>3 DEF Denied, hostDenied, originDenied
<1>5. Good(d)
  BY <1>1, <1>2, <1>3, <1>4 DEF Good, Whole
<1>6. Become(r, {d})
  BY DEF StreamEnds, d
<1> QED BY <1>5, <1>6, BecomeKeeps

LEMMA StreamBreaksKeeps ==
  ASSUME IInv, NEW r \in Req, StreamBreaks(r)
  PROVE  IInv'
<1> DEFINE c == conn[r]
           e == Ended(c, 500)
           d == Broken(c)
<1>1. /\ Good(c) /\ c \in Connection /\ c.in \in Incoming /\ c.pc = "reading"
      /\ c.ends = 0 /\ ~c.flushed /\ ~c.destroyed /\ ~Denied(c)
  BY Serving DEF StreamBreaks
<1>2. Good(e) /\ e \in Connection
  BY <1>1, EndedGood DEF Good
<1>3. e.pc = "done" /\ e.in = c.in
  BY <1>1 DEF Ended, Connection
<1>4. d = [e EXCEPT !.stream = "broken"]
  BY DEF Broken
<1> HIDE DEF e, d
<1>5. d \in Connection
  <2>1. "broken" \in Stream
    BY Values
  <2> QED BY <1>2, <1>4, <2>1 DEF Connection
<1>6. /\ d.pc = "done" /\ d.in = c.in /\ d.ends = e.ends /\ d.flushed = e.flushed
      /\ d.destroyed = e.destroyed /\ d.status = e.status
  BY <1>2, <1>3, <1>4 DEF Connection
<1>7. ~Denied(d)
  BY <1>1, <1>6 DEF Denied, hostDenied, originDenied
<1>8. Good(d)
  BY <1>1, <1>2, <1>3, <1>5, <1>6, <1>7 DEF Good
<1>9. Become(r, {d})
  BY DEF StreamBreaks, d
<1> QED BY <1>8, <1>9, BecomeKeeps

-----------------------------------------------------------------------------
LEMMA ConvertKeeps ==
  ASSUME IInv, NEW r \in Req, Convert(r)
  PROVE  IInv'
<1> DEFINE c == conn[r]
           b == IF c.in.bodyless THEN None ELSE c.body
           d == [c EXCEPT !.pc = "fetching", !.body = b]
<1>1. /\ Good(c) /\ c \in Connection /\ c.in \in Incoming /\ c.pc = "ready"
      /\ c.ends = 0 /\ ~c.flushed /\ ~c.destroyed /\ ~Denied(c)
  BY Serving DEF Convert
<1>2. Good(Ended(c, 500))
  BY <1>1, EndedGood
<1>3. b \in Body /\ "fetching" \in Stage
  BY <1>1, Values DEF Connection
<1>4. d \in Connection
  BY <1>1, <1>3 DEF Connection
<1>5. /\ d.pc = "fetching" /\ d.in = c.in /\ d.ends = 0 /\ ~d.flushed /\ ~d.destroyed
      /\ d.body = b /\ d.stream = c.stream /\ d.sent = c.sent /\ d.collected = c.collected
  BY <1>1 DEF Connection
<1>6. Become(r, {d}) \/ Become(r, {Ended(c, 500)})
  BY DEF Convert
<1> HIDE DEF d
<1>7. ~Denied(d)
  BY <1>1, <1>5 DEF Denied, hostDenied, originDenied
<1>8. Good(d)
  BY <1>1, <1>4, <1>5, <1>7 DEF Good, Whole
<1> QED BY <1>2, <1>6, <1>8, BecomeKeeps

LEMMA FetchedKeeps ==
  ASSUME IInv, NEW r \in Req, Fetched(r)
  PROVE  IInv'
<1> DEFINE c == conn[r]
           d == [c EXCEPT !.pc = "sending"]
<1>1. /\ Good(c) /\ c \in Connection /\ c.in \in Incoming /\ c.pc = "fetching"
      /\ c.ends = 0 /\ ~c.flushed /\ ~c.destroyed /\ ~Denied(c)
  BY Serving DEF Fetched
<1>2. Good(Ended(c, 500))
  BY <1>1, EndedGood
<1>3. d \in Connection
  <2>1. "sending" \in Stage
    BY Values
  <2> QED BY <1>1, <2>1 DEF Connection
<1>4. /\ d.pc = "sending" /\ d.in = c.in /\ d.ends = 0 /\ ~d.flushed /\ ~d.destroyed
      /\ d.body = c.body /\ d.stream = c.stream /\ d.sent = c.sent
      /\ d.collected = c.collected
  BY <1>1 DEF Connection
<1>5. Become(r, {d}) \/ Become(r, {Ended(c, 500)})
  BY DEF Fetched
<1> HIDE DEF d
<1>6. ~Denied(d)
  BY <1>1, <1>4 DEF Denied, hostDenied, originDenied
<1>7. Good(d)
  BY <1>1, <1>3, <1>4, <1>6 DEF Good, Whole
<1> QED BY <1>2, <1>5, <1>7, BecomeKeeps

LEMMA SendKeeps ==
  ASSUME IInv, NEW r \in Req, Send(r)
  PROVE  IInv'
<1> DEFINE c == conn[r]
<1>1. /\ c \in Connection /\ c.in \in Incoming
      /\ c.ends = 0 /\ ~c.flushed /\ ~c.destroyed /\ ~Denied(c)
  BY Serving DEF Send
<1>2. Good(Ended(c, 200)) /\ Good(Ended(c, 500))
  BY <1>1, EndedGood
<1>3. Become(r, {Ended(c, 200)}) \/ Become(r, {Ended(c, 500)})
  BY DEF Send
<1> QED BY <1>2, <1>3, BecomeKeeps

(* The connection is closed when the 413 is out, and for no other answer. *)
LEMMA FlushKeeps ==
  ASSUME IInv, NEW r \in Req, Flush(r)
  PROVE  IInv'
<1> DEFINE c == conn[r]
           gone == c.destroyed \/ c.status = 413
           d == [c EXCEPT !.flushed = TRUE, !.destroyed = gone]
<1>1. Good(c) /\ c \in Connection /\ c.pc = "done" /\ ~c.flushed
  BY DEF IInv, Flush
<1>2. gone \in BOOLEAN
  BY <1>1 DEF Connection
<1>3. gone => c.status = 413
  BY <1>1 DEF Good
<1>4. Become(r, {d})
  BY DEF Flush
<1> HIDE DEF gone
<1>5. d \in Connection
  BY <1>1, <1>2 DEF Connection
<1>6. /\ d.pc = "done" /\ d.in = c.in /\ d.ends = c.ends /\ d.status = c.status
      /\ d.sent = c.sent /\ d.flushed = TRUE /\ d.destroyed = gone
  BY <1>1, <1>2 DEF Connection
<1> HIDE DEF d
<1>7. Good(d)
  BY <1>1, <1>3, <1>5, <1>6 DEF Good, Denied, hostDenied, originDenied
<1> QED BY <1>4, <1>7, BecomeKeeps

LEMMA NextIInv == IInv /\ [Next]_vars => IInv'
<1>1. ASSUME IInv, UNCHANGED vars PROVE IInv'
  BY <1>1 DEF IInv, vars
<1>2. ASSUME IInv, Next PROVE IInv'
  BY <1>2, AcceptKeeps, DataKeeps, StreamEndsKeeps, StreamBreaksKeeps, ConvertKeeps,
     FetchedKeeps, SendKeeps, FlushKeeps DEF Next
<1> QED BY <1>1, <1>2

LEMMA Invariance == Spec => []IInv
BY InitGood, NextIInv, PTL DEF Spec

-----------------------------------------------------------------------------
(***************************************************************************)
(* The handler is given the whole of a streamed body, in order and within  *)
(* the cap of its path, or the request is answered without it.             *)
(***************************************************************************)
THEOREM TheHandlerSeesWholeBodies == Spec => []BodyIsWhole
<1>1. IInv => BodyIsWhole
  BY DEF IInv, BodyIsWhole, Good, Whole
<1> QED BY <1>1, Invariance, PTL

(***************************************************************************)
(* A request for a host or from an origin that is not served is refused    *)
(* before any of its body is read.                                         *)
(***************************************************************************)
THEOREM StrangersAreRefused == Spec => []RefusedBeforeAnythingRuns
<1>1. ASSUME IInv PROVE RefusedBeforeAnythingRuns
  <2> SUFFICES ASSUME NEW r \in Req, conn[r].pc # "new",
                      \/ conn[r].in.origin \notin AllowedOrigins
                      \/ RestrictsHosts /\ conn[r].in.host \in Host \ AllowedHosts
               PROVE  conn[r].status = 400 /\ conn[r].sent = <<>>
    BY DEF RefusedBeforeAnythingRuns
  <2>1. Denied(conn[r])
    BY DEF Denied, hostDenied, originDenied
  <2> QED BY <1>1, <2>1 DEF IInv, Good
<1> QED BY <1>1, Invariance, PTL

(***************************************************************************)
(* res.end is called once for a request that is answered, and the socket   *)
(* is destroyed only for an oversized body and only after its 413 is out.  *)
(***************************************************************************)
THEOREM OneAnswerThenClosed == Spec => []AnsweredOnceThenClosed
<1>1. ASSUME IInv PROVE AnsweredOnceThenClosed
  <2> SUFFICES ASSUME NEW r \in Req
               PROVE  /\ conn[r].ends <= 1 /\ (conn[r].pc = "done" <=> conn[r].ends = 1)
                      /\ conn[r].destroyed => conn[r].flushed /\ conn[r].status = 413
    BY DEF AnsweredOnceThenClosed
  <2>1. /\ conn[r].ends = IF conn[r].pc = "done" THEN 1 ELSE 0
        /\ conn[r].destroyed => conn[r].flushed /\ conn[r].status = 413
    BY <1>1 DEF IInv, Good
  <2> QED BY <2>1
<1> QED BY <1>1, Invariance, PTL

=============================================================================
