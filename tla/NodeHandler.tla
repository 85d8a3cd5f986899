------------------------------ MODULE NodeHandler ------------------------------
(***************************************************************************)
(* asNodeHandler: a Node (req, res) pair answered by a Web fetch handler.  *)
(* The body is a value a middleware left behind, or a stream of events     *)
(* (data, end, error) read up to the cap of the path by readFromEvents, or *)
(* by readFromAsyncIterable when the request has no events to listen to.   *)
(* Between two events, and while the handler runs, anything may happen to  *)
(* the connection.                                                         *)
(***************************************************************************)
EXTENDS Naturals, Sequences

CONSTANTS
  Req,
  Host,             \* values of the Host header
  AllowedHosts,     \* the hosts answered to: allowedHosts, or those of a loopback origin
  RestrictsHosts,   \* whether there is such a list
  Origin,           \* origins that resolveOrigin may answer
  AllowedOrigins,   \* those isAllowedOrigin accepts
  Limit,            \* Path -> bodyLimitForPath, in chunks
  MaxChunks,        \* bound on what a client sends
  None, Invalid,
  Parsed            \* the size of a body that a middleware parsed: not measured

Path == {"oauth", "mcp"}

ASSUME NodeHandlerAssumption ==
  /\ Limit \in [Path -> Nat] /\ MaxChunks \in Nat
  /\ RestrictsHosts \in BOOLEAN
  /\ None \notin Host /\ Invalid \notin Origin

VARIABLE conn     \* Req -> the request, its stream, the reader and the response

vars == <<conn>>

\* host: None when the header is absent.  origin: Invalid when resolveOrigin
\* throws.  preset: the size of req.body, None when it is not set.  declared:
\* Content-Length, None when absent or no number.  source: events, as of every
\* IncomingMessage (isNodeReadable), the chunks of an async iterable, or neither.
Incoming == [host : Host \cup {None}, origin : Origin \cup {Invalid}, path : Path,
             source : {"events", "chunks", "neither"},
             bodyless : BOOLEAN, preset : {None, Parsed} \cup 0..MaxChunks,
             declared : {None} \cup 0..MaxChunks]

Untouched == [pc |-> "new", in |-> None, sent |-> <<>>, stream |-> "open",
              collected |-> <<>>, total |-> 0, body |-> None, ends |-> 0,
              status |-> None, flushed |-> FALSE, destroyed |-> FALSE]

Init == conn = [r \in Req |-> Untouched]

Become(r, outcomes) == \E c \in outcomes : conn' = [conn EXCEPT ![r] = c]

\* res.statusCode, setHeader, res.end
Ended(c, status) == [c EXCEPT !.pc = "done", !.status = status, !.ends = @ + 1]

-----------------------------------------------------------------------------
(* The checks before the body.                                             *)

\* Fault: a fixed origin ignores the Host header.
hostIgnored(c) == FALSE

hostDenied(c) == RestrictsHosts /\ c.in.host # None /\ c.in.host \notin AllowedHosts

originDenied(c) == c.in.origin = Invalid \/ c.in.origin \notin AllowedOrigins

TooLarge(c, size) == size \notin {None, Parsed} /\ size > Limit[c.in.path]

\* All there is has been read (emptyToUndefined).
Drained(c) == [c EXCEPT !.pc = "ready", !.stream = "ended", !.body = c.collected]

\* readNodeBody up to the first event: a preset body stands for the stream, a
\* declared length over the cap is refused before anything is read.
ReadBody(c) ==
  CASE c.in.preset # None /\ TooLarge(c, c.in.preset) -> Ended(c, 413)
    [] c.in.preset # None /\ ~TooLarge(c, c.in.preset) ->
         [c EXCEPT !.pc = "ready", !.body = "preset"]
    [] c.in.preset = None /\ c.in.source = "neither" -> Drained(c)
    [] c.in.preset = None /\ c.in.source # "neither" /\ TooLarge(c, c.in.declared) ->
         Ended(c, 413)
    [] OTHER -> [c EXCEPT !.pc = "reading"]

Accept(r) ==
  /\ conn[r].pc = "new"
  /\ \E in \in Incoming :
       LET c == [conn[r] EXCEPT !.in = in]
       IN Become(r, {IF hostDenied(c) \/ originDenied(c) THEN Ended(c, 400) ELSE ReadBody(c)})

-----------------------------------------------------------------------------
(* readFromEvents: listeners are attached while pc is "reading" and removed *)
(* when the promise settles.  Node holds a body to its declared length,     *)
(* and nobody the chunks of an iterable.                                    *)

\* fail(BodyTooLargeError): paused, not destroyed; the 413 is written at once.
Overflow(c) == [Ended(c, 413) EXCEPT !.stream = "paused"]

\* `for await` is left by the exception, which returns the iterator.
LeaveLoop(c) == [Ended(c, 413) EXCEPT !.stream = "returned"]

\* Fault: an IncomingMessage is iterated too, and its iterator destroys it.
AlwaysIterates(c) == [LeaveLoop(c) EXCEPT !.destroyed = c.in.source = "events"]

\* readBoundedNodeBody prefers events, where there are any.
CapCrossed(c) == IF c.in.source = "events" THEN Overflow(c) ELSE LeaveLoop(c)

BoundByLength(c) == c.in.source = "events" /\ c.in.declared # None

Data(r) ==
  LET c == conn[r]
      n == Len(c.sent) + 1
      got == [c EXCEPT !.sent = Append(@, n), !.total = @ + 1]
  IN /\ c.pc = "reading" /\ n <= MaxChunks
     /\ BoundByLength(c) => n <= c.in.declared
     /\ Become(r, {IF got.total > Limit[c.in.path] THEN CapCrossed(got)
                   ELSE [got EXCEPT !.collected = Append(@, n)]})

StreamEnds(r) ==
  LET c == conn[r] IN
  /\ c.pc = "reading"
  /\ BoundByLength(c) => Len(c.sent) = c.in.declared
  /\ Become(r, {Drained(c)})

\* Fault: what came before the error is taken for the body.
BrokenIsEnd(c) == [c EXCEPT !.pc = "ready", !.stream = "broken", !.body = c.collected]

\* Fault: nobody listens for the error.
BrokenUnheard(c) == [c EXCEPT !.pc = "stuck", !.stream = "broken"]

Broken(c) == [Ended(c, 500) EXCEPT !.stream = "broken"]

\* The client went away, or the transport failed, in the middle of the body.
StreamBreaks(r) ==
  /\ conn[r].pc = "reading"
  /\ Become(r, {Broken(conn[r])})

-----------------------------------------------------------------------------
(* toWebRequest, fetch, sendWebResponse.                                   *)

\* Conversion may throw on a header; GET and HEAD carry no body.
Convert(r) ==
  LET c == conn[r] IN
  /\ c.pc = "ready"
  /\ \/ Become(r, {[c EXCEPT !.pc = "fetching", !.body = IF c.in.bodyless THEN None ELSE @]})
     \/ Become(r, {Ended(c, 500)})

\* fetch resolves, or rejects.
Fetched(r) ==
  /\ conn[r].pc = "fetching"
  /\ \/ Become(r, {[conn[r] EXCEPT !.pc = "sending"]})
     \/ Become(r, {Ended(conn[r], 500)})

Send(r) ==
  /\ conn[r].pc = "sending"
  /\ \/ Become(r, {Ended(conn[r], 200)})
     \/ Become(r, {Ended(conn[r], 500)})  \* setHeader or the response's body threw

\* The bytes are out; only the 413 has a callback, which closes the connection.
Flush(r) ==
  LET c == conn[r] IN
  /\ c.pc = "done" /\ ~c.flushed
  /\ Become(r, {[c EXCEPT !.flushed = TRUE, !.destroyed = @ \/ c.status = 413]})

Next == \E r \in Req :
  \/ Accept(r) \/ Data(r) \/ StreamEnds(r) \/ StreamBreaks(r)
  \/ Convert(r) \/ Fetched(r) \/ Send(r) \/ Flush(r)

Spec == Init /\ [][Next]_vars

\* A stream ends or breaks, and fetch settles (McpDispatch!EveryRequestEnds).
FairSpec ==
  /\ Spec
  /\ \A r \in Req :
       /\ WF_vars(StreamEnds(r) \/ StreamBreaks(r))
       /\ WF_vars(Convert(r)) /\ WF_vars(Fetched(r)) /\ WF_vars(Send(r)) /\ WF_vars(Flush(r))

-----------------------------------------------------------------------------
\* The handler is given the whole body, in order, or none: never the part that
\* came before an overflow or an error, and never more than the cap of its path.
BodyIsWhole ==
  \A r \in Req :
    LET c == conn[r] IN
    c.pc \in {"fetching", "sending"} /\ c.in.preset = None /\ ~c.in.bodyless =>
      /\ c.body = c.sent /\ c.stream = "ended"
      /\ Len(c.body) <= Limit[c.in.path]

\* A request whose Host or origin is not one this handler answers to is refused
\* before any of its body is read and before any route runs.
RefusedBeforeAnythingRuns ==
  \A r \in Req :
    LET c == conn[r] IN
    c.pc # "new" /\ ( \/ c.in.origin \notin AllowedOrigins
                      \/ RestrictsHosts /\ c.in.host \in Host \ AllowedHosts )
      => c.status = 400 /\ c.sent = <<>>

\* res.end is called once, and the socket is torn down only after the 413 it
\* would otherwise race with is out.
AnsweredOnceThenClosed ==
  \A r \in Req :
    LET c == conn[r] IN
    /\ c.ends <= 1 /\ (c.pc = "done" <=> c.ends = 1)
    /\ c.destroyed => c.flushed /\ c.status = 413

\* Every request is answered: whatever is thrown, and whenever the client goes.
EveryRequestIsAnswered ==
  \A r \in Req : (conn[r].pc # "new") ~> (conn[r].ends = 1)

=============================================================================
