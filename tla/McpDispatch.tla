------------------------------ MODULE McpDispatch ------------------------------
(***************************************************************************)
(* The MCP endpoint: what happens to a request between createMcpApp.fetch  *)
(* and its answer, for the requests that are not routes of the OAuth       *)
(* router.  One action per stretch of code between two awaits: the audit   *)
(* sink, the body, authenticate, context and the tool handler are code of  *)
(* the host or bytes of the client, and other requests run in between.     *)
(*                                                                         *)
(* The audit sinks of both halves of the app are configured.  They may     *)
(* throw, which changes nothing, or never settle.  The other ports of the  *)
(* host may throw; they are assumed to settle, because the code waits for  *)
(* them without a timeout.                                                 *)
(***************************************************************************)
EXTENDS Sequences, FiniteSets, Naturals

CONSTANTS
  Request,          \* the requests of a run
  Origin,           \* values of the Origin header
  AllowedOrigin,    \* entries of allowedRequestOrigins
  Matching,         \* pairs <<entry, origin>> that isExactOrigin or isWildcardSubdomain accepts
  AnyOrigin,        \* the entry "*"
  Token,            \* bearer tokens the host's verifyToken may know
  Audience,         \* Token -> the resource the token was minted for
  Granted,          \* Token -> its scopes
  Resource,         \* canonicalResource of the request's origin and resourcePath
  Scope, Wildcard,  \* scopes, and the scope "*"
  Tool,             \* registered tools
  ToolScope,        \* Tool -> the scope it requires, or NoScope
  PublicMethods,    \* methods that skip authentication
  ValidateArgs,     \* RegistryOptions.validateArgs
  None, NoScope, UnknownTool

ASSUME McpDispatchAssumption ==
  /\ AllowedOrigin \subseteq Origin \cup {AnyOrigin}
  /\ AnyOrigin \notin Origin /\ None \notin Origin \cup Token
  /\ Granted \in [Token -> SUBSET (Scope \cup {Wildcard})]
  /\ ToolScope \in [Tool -> Scope \cup {NoScope}]
  /\ NoScope \notin Scope /\ UnknownTool \notin Tool
  /\ ValidateArgs \in BOOLEAN

VARIABLES
  call,    \* Request -> the state of its handler
  live     \* the tokens verifyToken accepts now

vars == <<call, live>>

Method == {"initialize", "ping", "tools/list", "tools/call", "other",
           "notifications/x", "initialized"}

\* What the transport shows before the body is read.
RequestHead == [http : {"OPTIONS", "GET", "POST", "PUT"}, origin : Origin \cup {None},
         queryToken : BOOLEAN, bearer : Token \cup {None}, header : BOOLEAN,
         version : BOOLEAN]

\* Bodies that are no JSON object; objects that are no JSON-RPC request; and
\* requests.  An id is legal when it is a string, a number or null, and a
\* request without a method is taken for one of method "other" when it is the
\* orphan of a result.
Unread == {"too_large", "unreadable", "batch"}
Envelope == [jsonrpc : BOOLEAN, id : {"absent", "legal", "illegal"}, named : BOOLEAN]
BadEnvelope == {e \in Envelope : ~e.jsonrpc \/ e.id = "illegal" \/ ~e.named}
Message == [id : {"absent", "legal"}, method : Method, tool : Tool \cup {UnknownTool},
            params : BOOLEAN, args : {"valid", "invalid", "malformed"}]

\* principal.. pending: the locals of the handler.  entries: what the audit sinks
\* were called with.  context, ran, stale: history, whether the context port and
\* the tool were called, and whether the bearer was invalid on arrival.
Fresh == [phase |-> "new", head |-> None, message |-> None, principal |-> None,
          pending |-> None, answer |-> None, entries |-> <<>>, timer |-> FALSE,
          context |-> FALSE, ran |-> FALSE, stale |-> FALSE]

Init ==
  /\ call = [r \in Request |-> Fresh]
  /\ live = Token

Become(r, outcomes) ==
  \E c \in outcomes : call' = [call EXCEPT ![r] = c]

-----------------------------------------------------------------------------
(* Answers, denials and the two catch blocks.                              *)

isAllowedRequestOrigin(origin) ==
  \/ origin = None
  \/ AnyOrigin \in AllowedOrigin
  \/ \E entry \in AllowedOrigin : <<entry, origin>> \in Matching

A(kind, status, id) == [kind |-> kind, status |-> status, id |-> id]

Answered(c, a) == [c EXCEPT !.phase = "done", !.answer = a]

\* Fault: the response waits for the sink without a timer.
AuditedUnbounded(c, entry, a, throws) ==
  [c EXCEPT !.phase = "audit", !.entries = Append(@, entry),
            !.pending = [answer |-> a, throws |-> throws]]

\* Building the answer after the audit may throw: never; or an Error, when the
\* realm or the scope cannot stand in a header ("may"); or whatever the host's
\* toJSON throws, when the tool's result cannot be written as JSON ("will").
Audited(c, entry, a, throws) ==
  [c EXCEPT !.phase = "audit", !.entries = Append(@, entry), !.timer = TRUE,
            !.pending = [answer |-> a, throws |-> throws]]

\* Fault: the catch answers without auditing.
CaughtSilently(c) ==
  {Answered(c, A("internal_error", 500, FALSE)), [c EXCEPT !.phase = "rejected"]}

\* A 500, and an entry of its own.
Failure(c) == Audited(c, "internal_error", A("internal_error", 500, FALSE), "never")

\* The catch of createMcpHandler.fetch, for a value that code of the host threw.
\* errorReason gives the value a text, or throws itself when it has none.
Caught(c) == {Failure(c), [c EXCEPT !.phase = "rejected"]}

Denied(c, reason, status) ==
  Audited(c, reason, A(reason, status, FALSE), "may")

-----------------------------------------------------------------------------
(* createMcpHandler.fetch up to its first await.                           *)

OnHead(c) ==
  LET h == c.head IN
  IF ~isAllowedRequestOrigin(h.origin)
    THEN Audited(c, "origin_not_allowed", A("origin_not_allowed", 403, FALSE), "never")
  ELSE IF h.http = "OPTIONS" THEN Answered(c, A("options", 204, FALSE))
  ELSE IF h.http = "PUT" THEN Answered(c, A("method_not_allowed", 405, FALSE))
  ELSE IF h.queryToken THEN Denied(c, "query_string_token", 401)
  ELSE IF h.http = "POST" THEN [c EXCEPT !.phase = "body"]
  ELSE IF h.header THEN Answered(c, A("method_not_allowed", 405, FALSE))
  ELSE Denied(c, "unauthorized", 401)

Arrive(r) ==
  /\ call[r].phase = "new"
  /\ \E h \in RequestHead :
       /\ h.bearer # None => h.header
       /\ Become(r, {OnHead([call[r] EXCEPT !.head = h, !.stale = h.bearer \notin live])})
  /\ UNCHANGED live

\* errorId: the id is echoed when it is legal.
HasId(m) == m.id = "legal"

\* Fault: the id is not echoed.
EnvelopeErrorWithoutId(e) == A("invalid_request", 400, FALSE)

\* The version is looked at first, then the id, then the method; each is refused
\* with the id the envelope has.
EnvelopeError(e) ==
  A(IF ~e.jsonrpc THEN "bad_version" ELSE IF e.id = "illegal" THEN "bad_id" ELSE "bad_method",
    400, HasId(e))

\* parseBody and validateJsonRpcEnvelope: refused without an audit entry.
BadBody(r) ==
  LET c == call[r] IN
  /\ c.phase = "body"
  /\ \/ \E b \in Unread :
          Become(r, {Answered(c, A(b, IF b = "too_large" THEN 413 ELSE 400, FALSE))})
     \/ \E e \in BadEnvelope :
          Become(r, {Answered([c EXCEPT !.message = e], EnvelopeError(e))})
  /\ UNCHANGED live

isNotification(m) == ~HasId(m) \/ m.method \in {"notifications/x", "initialized"}

-----------------------------------------------------------------------------
(* The JSON-RPC methods.                                                   *)

hasScope(p, scope) == scope \in p.scopes \/ Wildcard \in p.scopes

Lacks(c, scope) ==
  scope # NoScope /\ (c.principal = None \/ ~hasScope(c.principal, scope))

ToolsCall(c) ==
  LET m == c.message IN
  IF ~m.params THEN Answered(c, A("invalid_params", 200, HasId(m)))
  ELSE IF m.tool = UnknownTool
    THEN Audited(c, "unknown_tool", A("unknown_tool", 200, HasId(m)), "never")
  ELSE IF Lacks(c, ToolScope[m.tool])
    THEN Audited(c, "missing_scope",
                 A("missing_scope", IF c.principal = None THEN 401 ELSE 403, HasId(m)), "may")
  ELSE IF m.args = "malformed"
    THEN Audited(c, "invalid_arguments", A("invalid_arguments", 200, HasId(m)), "never")
  ELSE [c EXCEPT !.phase = "context", !.context = TRUE]

Handle(c) ==
  LET m == c.message IN
  CASE m.method = "tools/call" -> ToolsCall(c)
    [] m.method \in {"initialize", "ping", "tools/list"} -> Answered(c, A("result", 200, HasId(m)))
    [] OTHER -> Answered(c, A("method_not_found", 200, HasId(m)))

\* handlePost with a well-formed body, and dispatchRpc up to authenticate.
Body(r) ==
  /\ call[r].phase = "body"
  /\ \E m \in Message :
       LET c == [call[r] EXCEPT !.message = m]
       IN Become(r,
            {IF m.method # "initialize" /\ ~c.head.version
               THEN Answered(c, A("unsupported_version", 400, HasId(m)))
             ELSE IF isNotification(m) THEN Answered(c, A("accepted", 202, FALSE))
             ELSE IF m.method \in PublicMethods THEN Handle(c)
             ELSE [c EXCEPT !.phase = "authenticate"]})
  /\ UNCHANGED live

-----------------------------------------------------------------------------
(* The ports.                                                              *)

\* buildAuthenticate: parseBearer, verifyToken, the audience of the token.
\* Fault: a token for another server is accepted.
VerifiedAnywhere(b) == b \in live

Verified(b) == b \in live /\ Audience[b] = Resource

Principal(b) == [token |-> b, scopes |-> Granted[b]]

\* Fault: the id is not echoed.
RefusedWithoutId(c) == Audited(c, "unauthorized", A("unauthorized", 401, FALSE), "may")

Refused(c) == Audited(c, "unauthorized", A("unauthorized", 401, HasId(c.message)), "may")

Authenticate(r) ==
  LET c == call[r]
      b == c.head.bearer
  IN /\ c.phase = "authenticate"
     /\ \/ /\ Verified(b)
           /\ Become(r, {Handle([c EXCEPT !.principal = Principal(b)])})
        \/ ~Verified(b) /\ Become(r, {Refused(c)})
        \/ b # None /\ Become(r, Caught(c))
     /\ UNCHANGED live

Context(r) ==
  /\ call[r].phase = "context"
  /\ \/ Become(r, {[call[r] EXCEPT !.phase = "tool"]})
     \/ Become(r, Caught(call[r]))
  /\ UNCHANGED live

\* registry.call and the audit of its result.  What a tool throws, and a value
\* that is no result, come back as an error result.
CallTool(r) ==
  LET c == call[r]
      ran == [c EXCEPT !.ran = TRUE]
      result(k) == A(k, 200, HasId(c.message))
      refused == ValidateArgs /\ c.message.args = "invalid"
  IN /\ c.phase = "tool"
     /\ \/ refused /\ Become(r, {Audited(c, "tool_error", result("tool_error"), "never")})
        \/ /\ ~refused
           /\ \/ Become(r, {Audited(ran, "ok", result("result"), "never")})
              \/ Become(r, {Audited(ran, "tool_error", result("tool_error"), "never")})
              \/ Become(r, {Audited(ran, "ok", result("result"), "will")})
              \/ Become(r, {Audited(ran, "tool_error", result("tool_error"), "will")})
              \/ Become(r, {Failure(ran)})    \* the error text of the result is no string
     /\ UNCHANGED live

-----------------------------------------------------------------------------
(* runAuditBounded: the sink, or the timer, whichever comes first; the     *)
(* answer is built after it.                                               *)

StopTimer(c) == [c EXCEPT !.timer = FALSE]

AfterAudit(r) ==
  LET c == StopTimer(call[r])
      p == call[r].pending
  IN /\ call[r].phase = "audit"
     /\ \/ p.throws # "will" /\ Become(r, {Answered(c, p.answer)})
        \/ p.throws = "may" /\ Become(r, {Failure(c)})
        \/ p.throws = "will" /\ Become(r, Caught(c))
     /\ UNCHANGED live

\* The catch of createAppFetch, which receives what String() threw: as a rule an
\* Error.  It asks errorReason as well, so that a toString which throws a value
\* without a text takes the answer with it.
AppCatch(r) ==
  LET c == call[r] IN
  /\ c.phase = "rejected"
  /\ Become(r, {[c EXCEPT !.phase = "server_error", !.timer = TRUE,
                          !.entries = Append(@, "server_error")],
                [c EXCEPT !.phase = "lost"]})
  /\ UNCHANGED live

\* The OAuth sink first, then the MCP sink, then a 500 that is no JSON-RPC.
AfterServerError(r) ==
  /\ call[r].phase = "server_error"
  /\ Become(r, {Failure(StopTimer(call[r]))})
  /\ UNCHANGED live

SinkSettles(r) == AfterAudit(r) \/ AfterServerError(r)

TimerFires(r) == call[r].timer /\ (AfterAudit(r) \/ AfterServerError(r))

\* The host stops accepting a token: expiry, logout, revocation.
Invalidate(t) ==
  /\ t \in live
  /\ live' = live \ {t}
  /\ UNCHANGED call

Next ==
  \/ \E r \in Request :
       \/ Arrive(r) \/ BadBody(r) \/ Body(r)
       \/ Authenticate(r) \/ Context(r) \/ CallTool(r)
       \/ SinkSettles(r) \/ TimerFires(r) \/ AppCatch(r)
  \/ \E t \in Token : Invalidate(t)

Spec == Init /\ [][Next]_vars

\* The client's body ends, the host's ports settle, timers fire; the audit
\* sink owes nothing.
FairSpec ==
  /\ Spec
  /\ \A r \in Request :
       /\ WF_vars(BadBody(r) \/ Body(r))
       /\ WF_vars(Authenticate(r)) /\ WF_vars(Context(r)) /\ WF_vars(CallTool(r))
       /\ WF_vars(TimerFires(r)) /\ WF_vars(AppCatch(r))

-----------------------------------------------------------------------------
Refusals == {"origin_not_allowed", "query_string_token", "unauthorized",
             "unknown_tool", "missing_scope", "invalid_arguments"}

Kind == Refusals \cup Unread
        \cup {"bad_version", "bad_id", "bad_method", "options", "method_not_allowed",
              "unsupported_version", "accepted", "method_not_found", "invalid_params",
              "result", "ok", "tool_error", "internal_error", "server_error"}

Answer == [kind : Kind, status : Nat, id : BOOLEAN]

Call ==
  [phase : {"new", "body", "authenticate", "context", "tool", "audit", "done",
            "rejected", "server_error", "lost"},
   head : RequestHead \cup {None}, message : Message \cup BadEnvelope \cup {None},
   principal : [token : Token, scopes : SUBSET (Scope \cup {Wildcard})] \cup {None},
   pending : [answer : Answer, throws : {"never", "may", "will"}] \cup {None},
   answer : Answer \cup {None}, entries : Seq(Kind),
   timer : BOOLEAN, context : BOOLEAN, ran : BOOLEAN, stale : BOOLEAN]

TypeOK ==
  /\ live \subseteq Token
  /\ call \in [Request -> Call]

\* What the resource owner's server promises of a call that reaches its code.
Entitled(c) ==
  /\ c.head.http = "POST" /\ ~c.head.queryToken
  /\ c.head.origin = None \/ AnyOrigin \in AllowedOrigin
     \/ \E e \in AllowedOrigin : <<e, c.head.origin>> \in Matching
  /\ c.message.method = "tools/call" /\ HasId(c.message)
  /\ c.message.tool \in Tool /\ c.message.args # "malformed"
  /\ \/ "tools/call" \in PublicMethods /\ ToolScope[c.message.tool] = NoScope
     \/ /\ c.head.bearer \in Token /\ ~c.stale
        /\ Audience[c.head.bearer] = Resource
        /\ \/ ToolScope[c.message.tool] = NoScope
           \/ {ToolScope[c.message.tool], Wildcard} \cap Granted[c.head.bearer] # {}

\* The host's context port, and after it the tool, is reached only by a call
\* that was entitled to it: admitted origin, header credentials, a token for
\* this resource that was alive when the request came and has the tool's scope,
\* an existing tool and arguments that are an object (which satisfy the schema
\* where the registry validates).  Whatever port throws in between.
OnlyEntitledCallsReachTheHost ==
  \A r \in Request :
    /\ call[r].context => Entitled(call[r])
    /\ call[r].ran => /\ call[r].context
                      /\ ValidateArgs => call[r].message.args = "valid"

\* The audit trail tells what the client was told: one entry, with the same
\* reason, for a denial or the result of a tool, none for a protocol error or
\* another method.  A 500 leaves one entry of its own, which is the last: after
\* at most one that was written before the answer could not be built, and the
\* one for the OAuth sink when the catch of the app had to take over.
AuditTellsTheAnswer ==
  \A r \in Request :
    LET c == call[r]
        told == c.answer.kind
        n == Len(c.entries)
    IN c.phase = "done" =>
         CASE told \in Refusals \cup {"tool_error"} -> c.entries = <<told>>
           [] told = "internal_error" ->
                /\ n \in 1..3 /\ c.entries[n] = told
                /\ \A i \in 1..n - 1 : c.entries[i] # told
                /\ n = 3 => c.entries[2] = "server_error"
           [] told = "result" /\ c.ran -> c.entries = <<"ok">>
           [] OTHER -> c.entries = <<>>

\* Every answer to a body that is a JSON object carries the id of its request
\* when the request has a legal one, refusals of the envelope, of the version and
\* of the caller included, so that a client can tell which call was refused; a
\* notification gets none, and only a failure does not echo what it was sent.
AnswersCarryTheirId ==
  \A r \in Request :
    LET c == call[r] IN
    c.phase = "done" /\ c.message # None /\ c.answer.kind # "internal_error"
      => c.answer.id = (HasId(c.message) /\ c.answer.kind # "accepted")

\* Every request is answered, or lost with a value that has no text, although the
\* audit sinks may never settle; and no audit timer is left to hold the process
\* open once the request is over.
EveryRequestEnds ==
  \A r \in Request :
    (call[r].phase # "new") ~> (call[r].phase \in {"done", "lost"} /\ ~call[r].timer)

\* What dispatch.ts:150 says of createMcpHandler.fetch, which hosts may also use
\* without the app around it: "`fetch` must never reject".
FetchNeverRejects ==
  \A r \in Request : call[r].phase # "rejected"

=============================================================================
