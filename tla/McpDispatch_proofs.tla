-------------------------- MODULE McpDispatch_proofs --------------------------
(***************************************************************************)
(* The MCP endpoint, for any requests, tokens, tools and scopes: the code  *)
(* of the host is reached only by a call that was entitled to it.  The     *)
(* invariant says of every phase of a handler what its checks have         *)
(* established by then, and of every later one that it still holds.        *)
(***************************************************************************)
EXTENDS McpDispatch, TLAPS

\* What has been established once the head of the request was looked at.
Admitted(c) ==
  /\ c.head.http = "POST" /\ ~c.head.queryToken
  /\ isAllowedRequestOrigin(c.head.origin)

\* What holds of a handler in every phase after the first; tokens only die.
Base(c, alive) ==
  /\ c.head \in RequestHead
  /\ c.stale => c.head.bearer \notin alive
  /\ c.context => Entitled(c)
  /\ c.ran => c.context /\ (ValidateArgs => c.message.args = "valid")

Pending == [answer : Answer, throws : {"never", "may", "will"}]

Untouched(c) == ~c.context /\ ~c.ran

CallInv(c, alive) ==
  /\ c.phase = "new" => Untouched(c) /\ c.principal = None
  /\ c.phase # "new" => Base(c, alive)
  /\ c.phase = "body" => Untouched(c) /\ c.principal = None
  /\ c.phase = "authenticate" => Untouched(c) /\ HasId(c.message)
  /\ c.phase \in {"body", "authenticate"} => Admitted(c)
  /\ c.phase \in {"authenticate", "context", "tool"} => c.message \in Message
  /\ c.phase \in {"context", "tool"} => c.context
  /\ c.phase = "audit" => c.pending \in Pending

IInv == TypeOK /\ \A r \in Request : CallInv(call[r], live)

\* The same request, further on.
Same(c, d) ==
  /\ d.head = c.head /\ d.message = c.message /\ d.stale = c.stale
  /\ d.context = c.context /\ d.ran = c.ran

Over(d) ==
  /\ d \in Call /\ d.phase \in {"audit", "done", "rejected", "server_error", "lost"}
  /\ d.phase = "audit" => d.pending \in Pending

-----------------------------------------------------------------------------
(* What the outcomes of the handlers are.                                  *)

LEMMA AnswerType ==
  ASSUME NEW kind \in Kind, NEW status \in Nat, NEW id \in BOOLEAN
  PROVE  A(kind, status, id) \in Answer
BY DEF A, Answer

LEMMA AnsweredOver ==
  ASSUME NEW c \in Call, NEW a \in Answer
  PROVE  Over(Answered(c, a)) /\ Same(c, Answered(c, a))
BY DEF Answered, Over, Same, Call

LEMMA AuditedOver ==
  ASSUME NEW c \in Call, NEW entry \in Kind, NEW a \in Answer,
         NEW throws \in {"never", "may", "will"}
  PROVE  Over(Audited(c, entry, a, throws)) /\ Same(c, Audited(c, entry, a, throws))
<1>1. Append(c.entries, entry) \in Seq(Kind)
  BY DEF Call
<1>2. [answer |-> a, throws |-> throws] \in Pending
  BY DEF Pending
<1> QED
  BY <1>1, <1>2 DEF Pending, Audited, Over, Same, Call

LEMMA FailureOver ==
  ASSUME NEW c \in Call
  PROVE  Over(Failure(c)) /\ Same(c, Failure(c))
<1>1. "internal_error" \in Kind /\ "never" \in {"never", "may", "will"} /\ 500 \in Nat
  BY DEF Kind
<1>2. A("internal_error", 500, FALSE) \in Answer
  BY <1>1, AnswerType, ZenonT(60)
<1> QED
  BY <1>1, <1>2, AuditedOver, ZenonT(60) DEF Failure

LEMMA CaughtOver ==
  ASSUME NEW c \in Call, NEW d \in Caught(c)
  PROVE  Over(d) /\ Same(c, d)
<1>1. CASE d = Failure(c)
  BY <1>1, FailureOver
<1>2. CASE d = [c EXCEPT !.phase = "rejected"]
  BY <1>2 DEF Over, Same, Call
<1> QED
  BY <1>1, <1>2 DEF Caught

\* Entitlement looks at the request only.
LEMMA EntitledSame ==
  ASSUME NEW c, NEW d, Same(c, d), Entitled(c)
  PROVE  Entitled(d)
BY DEF Same, Entitled

LEMMA OverInv ==
  ASSUME NEW c, NEW d, NEW alive, Base(c, alive), Over(d), Same(c, d)
  PROVE  CallInv(d, alive)
<1>1. Entitled(c) => Entitled(d)
  BY EntitledSame
<1> QED
  BY <1>1 DEF Over, Same, Base, CallInv

\* A request that is refused, or answered, leaves the invariant as it is.
Fine(d, alive) == d \in Call /\ CallInv(d, alive)

LEMMA AuditedInv ==
  ASSUME NEW c \in Call, NEW alive, Base(c, alive), NEW entry \in Kind, NEW kind \in Kind,
         NEW status \in Nat, NEW id \in BOOLEAN, NEW throws \in {"never", "may", "will"}
  PROVE  Fine(Audited(c, entry, A(kind, status, id), throws), alive)
<1>1. A(kind, status, id) \in Answer
  BY AnswerType
<1>2. Over(Audited(c, entry, A(kind, status, id), throws))
      /\ Same(c, Audited(c, entry, A(kind, status, id), throws))
  BY <1>1, AuditedOver
<1> QED
  BY <1>2, OverInv DEF Fine, Over

LEMMA AnsweredInv ==
  ASSUME NEW c \in Call, NEW alive, Base(c, alive), NEW kind \in Kind, NEW status \in Nat,
         NEW id \in BOOLEAN
  PROVE  Fine(Answered(c, A(kind, status, id)), alive)
<1>1. A(kind, status, id) \in Answer
  BY AnswerType
<1> QED
  BY <1>1, AnsweredOver, OverInv DEF Fine, Over

LEMMA FailureInv ==
  ASSUME NEW c \in Call, NEW alive, Base(c, alive)
  PROVE  Fine(Failure(c), alive)
BY FailureOver, OverInv DEF Fine, Over

LEMMA CaughtInv ==
  ASSUME NEW c \in Call, NEW alive, Base(c, alive), NEW d \in Caught(c)
  PROVE  Fine(d, alive)
BY CaughtOver, OverInv DEF Fine, Over

-----------------------------------------------------------------------------
LEMMA InitInv == Init => IInv
<1> SUFFICES ASSUME Init PROVE IInv
  OBVIOUS
<1>1. Fresh \in Call
  BY DEF Fresh, Call
<1>2. CallInv(Fresh, Token)
  BY DEF Fresh, CallInv, Untouched
<1> QED
  BY <1>1, <1>2 DEF Init, IInv, TypeOK

\* One handler moves to an outcome that satisfies the invariant.
LEMMA BecomeInv ==
  ASSUME IInv, NEW r \in Request, NEW S, Become(r, S), UNCHANGED live,
         \A d \in S : Fine(d, live)
  PROVE  IInv'
<1>1. PICK d \in S : call' = [call EXCEPT ![r] = d]
  BY DEF Become
<1>2. call' \in [Request -> Call]
  BY <1>1 DEF IInv, TypeOK, Fine
<1>3. \A q \in Request : CallInv(call'[q], live')
  BY <1>1 DEF IInv, TypeOK, Fine
<1> QED
  BY <1>2, <1>3 DEF IInv, TypeOK

-----------------------------------------------------------------------------
(* The stretches of code between two awaits.                               *)

LEMMA HeadInv ==
  ASSUME NEW c \in Call, NEW alive,
         c.phase = "new", Base(c, alive), Untouched(c), c.principal = None
  PROVE  Fine(OnHead(c), alive)
<1> DEFINE denied == Audited(c, "origin_not_allowed", A("origin_not_allowed", 403, FALSE), "never")
           options == Answered(c, A("options", 204, FALSE))
           notAllowed == Answered(c, A("method_not_allowed", 405, FALSE))
           query == Audited(c, "query_string_token", A("query_string_token", 401, FALSE), "may")
           unauthorized == Audited(c, "unauthorized", A("unauthorized", 401, FALSE), "may")
           goesOn == [c EXCEPT !.phase = "body"]
<1>1. /\ "origin_not_allowed" \in Kind /\ "options" \in Kind /\ "method_not_allowed" \in Kind
      /\ "query_string_token" \in Kind /\ "unauthorized" \in Kind
  BY DEF Kind, Refusals
<1>2. 204 \in Nat /\ 401 \in Nat /\ 403 \in Nat /\ 405 \in Nat
  OBVIOUS
<1>3. Fine(denied, alive) /\ Fine(query, alive) /\ Fine(unauthorized, alive)
  BY <1>1, <1>2, AuditedInv, ZenonT(60)
<1>4. Fine(options, alive) /\ Fine(notAllowed, alive)
  BY <1>1, <1>2, AnsweredInv, ZenonT(60)
<1>5. ASSUME c.head.http = "POST", ~c.head.queryToken, isAllowedRequestOrigin(c.head.origin)
      PROVE  Fine(goesOn, alive)
  <2>1. goesOn \in Call /\ goesOn.phase = "body" /\ Same(c, goesOn) /\ goesOn.principal = None
    BY DEF Call, Same
  <2>2. Base(goesOn, alive) /\ Untouched(goesOn) /\ Admitted(goesOn)
    BY <1>5, <2>1 DEF Same, Base, Untouched, Admitted
  <2> QED
    BY <2>1, <2>2 DEF CallInv, Fine
<1>6. c.head.http \in {"OPTIONS", "GET", "POST", "PUT"}
  BY DEF Base, RequestHead
<1>7. \/ OnHead(c) \in {denied, options, notAllowed, query, unauthorized}
      \/ /\ c.head.http = "POST" /\ ~c.head.queryToken
         /\ isAllowedRequestOrigin(c.head.origin) /\ OnHead(c) = goesOn
  BY <1>6 DEF OnHead, Denied
<1> HIDE DEF denied, options, notAllowed, query, unauthorized, goesOn
<1> QED
  BY <1>3, <1>4, <1>5, <1>7

\* dispatchRpc after authentication: the host is reached with everything checked.
LEMMA HandleInv ==
  ASSUME McpDispatchAssumption, NEW c \in Call, NEW alive,
         Base(c, alive), Untouched(c), Admitted(c),
         c.message \in Message, HasId(c.message),
         \/ c.principal = None /\ c.message.method \in PublicMethods
         \/ /\ c.head.bearer \in alive /\ c.head.bearer \in Token
            /\ Audience[c.head.bearer] = Resource
            /\ c.principal = Principal(c.head.bearer)
  PROVE  Fine(Handle(c), alive)
<1> DEFINE id == HasId(c.message)
           badParams == Answered(c, A("invalid_params", 200, id))
           unknown == Audited(c, "unknown_tool", A("unknown_tool", 200, id), "never")
           missing(status) == Audited(c, "missing_scope", A("missing_scope", status, id), "may")
           badArgs == Audited(c, "invalid_arguments", A("invalid_arguments", 200, id), "never")
           reached == [c EXCEPT !.phase = "context", !.context = TRUE]
           result == Answered(c, A("result", 200, id))
           notFound == Answered(c, A("method_not_found", 200, id))
<1>1. /\ "invalid_params" \in Kind /\ "unknown_tool" \in Kind /\ "missing_scope" \in Kind
      /\ "invalid_arguments" \in Kind /\ "result" \in Kind /\ "method_not_found" \in Kind
  BY DEF Kind, Refusals
<1>2. 200 \in Nat /\ 401 \in Nat /\ 403 \in Nat
  OBVIOUS
<1>3. id \in BOOLEAN
  BY DEF HasId
<1>4. /\ Fine(unknown, alive) /\ Fine(badArgs, alive)
      /\ Fine(missing(401), alive) /\ Fine(missing(403), alive)
  <2> HIDE DEF id
  <2>1. Fine(unknown, alive) /\ Fine(badArgs, alive)
    BY <1>1, <1>2, <1>3, AuditedInv, ZenonT(60)
  <2>2. Fine(missing(401), alive)
    BY <1>1, <1>2, <1>3, AuditedInv, ZenonT(60)
  <2>3. Fine(missing(403), alive)
    BY <1>1, <1>2, <1>3, AuditedInv, ZenonT(60)
  <2> QED
    BY <2>1, <2>2, <2>3, Zenon
<1>5. Fine(badParams, alive) /\ Fine(result, alive) /\ Fine(notFound, alive)
  <2> HIDE DEF id
  <2> QED
    BY <1>1, <1>2, <1>3, AnsweredInv, ZenonT(60)
<1>6. ASSUME c.message.method = "tools/call", c.message.tool # UnknownTool,
             ~Lacks(c, ToolScope[c.message.tool]), c.message.args # "malformed"
      PROVE  Fine(reached, alive)
  <2>1. /\ reached \in Call /\ reached.phase = "context" /\ reached.context /\ ~reached.ran
        /\ reached.head = c.head /\ reached.message = c.message /\ reached.stale = c.stale
    BY DEF Call, Untouched
  <2>2. c.message.tool \in Tool
    BY <1>6 DEF Message
  <2>3. c.principal # None =>
          ToolScope[c.message.tool] = NoScope
          \/ {ToolScope[c.message.tool], Wildcard} \cap Granted[c.head.bearer] # {}
    BY <1>6 DEF Lacks, hasScope, Principal
  <2>4. c.principal = None => ToolScope[c.message.tool] = NoScope
    BY <1>6 DEF Lacks
  <2>5. c.head.bearer \in alive => ~c.stale
    BY DEF Base
  <2> HIDE DEF reached
  <2>6. Entitled(reached)
    <3>1. CASE c.principal = None /\ c.message.method \in PublicMethods
      BY <1>6, <2>1, <2>2, <2>4, <3>1 DEF Entitled, Admitted, isAllowedRequestOrigin
    <3>2. CASE ~(c.principal = None /\ c.message.method \in PublicMethods)
      BY <1>6, <2>1, <2>2, <2>3, <2>4, <2>5, <3>2
      DEF Entitled, Admitted, isAllowedRequestOrigin
    <3> QED
      BY <3>1, <3>2
  <2>7. Base(reached, alive)
    BY <2>1, <2>6 DEF Base
  <2> QED
    BY <2>1, <2>7 DEF CallInv, Fine
<1>7. \/ Handle(c) \in {badParams, unknown, missing(401), missing(403), badArgs, result, notFound}
      \/ /\ c.message.method = "tools/call" /\ c.message.tool # UnknownTool
         /\ ~Lacks(c, ToolScope[c.message.tool]) /\ c.message.args # "malformed"
         /\ Handle(c) = reached
  <2> HIDE DEF id
  <2>1. c.principal = None => (IF c.principal = None THEN 401 ELSE 403) = 401
    OBVIOUS
  <2>2. c.principal # None => (IF c.principal = None THEN 401 ELSE 403) = 403
    OBVIOUS
  <2>3. ToolsCall(c) \in {badParams, unknown, missing(IF c.principal = None THEN 401 ELSE 403),
                          badArgs}
        \/ /\ c.message.tool # UnknownTool /\ ~Lacks(c, ToolScope[c.message.tool])
           /\ c.message.args # "malformed" /\ ToolsCall(c) = reached
    BY DEF ToolsCall, id
  <2>4. c.message.method # "tools/call" => Handle(c) \in {result, notFound}
    BY DEF Handle, id
  <2>5. c.message.method = "tools/call" => Handle(c) = ToolsCall(c)
    BY DEF Handle
  <2> HIDE DEF badParams, unknown, badArgs, reached, result, notFound
  <2> QED
    BY <2>1, <2>2, <2>3, <2>4, <2>5, Zenon
<1> HIDE DEF badParams, unknown, missing, badArgs, reached, result, notFound
<1> QED
  BY <1>4, <1>5, <1>6, <1>7

-----------------------------------------------------------------------------
(* One step per action.                                                    *)

LEMMA ArriveInv == ASSUME IInv, NEW r \in Request, Arrive(r) PROVE IInv'
<1> DEFINE start(h) == [call[r] EXCEPT !.head = h, !.stale = h.bearer \notin live]
<1>1. PICK h \in RequestHead : Become(r, {OnHead(start(h))})
  BY DEF Arrive
<1>2. call[r] \in Call /\ call[r].phase = "new" /\ Untouched(call[r]) /\ call[r].principal = None
  BY DEF Arrive, IInv, TypeOK, CallInv
<1>3. /\ start(h) \in Call /\ start(h).phase = "new" /\ start(h).head = h
      /\ start(h).principal = None /\ ~start(h).context /\ ~start(h).ran
      /\ start(h).stale => h.bearer \notin live
  BY <1>2 DEF Call, Untouched
<1> HIDE DEF start
<1>4. Base(start(h), live) /\ Untouched(start(h))
  BY <1>3 DEF Base, Untouched
<1>5. Fine(OnHead(start(h)), live)
  BY <1>3, <1>4, HeadInv
<1> QED
  BY <1>1, <1>5, BecomeInv DEF Arrive

LEMMA BadBodyInv == ASSUME IInv, NEW r \in Request, BadBody(r) PROVE IInv'
<1> DEFINE c == call[r]
           status(b) == IF b = "too_large" THEN 413 ELSE 400
           known(e) == [c EXCEPT !.message = e]
<1>1. c \in Call /\ Base(c, live) /\ Untouched(c)
  BY DEF BadBody, IInv, TypeOK, CallInv
<1>2. CASE \E b \in Unread : Become(r, {Answered(c, A(b, status(b), FALSE))})
  <2>1. PICK b \in Unread : Become(r, {Answered(c, A(b, status(b), FALSE))})
    BY <1>2
  <2>2. b \in Kind /\ status(b) \in Nat
    BY DEF Kind
  <2> HIDE DEF status, c
  <2>3. Fine(Answered(c, A(b, status(b), FALSE)), live)
    BY <1>1, <2>2, AnsweredInv, Zenon
  <2> QED
    BY <2>1, <2>3, BecomeInv DEF BadBody
<1>3. CASE \E e \in BadEnvelope : Become(r, {Answered(known(e), EnvelopeError(e))})
  <2>1. PICK e \in BadEnvelope : Become(r, {Answered(known(e), EnvelopeError(e))})
    BY <1>3
  <2>2. known(e) \in Call /\ Base(known(e), live)
    BY <1>1 DEF Call, Base, Untouched
  <2> DEFINE kind == IF ~e.jsonrpc THEN "bad_version"
                     ELSE IF e.id = "illegal" THEN "bad_id" ELSE "bad_method"
             id == HasId(e)
  <2>3. kind \in Kind /\ 400 \in Nat /\ id \in BOOLEAN
    BY DEF Kind, HasId
  <2>4. EnvelopeError(e) = A(kind, 400, id)
    BY DEF EnvelopeError
  <2> HIDE DEF known, kind, id
  <2>5. Fine(Answered(known(e), A(kind, 400, id)), live)
    BY <2>2, <2>3, AnsweredInv, ZenonT(60)
  <2> QED
    BY <2>1, <2>4, <2>5, BecomeInv DEF BadBody
<1> QED
  BY <1>2, <1>3 DEF BadBody

LEMMA BodyInv == ASSUME McpDispatchAssumption, IInv, NEW r \in Request, Body(r) PROVE IInv'
<1> DEFINE known(m) == [call[r] EXCEPT !.message = m]
<1>1. PICK m \in Message :
        Become(r, {IF m.method # "initialize" /\ ~known(m).head.version
                     THEN Answered(known(m), A("unsupported_version", 400, HasId(m)))
                   ELSE IF isNotification(m) THEN Answered(known(m), A("accepted", 202, FALSE))
                   ELSE IF m.method \in PublicMethods THEN Handle(known(m))
                   ELSE [known(m) EXCEPT !.phase = "authenticate"]})
  BY DEF Body
<1>2. /\ call[r] \in Call /\ Base(call[r], live) /\ Untouched(call[r])
      /\ call[r].principal = None /\ Admitted(call[r])
  BY DEF Body, IInv, TypeOK, CallInv
<1>3. known(m) \in Call /\ known(m).message = m /\ known(m).principal = None
  BY <1>2 DEF Call
<1>4. Base(known(m), live) /\ Untouched(known(m)) /\ Admitted(known(m))
  BY <1>2, <1>3 DEF Base, Untouched, Admitted, Call
<1> HIDE DEF known
<1>5. Fine(Answered(known(m), A("unsupported_version", 400, HasId(m))), live)
  <2> DEFINE id == HasId(m)
  <2>1. "unsupported_version" \in Kind /\ 400 \in Nat /\ id \in BOOLEAN
    BY DEF Kind, HasId
  <2> HIDE DEF id
  <2>2. Fine(Answered(known(m), A("unsupported_version", 400, id)), live)
    BY <1>3, <1>4, <2>1, AnsweredInv, ZenonT(60)
  <2> QED
    BY <2>2 DEF id
<1>6. Fine(Answered(known(m), A("accepted", 202, FALSE)), live)
  <2>1. "accepted" \in Kind /\ 202 \in Nat
    BY DEF Kind
  <2> QED
    BY <1>3, <1>4, <2>1, AnsweredInv, Zenon
<1>7. ASSUME ~isNotification(m), m.method \in PublicMethods
      PROVE  Fine(Handle(known(m)), live)
  BY <1>3, <1>4, <1>7, HandleInv DEF isNotification
<1>8. ASSUME ~isNotification(m)
      PROVE  Fine([known(m) EXCEPT !.phase = "authenticate"], live)
  <2> DEFINE d == [known(m) EXCEPT !.phase = "authenticate"]
  <2>1. /\ d \in Call /\ d.phase = "authenticate" /\ Same(known(m), d)
        /\ d.message = m
    BY <1>3 DEF Call, Same
  <2> HIDE DEF d
  <2>2. Base(d, live) /\ Untouched(d) /\ Admitted(d) /\ HasId(m)
    BY <1>4, <1>8, <2>1 DEF Same, Base, Untouched, Admitted, isNotification
  <2>3. Fine(d, live)
    BY <2>1, <2>2 DEF CallInv, Fine
  <2> QED
    BY <2>3 DEF d
<1> DEFINE out == IF m.method # "initialize" /\ ~known(m).head.version
                     THEN Answered(known(m), A("unsupported_version", 400, HasId(m)))
                   ELSE IF isNotification(m) THEN Answered(known(m), A("accepted", 202, FALSE))
                   ELSE IF m.method \in PublicMethods THEN Handle(known(m))
                   ELSE [known(m) EXCEPT !.phase = "authenticate"]
<1>9. Fine(out, live)
  BY <1>5, <1>6, <1>7, <1>8, Zenon
<1>10. Become(r, {out})
  BY <1>1
<1> HIDE DEF out
<1> QED
  BY <1>9, <1>10, BecomeInv DEF Body

LEMMA AuthenticateInv ==
  ASSUME McpDispatchAssumption, IInv, NEW r \in Request, Authenticate(r) PROVE IInv'
<1> DEFINE c == call[r]
           b == c.head.bearer
           known == [c EXCEPT !.principal = Principal(b)]
<1>1. /\ c \in Call /\ Base(c, live) /\ Untouched(c) /\ Admitted(c)
      /\ c.message \in Message /\ HasId(c.message)
  BY DEF Authenticate, IInv, TypeOK, CallInv
<1>2. CASE Verified(b) /\ Become(r, {Handle(known)})
  <2>1. b \in live /\ b \in Token /\ Audience[b] = Resource
    BY <1>2 DEF Verified, IInv, TypeOK
  <2>2. Principal(b) \in [token : Token, scopes : SUBSET (Scope \cup {Wildcard})]
    BY <2>1, McpDispatchAssumption DEF Principal
  <2>3. /\ known \in Call /\ Same(c, known) /\ known.principal = Principal(b)
    BY <1>1, <2>2 DEF Call, Same
  <2> HIDE DEF known
  <2>4. Base(known, live) /\ Untouched(known) /\ Admitted(known)
    BY <1>1, <2>3, EntitledSame DEF Same, Base, Untouched, Admitted
  <2>5. known.head.bearer = b /\ known.message \in Message /\ HasId(known.message)
    BY <1>1, <2>3 DEF Same
  <2>6. Fine(Handle(known), live)
    BY <2>1, <2>3, <2>4, <2>5, HandleInv, McpDispatchAssumption
  <2> QED
    BY <1>2, <2>6, BecomeInv DEF Authenticate
<1>3. CASE Become(r, {Refused(c)})
  <2> DEFINE id == HasId(c.message)
  <2>1. "unauthorized" \in Kind /\ 401 \in Nat /\ id \in BOOLEAN
    BY DEF Kind, Refusals, HasId
  <2> HIDE DEF id
  <2>2. Fine(Audited(c, "unauthorized", A("unauthorized", 401, id), "may"), live)
    BY <1>1, <2>1, AuditedInv, ZenonT(60)
  <2>3. Fine(Refused(c), live)
    BY <2>2 DEF Refused, id
  <2> HIDE DEF c
  <2> QED
    BY <1>3, <2>3, BecomeInv DEF Authenticate
<1>4. CASE Become(r, Caught(c))
  BY <1>1, <1>4, CaughtInv, BecomeInv DEF Authenticate
<1> QED
  BY <1>2, <1>3, <1>4 DEF Authenticate

LEMMA ContextInv == ASSUME IInv, NEW r \in Request, Context(r) PROVE IInv'
<1> DEFINE c == call[r]
           next == [c EXCEPT !.phase = "tool"]
<1>1. c \in Call /\ Base(c, live) /\ c.context /\ c.message \in Message
  BY DEF Context, IInv, TypeOK, CallInv
<1>2. CASE Become(r, {next})
  <2>1. next \in Call /\ next.phase = "tool" /\ Same(c, next)
    BY <1>1 DEF Call, Same
  <2> HIDE DEF next
  <2>2. Base(next, live)
    BY <1>1, <2>1, EntitledSame DEF Same, Base
  <2>3. Fine(next, live)
    BY <1>1, <2>1, <2>2 DEF CallInv, Fine, Same
  <2> QED
    BY <1>2, <2>3, BecomeInv DEF Context
<1>3. CASE Become(r, Caught(c))
  BY <1>1, <1>3, CaughtInv, BecomeInv DEF Context
<1> QED
  BY <1>2, <1>3 DEF Context

LEMMA CallToolInv == ASSUME IInv, NEW r \in Request, CallTool(r) PROVE IInv'
<1> DEFINE c == call[r]
           id == HasId(c.message)
           ran == [c EXCEPT !.ran = TRUE]
           outcome(d, entry, kind, throws) == Audited(d, entry, A(kind, 200, id), throws)
<1>1. c \in Call /\ Base(c, live) /\ c.context /\ c.message \in Message
  BY DEF CallTool, IInv, TypeOK, CallInv
<1>2. /\ "tool_error" \in Kind /\ "ok" \in Kind /\ "result" \in Kind
      /\ 200 \in Nat /\ id \in BOOLEAN
  BY DEF Kind, HasId
<1>3. ASSUME ~(ValidateArgs /\ c.message.args = "invalid")
      PROVE  ran \in Call /\ Base(ran, live)
  <2>1. ran \in Call /\ ran.ran /\ ran.context /\ ran.head = c.head
        /\ ran.message = c.message /\ ran.stale = c.stale
    BY <1>1 DEF Call
  <2> HIDE DEF ran
  <2>2. Entitled(c) /\ c.message.args # "malformed"
    BY <1>1 DEF Base, Entitled
  <2>3. ValidateArgs => c.message.args = "valid"
    BY <1>1, <1>3, <2>2 DEF Message
  <2> QED
    BY <1>1, <2>1, <2>2, <2>3 DEF Base, Entitled
<1>4. CASE Become(r, {outcome(c, "tool_error", "tool_error", "never")})
  <2> HIDE DEF id, c
  <2>1. Fine(outcome(c, "tool_error", "tool_error", "never"), live)
    BY <1>1, <1>2, AuditedInv, ZenonT(60)
  <2> QED
    BY <1>4, <2>1, BecomeInv DEF CallTool
<1>5. CASE ~(ValidateArgs /\ c.message.args = "invalid")
  <2> HIDE DEF id, c, ran
  <2>1. \A throws \in {"never", "may", "will"} : Fine(outcome(ran, "ok", "result", throws), live)
    BY <1>2, <1>3, <1>5, AuditedInv, ZenonT(60)
  <2>2. \A throws \in {"never", "may", "will"} :
          Fine(outcome(ran, "tool_error", "tool_error", throws), live)
    BY <1>2, <1>3, <1>5, AuditedInv, ZenonT(60)
  <2>3. Fine(Failure(ran), live)
    BY <1>3, <1>5, FailureInv
  <2>4. \/ \E throws \in {"never", "may", "will"} :
             \/ Become(r, {outcome(ran, "ok", "result", throws)})
             \/ Become(r, {outcome(ran, "tool_error", "tool_error", throws)})
        \/ Become(r, {Failure(ran)})
    BY <1>5 DEF CallTool, c, ran, id
  <2>5. UNCHANGED live
    BY DEF CallTool
  <2> HIDE DEF outcome
  <2> QED
    BY <2>1, <2>2, <2>3, <2>4, <2>5, BecomeInv
<1> QED
  BY <1>4, <1>5 DEF CallTool

LEMMA AfterAuditInv ==
  ASSUME IInv, NEW r \in Request, AfterAudit(r) PROVE IInv'
<1> DEFINE c == StopTimer(call[r])
           p == call[r].pending
<1>1. call[r] \in Call /\ Base(call[r], live) /\ p \in Pending
  BY DEF AfterAudit, IInv, TypeOK, CallInv
<1>2. c \in Call /\ Same(call[r], c)
  BY <1>1 DEF StopTimer, Call, Same
<1>3. Base(c, live)
  BY <1>1, <1>2, EntitledSame DEF Same, Base
<1>4. CASE Become(r, {Answered(c, p.answer)})
  <2>1. Fine(Answered(c, p.answer), live)
    BY <1>1, <1>2, <1>3, AnsweredOver, OverInv DEF Pending, Over, Fine
  <2> QED
    BY <1>4, <2>1, BecomeInv DEF AfterAudit
<1>5. CASE Become(r, {Failure(c)}) \/ Become(r, Caught(c))
  <2>1. Fine(Failure(c), live) /\ \A d \in Caught(c) : Fine(d, live)
    BY <1>2, <1>3, FailureInv, CaughtInv
  <2> QED
    BY <1>5, <2>1, BecomeInv DEF AfterAudit
<1> QED
  BY <1>4, <1>5 DEF AfterAudit

\* The catch of the app goes on with the same request.
LEMMA AppCatchInv == ASSUME IInv, NEW r \in Request, AppCatch(r) PROVE IInv'
<1> DEFINE c == call[r]
           taken == [c EXCEPT !.phase = "server_error", !.timer = TRUE,
                              !.entries = Append(@, "server_error")]
           lost == [c EXCEPT !.phase = "lost"]
<1>1. c \in Call /\ Base(c, live)
  BY DEF AppCatch, IInv, TypeOK, CallInv
<1>2. Append(c.entries, "server_error") \in Seq(Kind)
  BY <1>1 DEF Call, Kind
<1>3. Over(taken) /\ Same(c, taken)
  BY <1>1, <1>2 DEF Over, Same, Call
<1>4. Over(lost) /\ Same(c, lost)
  BY <1>1 DEF Over, Same, Call
<1>5. Become(r, {taken, lost})
  BY DEF AppCatch
<1> HIDE DEF c, taken, lost
<1>6. Fine(taken, live) /\ Fine(lost, live)
  BY <1>1, <1>3, <1>4, OverInv DEF Fine, Over
<1> QED
  BY <1>5, <1>6, BecomeInv DEF AppCatch

LEMMA AfterServerErrorInv == ASSUME IInv, NEW r \in Request, AfterServerError(r) PROVE IInv'
<1> DEFINE c == StopTimer(call[r])
<1>1. call[r] \in Call /\ Base(call[r], live)
  BY DEF AfterServerError, IInv, TypeOK, CallInv
<1>2. c \in Call /\ Same(call[r], c)
  BY <1>1 DEF StopTimer, Call, Same
<1>3. Base(c, live)
  BY <1>1, <1>2, EntitledSame DEF Same, Base
<1> QED
  BY <1>2, <1>3, FailureInv, BecomeInv DEF AfterServerError

LEMMA InvalidateInv == ASSUME IInv, NEW t \in Token, Invalidate(t) PROVE IInv'
<1>1. TypeOK'
  BY DEF Invalidate, IInv, TypeOK
<1>2. \A r \in Request : CallInv(call[r], live')
  BY DEF Invalidate, IInv, CallInv, Base
<1> QED
  BY <1>1, <1>2 DEF Invalidate, IInv

-----------------------------------------------------------------------------
LEMMA NextInv == ASSUME McpDispatchAssumption, IInv, [Next]_vars PROVE IInv'
<1>1. CASE UNCHANGED vars
  BY <1>1 DEF vars, IInv, TypeOK
<1>2. CASE \E t \in Token : Invalidate(t)
  BY <1>2, InvalidateInv
<1>3. ASSUME NEW r \in Request,
             \/ Arrive(r) \/ BadBody(r) \/ Body(r)
             \/ Authenticate(r) \/ Context(r) \/ CallTool(r)
             \/ SinkSettles(r) \/ TimerFires(r) \/ AppCatch(r)
      PROVE  IInv'
  <2>1. SinkSettles(r) \/ TimerFires(r) => AfterAudit(r) \/ AfterServerError(r)
    BY DEF SinkSettles, TimerFires
  <2> QED
    BY <1>3, <2>1, McpDispatchAssumption, ArriveInv, BadBodyInv, BodyInv, AuthenticateInv,
       ContextInv, CallToolInv, AfterAuditInv, AppCatchInv, AfterServerErrorInv
<1> QED
  BY <1>1, <1>2, <1>3 DEF Next

LEMMA Invariance == Spec => []IInv
<1>1. Init => IInv
  BY InitInv
<1>2. IInv /\ [Next]_vars => IInv'
  BY NextInv, McpDispatchAssumption
<1> QED
  BY <1>1, <1>2, PTL DEF Spec

\* The state of every handler stays within its type.
THEOREM TypeCorrect == Spec => []TypeOK
<1>1. IInv => TypeOK
  BY DEF IInv
<1> QED
  BY <1>1, Invariance, PTL

\* The context port and the tool are reached only by calls that were entitled
\* to them, whatever the host's ports and the other requests do in between.
THEOREM HostReachedByEntitledOnly == Spec => []OnlyEntitledCallsReachTheHost
<1>1. IInv => OnlyEntitledCallsReachTheHost
  BY DEF IInv, CallInv, Base, Untouched, OnlyEntitledCallsReachTheHost
<1> QED
  BY <1>1, Invariance, PTL
-----------------------------------------------------------------------------
(* What the client and the audit trail are told.  Until a handler has      *)
(* chosen its answer nothing is written; from then on the trail agrees     *)
(* with the answer that waits, and again with the one that is sent.        *)

\* The entries and the id that go with an answer.
TrailOf(entries, ran, told) ==
  CASE told \in Refusals \cup {"tool_error"} -> entries = <<told>>
    [] told = "internal_error" ->
         LET n == Len(entries) IN
         /\ n \in 1..3 /\ entries[n] = told
         /\ \A i \in 1..n - 1 : entries[i] # told
         /\ n = 3 => entries[2] = "server_error"
    [] told = "result" /\ ran -> entries = <<"ok">>
    [] OTHER -> entries = <<>>

IdOf(m, a) ==
  m # None /\ a.kind # "internal_error" => a.id = (HasId(m) /\ a.kind # "accepted")

Told(c, a) == TrailOf(c.entries, c.ran, a.kind) /\ IdOf(c.message, a)

Quiet(c) == c.entries = <<>> /\ ~c.ran /\ ~c.timer

\* What may stand in the trail before a failure is written, in the inner catch
\* and after the OAuth sink was told.
AtMostOne(entries) ==
  Len(entries) <= 1 /\ \A i \in 1..Len(entries) : entries[i] # "internal_error"

NoFailureYet(entries) ==
  LET n == Len(entries) IN
  /\ n <= 2 /\ \A i \in 1..n : entries[i] # "internal_error"
  /\ n = 2 => entries[2] = "server_error"

Tale(c) ==
  /\ c.phase \in {"new", "body"} => Quiet(c) /\ c.message = None
  /\ c.phase \in {"authenticate", "context", "tool"} => Quiet(c)
  /\ c.phase = "audit" =>
       Told(c, c.pending.answer) /\ (c.pending.throws # "never" => AtMostOne(c.entries))
  /\ c.phase = "done" => Told(c, c.answer)
  /\ c.phase = "rejected" => AtMostOne(c.entries)
  /\ c.phase = "server_error" => NoFailureYet(c.entries)
  /\ c.phase \in {"done", "rejected", "lost"} => ~c.timer

TInv == \A r \in Request : Tale(call[r])

\* Answers that leave no entry.
Silent == Kind \ (Refusals \cup {"tool_error", "internal_error"})

LEMMA AnsweredTale ==
  ASSUME NEW c \in Call, Quiet(c), NEW kind \in Silent, NEW status, NEW id,
         c.message = None \/ id = (HasId(c.message) /\ kind # "accepted")
  PROVE  Tale(Answered(c, A(kind, status, id)))
<1> DEFINE a == A(kind, status, id)
           d == Answered(c, a)
<1>1. a.kind = kind /\ a.id = id
  BY DEF A
<1> HIDE DEF a
<1>2. /\ d.phase = "done" /\ d.answer = a /\ d.entries = <<>> /\ ~d.ran /\ ~d.timer
      /\ d.message = c.message
  BY DEF Answered, Call, Quiet
<1> HIDE DEF d
<1>3. TrailOf(d.entries, d.ran, kind)
  BY <1>2 DEF TrailOf, Silent
<1>4. IdOf(d.message, a)
  BY <1>1, <1>2 DEF IdOf
<1>5. Tale(d)
  BY <1>1, <1>2, <1>3, <1>4 DEF Tale, Told
<1> QED
  BY <1>5 DEF d, a

\* The first entry of a handler, which is told to the client as well.
LEMMA AuditedTale ==
  ASSUME NEW c \in Call, c.entries = <<>>, NEW entry, NEW kind, NEW status, NEW id,
         NEW throws,
         \/ kind \in Refusals \cup {"tool_error"} /\ entry = kind
         \/ kind = "result" /\ entry = "ok" /\ c.ran,
         c.message = None \/ id = (HasId(c.message) /\ kind # "accepted")
  PROVE  Tale(Audited(c, entry, A(kind, status, id), throws))
<1> DEFINE a == A(kind, status, id)
           p == [answer |-> a, throws |-> throws]
           d == Audited(c, entry, a, throws)
<1>1. a.kind = kind /\ a.id = id
  BY DEF A
<1>2. p.answer = a /\ p.throws = throws
  OBVIOUS
<1> HIDE DEF a
<1>3. Append(<<>>, entry) = <<entry>>
  OBVIOUS
<1>4. /\ d.phase = "audit" /\ d.pending = p /\ d.entries = Append(c.entries, entry)
      /\ d.ran = c.ran /\ d.message = c.message
  BY DEF Audited, Call
<1> HIDE DEF d, p
<1>5. d.entries = <<entry>>
  BY <1>3, <1>4
<1>6. TrailOf(d.entries, d.ran, kind)
  BY <1>4, <1>5 DEF TrailOf, Refusals
<1>7. IdOf(d.message, a)
  BY <1>1, <1>4 DEF IdOf
<1>8. AtMostOne(d.entries)
  BY <1>5 DEF AtMostOne, Refusals
<1>9. Tale(d)
  BY <1>1, <1>2, <1>4, <1>6, <1>7, <1>8 DEF Tale, Told
<1> QED
  BY <1>9 DEF d, a

\* A refusal before the body is read.
LEMMA DeniedTale ==
  ASSUME NEW c \in Call, Quiet(c), c.message = None,
         NEW reason \in Refusals, NEW status, NEW throws
  PROVE  Tale(Audited(c, reason, A(reason, status, FALSE), throws))
<1>1. c.entries = <<>>
  BY DEF Quiet
<1> DEFINE id == FALSE
<1>2. c.message = None \/ id = (HasId(c.message) /\ reason # "accepted")
  OBVIOUS
<1> HIDE DEF id
<1>3. Tale(Audited(c, reason, A(reason, status, id), throws))
  BY <1>1, <1>2, AuditedTale
<1> QED
  BY <1>3 DEF id

LEMMA AtMostOneIsNoFailure ==
  ASSUME NEW entries \in Seq(Kind), AtMostOne(entries)
  PROVE  NoFailureYet(entries)
BY DEF AtMostOne, NoFailureYet

\* A failure adds the last entry.
LEMMA FailureTale ==
  ASSUME NEW c \in Call, NoFailureYet(c.entries)
  PROVE  Tale(Failure(c))
<1> DEFINE a == A("internal_error", 500, FALSE)
           p == [answer |-> a, throws |-> "never"]
           d == Failure(c)
           n == Len(c.entries)
<1>1. a.kind = "internal_error" /\ p.answer = a /\ p.throws = "never"
  BY DEF A
<1> HIDE DEF a
<1>2. /\ d.phase = "audit" /\ d.pending = p
      /\ d.entries = Append(c.entries, "internal_error")
  BY DEF Failure, Audited, Call, a
<1> HIDE DEF p, d
<1>3. c.entries \in Seq(Kind) /\ "internal_error" \in Kind
  BY DEF Call, Kind
<1>4. /\ n \in Nat /\ n <= 2 /\ Len(d.entries) = n + 1
      /\ d.entries[n + 1] = "internal_error"
      /\ \A i \in 1..n : d.entries[i] = c.entries[i]
  BY <1>2, <1>3 DEF NoFailureYet
<1>5. /\ \A i \in 1..n : c.entries[i] # "internal_error"
      /\ n = 2 => c.entries[2] = "server_error"
  BY DEF NoFailureYet
<1> HIDE DEF n
<1>6. TrailOf(d.entries, d.ran, "internal_error")
  <2> DEFINE m == Len(d.entries)
  <2>1. m \in 1..3 /\ d.entries[m] = "internal_error"
    BY <1>4
  <2>2. \A i \in 1..m - 1 : d.entries[i] # "internal_error"
    <3>1. 1..m - 1 = 1..n
      BY <1>4
    <3> QED
      BY <1>4, <1>5, <3>1
  <2>3. ASSUME m = 3 PROVE d.entries[2] = "server_error"
    <3>1. n = 2
      <4>1. n + 1 = 3
        BY <1>4, <2>3
      <4> QED
        BY <1>4, <4>1
    <3>2. 2 \in 1..n
      BY <3>1
    <3> QED
      BY <1>4, <1>5, <3>1, <3>2
  <2>4. "internal_error" \notin Refusals \cup {"tool_error"}
    BY DEF Refusals
  <2> HIDE DEF d
  <2> QED
    BY <2>1, <2>2, <2>3, <2>4 DEF TrailOf
<1>7. IdOf(d.message, a)
  BY <1>1 DEF IdOf
<1>8. Tale(d)
  BY <1>1, <1>2, <1>6, <1>7 DEF Tale, Told
<1> QED
  BY <1>8 DEF d

\* It is written at once, or left to the catch of the app.
LEMMA CaughtTale ==
  ASSUME NEW c \in Call, AtMostOne(c.entries), ~c.timer, NEW d \in Caught(c)
  PROVE  Tale(d)
<1>1. CASE d = Failure(c)
  BY <1>1, AtMostOneIsNoFailure, FailureTale DEF Call
<1>2. CASE d = [c EXCEPT !.phase = "rejected"]
  BY <1>2 DEF Tale, Call
<1> QED
  BY <1>1, <1>2 DEF Caught

LEMMA QuietIsAtMostOne ==
  ASSUME NEW c, c.entries = <<>>
  PROVE  AtMostOne(c.entries)
BY DEF AtMostOne

LEMMA BecomeTale ==
  ASSUME IInv, TInv, NEW r \in Request, NEW S, Become(r, S), \A d \in S : Tale(d)
  PROVE  TInv'
BY DEF Become, TInv, IInv, TypeOK

LEMMA HeadTale ==
  ASSUME NEW c \in Call, Quiet(c), c.message = None
  PROVE  Tale(OnHead(c))
<1> DEFINE denied == Audited(c, "origin_not_allowed", A("origin_not_allowed", 403, FALSE), "never")
           options == Answered(c, A("options", 204, FALSE))
           notAllowed == Answered(c, A("method_not_allowed", 405, FALSE))
           query == Audited(c, "query_string_token", A("query_string_token", 401, FALSE), "may")
           unauthorized == Audited(c, "unauthorized", A("unauthorized", 401, FALSE), "may")
           goesOn == [c EXCEPT !.phase = "body"]
<1>1. "options" \in Silent /\ "method_not_allowed" \in Silent
  BY DEF Silent, Kind, Refusals
<1>2. /\ "origin_not_allowed" \in Refusals /\ "query_string_token" \in Refusals
      /\ "unauthorized" \in Refusals
  BY DEF Refusals
<1>3. Tale(denied) /\ Tale(query) /\ Tale(unauthorized)
  BY <1>2, DeniedTale
<1>4. Tale(options) /\ Tale(notAllowed)
  BY <1>1, AnsweredTale
<1>5. Tale(goesOn)
  BY DEF Tale, Quiet, Call
<1>6. OnHead(c) \in {denied, options, notAllowed, query, unauthorized, goesOn}
  BY DEF OnHead, Denied
<1> HIDE DEF denied, options, notAllowed, query, unauthorized, goesOn
<1> QED
  BY <1>3, <1>4, <1>5, <1>6

LEMMA HandleTale ==
  ASSUME NEW c \in Call, Quiet(c), c.message \in Message
  PROVE  Tale(Handle(c))
<1> DEFINE id == HasId(c.message)
           badParams == Answered(c, A("invalid_params", 200, id))
           unknown == Audited(c, "unknown_tool", A("unknown_tool", 200, id), "never")
           status == IF c.principal = None THEN 401 ELSE 403
           missing == Audited(c, "missing_scope", A("missing_scope", status, id), "may")
           badArgs == Audited(c, "invalid_arguments", A("invalid_arguments", 200, id), "never")
           reached == [c EXCEPT !.phase = "context", !.context = TRUE]
           result == Answered(c, A("result", 200, id))
           notFound == Answered(c, A("method_not_found", 200, id))
<1>1. {"invalid_params", "result", "method_not_found"} \subseteq Silent
  BY DEF Silent, Kind, Refusals
<1>2. {"unknown_tool", "missing_scope", "invalid_arguments"} \subseteq Refusals \cup {"tool_error"}
  BY DEF Refusals
<1>3. c.entries = <<>>
  BY DEF Quiet
<1>4. /\ id = (HasId(c.message) /\ "invalid_params" # "accepted")
      /\ id = (HasId(c.message) /\ "result" # "accepted")
      /\ id = (HasId(c.message) /\ "method_not_found" # "accepted")
      /\ id = (HasId(c.message) /\ "unknown_tool" # "accepted")
      /\ id = (HasId(c.message) /\ "missing_scope" # "accepted")
      /\ id = (HasId(c.message) /\ "invalid_arguments" # "accepted")
  BY DEF HasId
<1>5. Handle(c) \in {badParams, unknown, missing, badArgs, reached, result, notFound}
  <2> HIDE DEF id, status
  <2>1. ToolsCall(c) \in {badParams, unknown, missing, badArgs, reached}
    BY DEF ToolsCall, id, status
  <2>2. c.message.method # "tools/call" => Handle(c) \in {result, notFound}
    BY DEF Handle, id
  <2>3. c.message.method = "tools/call" => Handle(c) = ToolsCall(c)
    BY DEF Handle
  <2> HIDE DEF badParams, unknown, missing, badArgs, reached, result, notFound
  <2> QED
    BY <2>1, <2>2, <2>3
<1> HIDE DEF id, status
<1>6. Tale(unknown) /\ Tale(missing) /\ Tale(badArgs)
  BY <1>2, <1>3, <1>4, AuditedTale
<1>7. Tale(badParams) /\ Tale(result) /\ Tale(notFound)
  BY <1>1, <1>4, AnsweredTale
<1>8. Tale(reached)
  BY DEF Tale, Quiet, Call
<1> HIDE DEF badParams, unknown, missing, badArgs, reached, result, notFound
<1> QED
  BY <1>5, <1>6, <1>7, <1>8
-----------------------------------------------------------------------------
LEMMA InitTale == Init => TInv
BY DEF Init, TInv, Tale, Quiet, Fresh

LEMMA ArriveTale == ASSUME IInv, TInv, NEW r \in Request, Arrive(r) PROVE TInv'
<1> DEFINE start(h) == [call[r] EXCEPT !.head = h, !.stale = h.bearer \notin live]
<1>1. PICK h \in RequestHead : Become(r, {OnHead(start(h))})
  BY DEF Arrive
<1>2. call[r] \in Call /\ Quiet(call[r]) /\ call[r].message = None
  BY DEF Arrive, IInv, TypeOK, TInv, Tale
<1>3. start(h) \in Call /\ Quiet(start(h)) /\ start(h).message = None
  BY <1>2 DEF Call, Quiet
<1> HIDE DEF start
<1> QED
  BY <1>1, <1>3, HeadTale, BecomeTale

LEMMA BadBodyTale == ASSUME IInv, TInv, NEW r \in Request, BadBody(r) PROVE TInv'
<1> DEFINE c == call[r]
           status(b) == IF b = "too_large" THEN 413 ELSE 400
           known(e) == [c EXCEPT !.message = e]
<1>1. c \in Call /\ Quiet(c) /\ c.message = None
  BY DEF BadBody, IInv, TypeOK, TInv, Tale
<1>2. CASE \E b \in Unread : Become(r, {Answered(c, A(b, status(b), FALSE))})
  <2>1. PICK b \in Unread : Become(r, {Answered(c, A(b, status(b), FALSE))})
    BY <1>2
  <2>2. b \in Silent
    BY DEF Unread, Silent, Kind, Refusals
  <2> HIDE DEF status, c
  <2> QED
    BY <1>1, <2>1, <2>2, AnsweredTale, BecomeTale
<1>3. CASE \E e \in BadEnvelope : Become(r, {Answered(known(e), EnvelopeError(e))})
  <2>1. PICK e \in BadEnvelope : Become(r, {Answered(known(e), EnvelopeError(e))})
    BY <1>3
  <2>2. known(e) \in Call /\ Quiet(known(e)) /\ known(e).message = e
    BY <1>1 DEF Call, Quiet
  <2> DEFINE kind == IF ~e.jsonrpc THEN "bad_version"
                     ELSE IF e.id = "illegal" THEN "bad_id" ELSE "bad_method"
             id == HasId(e)
  <2>3. kind \in Silent /\ id = (HasId(e) /\ kind # "accepted")
    BY DEF Silent, Kind, Refusals, HasId
  <2>4. EnvelopeError(e) = A(kind, 400, id)
    BY DEF EnvelopeError
  <2> HIDE DEF known, kind, id
  <2>5. Tale(Answered(known(e), A(kind, 400, id)))
    BY <2>2, <2>3, AnsweredTale
  <2> QED
    BY <2>1, <2>4, <2>5, BecomeTale
<1> QED
  BY <1>2, <1>3 DEF BadBody

LEMMA BodyTale == ASSUME IInv, TInv, NEW r \in Request, Body(r) PROVE TInv'
<1> DEFINE known(m) == [call[r] EXCEPT !.message = m]
           old(m) == Answered(known(m), A("unsupported_version", 400, HasId(m)))
           accepted(m) == Answered(known(m), A("accepted", 202, FALSE))
           waits(m) == [known(m) EXCEPT !.phase = "authenticate"]
           out(m) == IF m.method # "initialize" /\ ~known(m).head.version THEN old(m)
                     ELSE IF isNotification(m) THEN accepted(m)
                     ELSE IF m.method \in PublicMethods THEN Handle(known(m))
                     ELSE waits(m)
<1>1. PICK m \in Message : Become(r, {out(m)})
  BY DEF Body
<1>2. call[r] \in Call /\ Quiet(call[r])
  BY DEF Body, IInv, TypeOK, TInv, Tale
<1>3. known(m) \in Call /\ Quiet(known(m)) /\ known(m).message = m
  BY <1>2 DEF Call, Quiet
<1> HIDE DEF known
<1>4. "unsupported_version" \in Silent /\ "accepted" \in Silent
  BY DEF Silent, Kind, Refusals
<1>5. HasId(m) = (HasId(m) /\ "unsupported_version" # "accepted")
  BY DEF HasId
<1>6. Tale(old(m))
  BY <1>3, <1>4, <1>5, AnsweredTale
<1>7. Tale(accepted(m))
  BY <1>3, <1>4, AnsweredTale
<1>8. Tale(Handle(known(m)))
  BY <1>3, HandleTale
<1>9. Tale(waits(m))
  BY <1>3 DEF Tale, Quiet, Call
<1>10. Tale(out(m))
  <2> HIDE DEF old, accepted, waits
  <2> QED
    BY <1>6, <1>7, <1>8, <1>9
<1> HIDE DEF out
<1> QED
  BY <1>1, <1>10, BecomeTale

LEMMA AuthenticateTale ==
  ASSUME McpDispatchAssumption, IInv, TInv, NEW r \in Request, Authenticate(r) PROVE TInv'
<1> DEFINE c == call[r]
           b == c.head.bearer
           known == [c EXCEPT !.principal = Principal(b)]
<1>1. c \in Call /\ Quiet(c) /\ c.message \in Message
  BY DEF Authenticate, IInv, TypeOK, CallInv, TInv, Tale
<1>2. CASE Verified(b) /\ Become(r, {Handle(known)})
  <2>1. b \in Token
    BY <1>2 DEF Verified, IInv, TypeOK
  <2>2. Principal(b) \in [token : Token, scopes : SUBSET (Scope \cup {Wildcard})]
    BY <2>1, McpDispatchAssumption DEF Principal
  <2>3. known \in Call /\ Quiet(known) /\ known.message \in Message
    BY <1>1, <2>2 DEF Call, Quiet
  <2> HIDE DEF known
  <2> QED
    BY <1>2, <2>3, HandleTale, BecomeTale
<1>3. CASE Become(r, {Refused(c)})
  <2>1. "unauthorized" \in Refusals \cup {"tool_error"}
    BY DEF Refusals
  <2>2. c.entries = <<>> /\ HasId(c.message) = (HasId(c.message) /\ "unauthorized" # "accepted")
    BY <1>1 DEF Quiet, HasId
  <2> HIDE DEF c
  <2>3. Tale(Refused(c))
    BY <1>1, <2>1, <2>2, AuditedTale DEF Refused
  <2> QED
    BY <1>3, <2>3, BecomeTale
<1>4. CASE Become(r, Caught(c))
  <2>1. AtMostOne(c.entries) /\ ~c.timer
    BY <1>1, QuietIsAtMostOne DEF Quiet
  <2> HIDE DEF c
  <2> QED
    BY <1>1, <1>4, <2>1, CaughtTale, BecomeTale
<1> QED
  BY <1>2, <1>3, <1>4 DEF Authenticate

LEMMA ContextTale == ASSUME IInv, TInv, NEW r \in Request, Context(r) PROVE TInv'
<1> DEFINE c == call[r]
           next == [c EXCEPT !.phase = "tool"]
<1>1. c \in Call /\ Quiet(c)
  BY DEF Context, IInv, TypeOK, TInv, Tale
<1>2. Tale(next)
  BY <1>1 DEF Tale, Quiet, Call
<1>3. AtMostOne(c.entries) /\ ~c.timer
  BY <1>1, QuietIsAtMostOne DEF Quiet
<1> HIDE DEF next, c
<1>4. \A d \in Caught(c) : Tale(d)
  BY <1>1, <1>3, CaughtTale
<1> QED
  BY <1>2, <1>4, BecomeTale DEF Context, next, c

LEMMA CallToolTale == ASSUME IInv, TInv, NEW r \in Request, CallTool(r) PROVE TInv'
<1> DEFINE c == call[r]
           id == HasId(c.message)
           ran == [c EXCEPT !.ran = TRUE]
           outcome(d, entry, kind, throws) == Audited(d, entry, A(kind, 200, id), throws)
<1>1. c \in Call /\ Quiet(c) /\ c.message \in Message
  BY DEF CallTool, IInv, TypeOK, CallInv, TInv, Tale
<1>2. id = (HasId(c.message) /\ "tool_error" # "accepted") /\ id = (HasId(c.message) /\ "result" # "accepted")
  BY DEF HasId
<1>3. /\ ran \in Call /\ ran.ran /\ ran.message = c.message
      /\ ran.entries = <<>> /\ ~ran.timer
  BY <1>1 DEF Call, Quiet
<1>4. c.entries = <<>>
  BY <1>1 DEF Quiet
<1>5. \/ Become(r, {outcome(c, "tool_error", "tool_error", "never")})
      \/ \E throws \in {"never", "will"} :
           \/ Become(r, {outcome(ran, "ok", "result", throws)})
           \/ Become(r, {outcome(ran, "tool_error", "tool_error", throws)})
      \/ Become(r, {Failure(ran)})
  BY DEF CallTool
<1> HIDE DEF c, id, ran
<1>6. Tale(outcome(c, "tool_error", "tool_error", "never"))
  BY <1>1, <1>2, <1>4, AuditedTale
<1>7. \A throws \in {"never", "will"} : Tale(outcome(ran, "ok", "result", throws))
  BY <1>2, <1>3, AuditedTale
<1>8. \A throws \in {"never", "will"} : Tale(outcome(ran, "tool_error", "tool_error", throws))
  BY <1>2, <1>3, AuditedTale
<1>9. Tale(Failure(ran))
  <2>1. NoFailureYet(ran.entries)
    BY <1>3 DEF NoFailureYet
  <2> QED
    BY <1>3, <2>1, FailureTale
<1> HIDE DEF outcome
<1> QED
  BY <1>5, <1>6, <1>7, <1>8, <1>9, BecomeTale

\* The answer that waits is sent with its entry, or its failure adds one.
LEMMA AfterAuditTale ==
  ASSUME IInv, TInv, NEW r \in Request, AfterAudit(r) PROVE TInv'
<1> DEFINE c == StopTimer(call[r])
           p == call[r].pending
<1>1. call[r] \in Call /\ p \in Pending
  BY DEF AfterAudit, IInv, TypeOK, CallInv
<1>2. Told(call[r], p.answer) /\ (p.throws # "never" => AtMostOne(call[r].entries))
  BY DEF AfterAudit, TInv, Tale
<1>3. /\ c \in Call /\ ~c.timer /\ c.entries = call[r].entries /\ c.ran = call[r].ran
      /\ c.message = call[r].message
  BY <1>1 DEF StopTimer, Call
<1> HIDE DEF c
<1>4. CASE Become(r, {Answered(c, p.answer)})
  <2> DEFINE d == Answered(c, p.answer)
  <2>1. /\ d.phase = "done" /\ d.answer = p.answer /\ ~d.timer /\ d.entries = c.entries
        /\ d.ran = c.ran /\ d.message = c.message
    BY <1>3 DEF Answered, Call
  <2> HIDE DEF d
  <2>2. Tale(d)
    BY <1>2, <1>3, <2>1 DEF Tale, Told
  <2> QED
    BY <1>4, <2>2, BecomeTale DEF d
<1>5. CASE p.throws = "may" /\ Become(r, {Failure(c)})
  <2>1. NoFailureYet(c.entries)
    BY <1>2, <1>3, <1>5, AtMostOneIsNoFailure DEF Call
  <2> QED
    BY <1>3, <1>5, <2>1, FailureTale, BecomeTale
<1>6. CASE p.throws = "will" /\ Become(r, Caught(c))
  BY <1>2, <1>3, <1>6, CaughtTale, BecomeTale
<1> QED
  BY <1>4, <1>5, <1>6 DEF AfterAudit, c

LEMMA AppCatchTale == ASSUME IInv, TInv, NEW r \in Request, AppCatch(r) PROVE TInv'
<1> DEFINE c == call[r]
           taken == [c EXCEPT !.phase = "server_error", !.timer = TRUE,
                              !.entries = Append(@, "server_error")]
           lost == [c EXCEPT !.phase = "lost"]
<1>1. c \in Call /\ AtMostOne(c.entries) /\ ~c.timer
  BY DEF AppCatch, IInv, TypeOK, TInv, Tale
<1>2. c.entries \in Seq(Kind)
  BY <1>1 DEF Call
<1>3. taken.phase = "server_error" /\ taken.entries = Append(c.entries, "server_error")
  BY <1>1 DEF Call
<1>4. lost.phase = "lost" /\ ~lost.timer
  BY <1>1 DEF Call
<1>5. Become(r, {taken, lost})
  BY DEF AppCatch
<1> HIDE DEF c, taken, lost
<1>6. NoFailureYet(taken.entries)
  BY <1>1, <1>2, <1>3 DEF AtMostOne, NoFailureYet
<1>7. Tale(taken) /\ Tale(lost)
  BY <1>3, <1>4, <1>6 DEF Tale
<1> QED
  BY <1>5, <1>7, BecomeTale

LEMMA AfterServerErrorTale ==
  ASSUME IInv, TInv, NEW r \in Request, AfterServerError(r) PROVE TInv'
<1> DEFINE c == StopTimer(call[r])
<1>1. call[r] \in Call /\ NoFailureYet(call[r].entries)
  BY DEF AfterServerError, IInv, TypeOK, TInv, Tale
<1>2. c \in Call /\ c.entries = call[r].entries
  BY <1>1 DEF StopTimer, Call
<1>3. Become(r, {Failure(c)})
  BY DEF AfterServerError
<1> HIDE DEF c
<1> QED
  BY <1>1, <1>2, <1>3, FailureTale, BecomeTale

LEMMA NextTale == ASSUME McpDispatchAssumption, IInv, TInv, [Next]_vars PROVE TInv'
<1>1. CASE UNCHANGED vars
  BY <1>1 DEF vars, TInv
<1>2. CASE \E t \in Token : Invalidate(t)
  BY <1>2 DEF Invalidate, TInv
<1>3. ASSUME NEW r \in Request,
             \/ Arrive(r) \/ BadBody(r) \/ Body(r)
             \/ Authenticate(r) \/ Context(r) \/ CallTool(r)
             \/ SinkSettles(r) \/ TimerFires(r) \/ AppCatch(r)
      PROVE  TInv'
  <2>1. SinkSettles(r) \/ TimerFires(r) => AfterAudit(r) \/ AfterServerError(r)
    BY DEF SinkSettles, TimerFires
  <2> QED
    BY <1>3, <2>1, McpDispatchAssumption, ArriveTale, BadBodyTale, BodyTale, AuthenticateTale,
       ContextTale, CallToolTale, AfterAuditTale, AppCatchTale, AfterServerErrorTale
<1> QED
  BY <1>1, <1>2, <1>3 DEF Next

LEMMA Trail == Spec => []TInv
<1>1. Init => TInv
  BY InitTale
<1>2. IInv /\ TInv /\ [Next]_vars => TInv'
  BY NextTale, McpDispatchAssumption
<1> QED
  BY <1>1, <1>2, Invariance, PTL DEF Spec

\* The audit trail of every request that was answered agrees with the answer,
\* whichever port failed and whether the sink or its timer came first.
THEOREM TheTrailIsTrue == Spec => []AuditTellsTheAnswer
<1>1. TInv => AuditTellsTheAnswer
  BY DEF TInv, Tale, Told, TrailOf, AuditTellsTheAnswer
<1> QED
  BY <1>1, Trail, PTL

\* Every answer to a body that is a JSON object, a refused envelope included, but
\* a failure's carries the id of its request, whenever that has a legal one.
THEOREM IdsAreEchoed == Spec => []AnswersCarryTheirId
<1>1. TInv => AnswersCarryTheirId
  BY DEF TInv, Tale, Told, IdOf, AnswersCarryTheirId
<1> QED
  BY <1>1, Trail, PTL

\* No audit timer outlives the request it was started for: the safety half of
\* EveryRequestEnds, for a sink that settles first as for one that never does.
THEOREM NoTimerOutlivesItsRequest ==
  Spec => [](\A r \in Request : call[r].phase \in {"done", "rejected", "lost"} => ~call[r].timer)
<1>1. TInv => \A r \in Request : call[r].phase \in {"done", "rejected", "lost"} => ~call[r].timer
  BY DEF TInv, Tale
<1> QED
  BY <1>1, Trail, PTL

=============================================================================
