------------------------------- MODULE ToolCall -------------------------------
(***************************************************************************)
(* registry.call of one tool, which is what McpDispatch!CallTool does in   *)
(* one step: validation of the arguments, the Standard Schema parser of    *)
(* defineTool, the handler, and for an apiTool the exchange with the       *)
(* upstream API, which ends by an answer, by its timer, or by an abort of  *)
(* the caller.  The signal of the caller may be shared by many calls and   *)
(* outlive them all.                                                       *)
(*                                                                         *)
(* The upstream answers as it likes.  fetch and the reader of a body end   *)
(* on their own, in an event of its own, once their signal has aborted.    *)
(***************************************************************************)
CONSTANTS
  Call,            \* concurrent calls
  Tool,            \* the tools a registry is built with, one at a time: records
                   \* [schema, inputs, parsed, api, timed, native]
  Accepts(_),      \* the checks of a schema at construction
  ErrorsOf(_, _)   \* the errors of arguments under a schema (both: ToolSchema)

(***************************************************************************)
(* inputs: the arguments sent to it.  parsed: it has an `input` validator. *)
(* api: it is an apiTool.  timed: timeoutMs is not false.  native: the     *)
(* runtime has AbortSignal.any.                                            *)
(***************************************************************************)
ASSUME ToolCallAssumption ==
  \A t \in Tool : {t.parsed, t.api, t.timed, t.native} \subseteq BOOLEAN

VARIABLES
  tool,        \* the tool of the registry
  registry,    \* "new", "ready", or "refused" by the constructor
  call,        \* what each call has come to
  aborted,     \* the caller's signal
  listeners    \* the listeners that calls have on it: <<call, purpose>>

vars == <<tool, registry, call, aborted, listeners>>

Success == {"ok", "no content"}
Failure == {"error", "redirect", "not modified", "opaque redirect"}
Response == Success \cup Failure

\* Responses that never have a body; new Response(bytes, {status}) throws for them,
\* even with no bytes: a null body status (204, 205, 304) or one below 200 (0 of an
\* opaque redirect).
NullBody == {"no content", "not modified", "opaque redirect"}

\* cause: history, what ended the open exchange.  caught: what the code caught.
NewCall == [pc |-> "idle", args |-> {}, errors |-> <<>>, signal |-> FALSE,
            timer |-> "off", cut |-> FALSE, response |-> "none", caught |-> "none",
            cause |-> "none", result |-> "none"]

Init ==
  /\ tool \in Tool
  /\ registry = "new"
  /\ call = [c \in Call |-> NewCall]
  /\ aborted = FALSE
  /\ listeners = {}

\* createToolRegistry, with validateArgs at its default.
CreateRegistry ==
  /\ registry = "new"
  /\ registry' = IF Accepts(tool.schema) THEN "ready" ELSE "refused"
  /\ UNCHANGED <<tool, call, aborted, listeners>>

Becomes(c, d) == call' = [call EXCEPT ![c] = d]

Goto(c, pc) == Becomes(c, [call[c] EXCEPT !.pc = pc])

Done(c, result) == Becomes(c, [call[c] EXCEPT !.pc = "done", !.result = result])

-----------------------------------------------------------------------------
(* Arguments. *)

HandlerStart == IF tool.api THEN "request" ELSE "handler"

Arrive(c) ==
  /\ registry = "ready"
  /\ call[c].pc = "idle"
  /\ \E args \in tool.inputs :
       LET errors == ErrorsOf(args, tool.schema)
           valid == errors = <<>>
       IN Becomes(c, [call[c] EXCEPT
            !.args = {args}, !.errors = errors,
            !.pc = IF ~valid THEN "done" ELSE IF tool.parsed THEN "parse" ELSE HandlerStart,
            !.result = IF valid THEN "none" ELSE "invalid arguments"])
  /\ UNCHANGED <<tool, registry, aborted, listeners>>

\* parseWithSchema: the validator answers a value or issues, or throws.
Parse(c) ==
  /\ call[c].pc = "parse"
  /\ \/ Goto(c, HandlerStart)
     \/ \E result \in {"issues", "tool failed"} : Done(c, result)
  /\ UNCHANGED <<tool, registry, aborted, listeners>>

\* The handler of a plain tool, with asToolResult and resolveToolError.
Handler(c) ==
  /\ call[c].pc = "handler"
  /\ \E result \in {"returned", "invalid result", "tool failed"} : Done(c, result)
  /\ UNCHANGED <<tool, registry, aborted, listeners>>

-----------------------------------------------------------------------------
(* fetchWithTimeout. *)

\* anySignal without AbortSignal.any: the combined signal follows by listeners.
Fallback(signal) == tool.timed /\ signal /\ ~tool.native

\* Fault: the fallback listens on a signal that has aborted already.
AbortedUnheard(signal) == signal /\ aborted /\ ~Fallback(signal)

\* What a new exchange follows has aborted before it began.
AbortedBefore(signal) == signal /\ aborted

(***************************************************************************)
(* options.request answers a URL, or a Request, whose signal is then that  *)
(* of the caller, or it throws; then the signals are combined and fetch is *)
(* called.  The combined signal of a caller that has aborted is aborted    *)
(* from the start, and no listener is left on the caller's.                *)
(***************************************************************************)
Request(c) ==
  /\ call[c].pc = "request"
  /\ \/ Done(c, "tool failed") /\ UNCHANGED listeners
     \/ \E signal \in BOOLEAN :
          /\ Becomes(c, [call[c] EXCEPT
               !.pc = "fetch", !.signal = signal, !.cut = AbortedBefore(signal),
               !.cause = IF AbortedBefore(signal) THEN "caller" ELSE "none",
               !.timer = IF tool.timed THEN "running" ELSE "off"])
          /\ listeners' = IF Fallback(signal) /\ ~aborted
                          THEN listeners \cup {<<c, "any">>} ELSE listeners
  /\ UNCHANGED <<tool, registry, aborted>>

\* While the exchange is open an abort decides how it ends.
Open(c) == \/ call[c].pc = "fetch"
           \/ call[c].pc = "settled" /\ call[c].response \in Response
           \/ call[c].pc = "body" /\ call[c].response \notin NullBody

InExchange(c) == call[c].pc \in {"fetch", "settled", "body", "closing"}

Cut(c, cause) ==
  [call[c] EXCEPT !.cut = TRUE,
                  !.cause = IF Open(c) /\ call[c].cause = "none" THEN cause ELSE call[c].cause]

\* The caller aborts: every signal that follows its own does, listeners run once.
AbortCaller ==
  LET Follows(c) == /\ InExchange(c) /\ call[c].signal
                    /\ Fallback(TRUE) => <<c, "any">> \in listeners
  IN /\ ~aborted
     /\ aborted' = TRUE
     /\ call' = [c \in Call |-> IF Follows(c) THEN Cut(c, "caller") ELSE call[c]]
     /\ listeners' = {}
     /\ UNCHANGED <<tool, registry>>

\* Fault: the combined signal is left to the garbage collector.
WithoutDispose(c) == listeners

Dispose(c) == listeners \ {<<c, "any">>}

\* AbortSignal.timeout; a timer that outlives its call finds nobody.
TimerFires(c) ==
  /\ InExchange(c) /\ call[c].timer = "running"
  /\ Becomes(c, [Cut(c, "timer") EXCEPT !.timer = "fired"])
  /\ listeners' = Dispose(c)
  /\ UNCHANGED <<tool, registry, aborted>>

\* fetch resolves with the head of a response, or rejects: the network, a redirect
\* that `redirect: "error"` refuses, or an AbortError of the host's own fetch.
FetchSettles(c) ==
  /\ call[c].pc = "fetch" /\ ~call[c].cut
  /\ \/ \E response \in Response :
          Becomes(c, [call[c] EXCEPT !.pc = "settled", !.response = response])
     \/ \E caught \in {"network error", "AbortError"} :
          Becomes(c, [call[c] EXCEPT !.pc = "settled", !.caught = caught])
  /\ UNCHANGED <<tool, registry, aborted, listeners>>

\* fetch rejects with the reason of the abort: a TimeoutError, or what the caller gave.
FetchIsCut(c) ==
  /\ call[c].pc = "fetch" /\ call[c].cut
  /\ Becomes(c, [call[c] EXCEPT !.pc = "settled",
       !.caught = IF call[c].cause = "timer" THEN "TimeoutError" ELSE "reason"])
  /\ UNCHANGED <<tool, registry, aborted, listeners>>

IsTimeoutError(caught) == caught \in {"TimeoutError", "AbortError", "BodyReadAbortedError"}

\* Fault: the error is looked at before the signal.
ErrorFirst(c, caught) ==
  CASE IsTimeoutError(caught) -> "timed out"
    [] ~IsTimeoutError(caught) /\ call[c].signal /\ aborted -> "cancelled"
    [] OTHER -> "tool failed"

\* abortResult, and what the catch block of registry.call makes of anything else.
AbortResult(c, caught) ==
  CASE call[c].signal /\ aborted -> "cancelled"
    [] ~(call[c].signal /\ aborted) /\ IsTimeoutError(caught) -> "timed out"
    [] OTHER -> "tool failed"

-----------------------------------------------------------------------------
(* boundResponse and readBoundedBytes. *)

\* The listener of the body read is on the caller's signal when nothing was combined.
BodyListeners(c) ==
  IF call[c].signal /\ ~tool.timed /\ call[c].response \notin NullBody
  THEN {<<c, "body">>} ELSE {}

\* The continuation of fetch: a rejection, a signal that aborted meanwhile, a length
\* declared over the cap, or the read begins.
Fetched(c) ==
  /\ call[c].pc = "settled"
  /\ \/ /\ call[c].response = "none"
        /\ Done(c, AbortResult(c, call[c].caught))
        /\ listeners' = Dispose(c)
     \/ /\ call[c].response \in Response /\ call[c].cut
        /\ Done(c, AbortResult(c, "BodyReadAbortedError"))
        /\ listeners' = Dispose(c)
     \/ /\ call[c].response \in Response /\ ~call[c].cut
        /\ \/ Done(c, "too large") /\ listeners' = Dispose(c)
           \/ /\ Goto(c, "body")
              /\ listeners' = listeners \cup BodyListeners(c)
  /\ UNCHANGED <<tool, registry, aborted>>

\* The end of the read, whatever its outcome: its listener goes, and the reader's
\* cancel is awaited.
ReadEnds(c, caught) ==
  /\ call[c].pc = "body"
  /\ Becomes(c, [call[c] EXCEPT !.pc = "closing", !.caught = caught])
  /\ listeners' = listeners \ {<<c, "body">>}
  /\ UNCHANGED <<tool, registry, aborted>>

Read(c) ==
  /\ ~call[c].cut /\ call[c].response \notin NullBody
  /\ \E caught \in {"none", "BodyTooLargeError", "network error"} : ReadEnds(c, caught)

\* No stream: nothing to wait for, and the signal is not looked at.
ReadNothing(c) == call[c].response \in NullBody /\ ReadEnds(c, "none")

\* Fault: the read of the body is not given the signal.
ReadWithoutSignal(c) == FALSE

ReadIsCut(c) ==
  call[c].cut /\ call[c].response \notin NullBody /\ ReadEnds(c, "BodyReadAbortedError")

\* The catch of boundResponse, or the response rebuilt from its bytes; then `finally`.
Closed(c) ==
  /\ call[c].pc = "closing"
  /\ \/ /\ call[c].caught = "BodyTooLargeError"
        /\ Done(c, "too large")
     \/ /\ call[c].caught \notin {"none", "BodyTooLargeError"}
        /\ Done(c, AbortResult(c, call[c].caught))
     \/ /\ call[c].caught = "none"
        /\ IF call[c].response \in NullBody THEN Done(c, "tool failed") ELSE Goto(c, "shape")
  /\ listeners' = Dispose(c)
  /\ UNCHANGED <<tool, registry, aborted>>

\* respond, or onError and its default that tells no more than the status.
Shape(c) ==
  /\ call[c].pc = "shape"
  /\ \/ Done(c, IF call[c].response \in Success THEN "shaped" ELSE "error shaped")
     \/ Done(c, "tool failed")
     \/ Done(c, "invalid result")
  /\ UNCHANGED <<tool, registry, aborted, listeners>>

-----------------------------------------------------------------------------
\* What the library, the platform and the callbacks of the host owe to a call.
Continue(c) ==
  \/ Parse(c) \/ Handler(c) \/ Request(c)
  \/ FetchIsCut(c) \/ Fetched(c)
  \/ ReadNothing(c) \/ ReadIsCut(c) \/ Closed(c) \/ Shape(c)

Upstream(c) == FetchSettles(c) \/ Read(c)

Next ==
  \/ CreateRegistry
  \/ AbortCaller
  \/ \E c \in Call : Arrive(c) \/ Continue(c) \/ TimerFires(c) \/ Upstream(c)

Spec == Init /\ [][Next]_vars

\* Callbacks of the host settle, timers fire, and what is aborted ends.  The upstream
\* owes nothing: neither a response nor the end of a body.
FairSpec == Spec /\ \A c \in Call : WF_vars(Continue(c)) /\ WF_vars(TimerFires(c))

-----------------------------------------------------------------------------
(***************************************************************************)
(* A long-lived signal shared across many calls does not accumulate        *)
(* listeners: one is on it only while its call needs it.                   *)
(***************************************************************************)
NoListenerLeftBehind ==
  \A c \in Call :
    /\ <<c, "any">> \in listeners => InExchange(c)
    /\ <<c, "body">> \in listeners => call[c].pc = "body"

(***************************************************************************)
(* No abort is missed: while an exchange runs it is under its timeout, if  *)
(* it has one, and once its timer has fired or its caller has aborted, be  *)
(* it before the request, with AbortSignal.any or by a listener that       *)
(* another abort has taken off, its fetch and its read are cut.            *)
(***************************************************************************)
AbortsAreHeard ==
  \A c \in Call : InExchange(c) =>
    /\ tool.timed <=> call[c].timer # "off"
    /\ call[c].cut <=> call[c].timer = "fired" \/ (call[c].signal /\ aborted)

(***************************************************************************)
(* The result tells the cause: whatever ended an open exchange first, an   *)
(* abort of the caller is reported as cancelled, whatever reason it was    *)
(* given, and a timeout as timed out, unless the caller aborts too; and    *)
(* neither is reported without having happened.                            *)
(***************************************************************************)
ResultTellsTheCause ==
  \A c \in Call : call[c].pc = "done" =>
    /\ call[c].cause = "caller" => call[c].result = "cancelled"
    /\ call[c].cause = "timer" => \/ call[c].result = "timed out"
                                  \/ call[c].result = "cancelled" /\ call[c].signal
    /\ call[c].result = "cancelled" => call[c].signal /\ aborted
    /\ call[c].result = "timed out" => call[c].timer = "fired" \/ call[c].caught = "AbortError"

(***************************************************************************)
(* A call ends though the upstream never answers, as long as it has a      *)
(* timeout or its caller gives up.                                         *)
(***************************************************************************)
EveryCallEnds ==
  \A c \in Call :
    (call[c].pc # "idle" /\ (~tool.api \/ tool.timed \/ call[c].cut)) ~> (call[c].pc = "done")

(***************************************************************************)
(* `respond` shapes "a 2xx response" (docs/guide.md): a success whose body *)
(* was read reaches it, and is not reported as a failure of the tool.      *)
(***************************************************************************)
SuccessIsShaped ==
  [][\A c \in Call :
       /\ call[c].pc = "closing" /\ call'[c].pc # "closing"
       /\ call[c].response \in Success /\ call[c].caught = "none"
       => call'[c].pc = "shape"]_vars

=============================================================================
