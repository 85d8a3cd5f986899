--------------------------- MODULE ToolCall_proofs ---------------------------
(***************************************************************************)
(* Calls of a tool, for any tools, calls and arguments, whatever a schema  *)
(* admits and however the upstream, the timers and the caller interleave:  *)
(* what is left on the caller's signal, and what a call is told.           *)
(***************************************************************************)
EXTENDS ToolCall, TLAPS

Pc == {"idle", "parse", "handler", "request", "fetch", "settled", "body", "closing",
       "shape", "done"}

Results == {"none", "invalid arguments", "issues", "tool failed", "returned",
            "invalid result", "cancelled", "timed out", "too large", "shaped", "error shaped"}

Errs == {"none", "network error", "AbortError", "TimeoutError", "reason",
         "BodyTooLargeError", "BodyReadAbortedError"}

Args == {{a} : a \in UNION {t.inputs : t \in Tool}}

Errors == {ErrorsOf(a, t.schema) : a \in UNION {t.inputs : t \in Tool}, t \in Tool}

CallState ==
  [pc : Pc, args : {{}} \cup Args, errors : {<<>>} \cup Errors, signal : BOOLEAN,
   timer : {"off", "running", "fired"}, cut : BOOLEAN, response : Response \cup {"none"},
   caught : Errs, cause : {"none", "caller", "timer"}, result : Results]

TypeInv ==
  /\ tool \in Tool
  /\ call \in [Call -> CallState]
  /\ aborted \in BOOLEAN

(***************************************************************************)
(* What is known of an exchange d, in each phase, of the aborts so far.    *)
(* An abort that came while the exchange was open has cut it, and only an  *)
(* abort does; from then on the exchange can only end by it, so that the   *)
(* error that is caught names it: until the exchange is rejected, or its   *)
(* body is.  gone: the caller has aborted.                                 *)
(***************************************************************************)
Story(d, gone) ==
  /\ d.cause = "caller" => d.signal /\ gone /\ d.cut
  /\ d.cause = "timer" => d.timer = "fired" /\ d.cut
  /\ d.cut => d.timer = "fired" \/ (d.signal /\ gone)
  /\ d.caught \in {"TimeoutError", "BodyReadAbortedError"} =>
       d.timer = "fired" \/ (d.signal /\ gone)
  /\ d.pc \in {"idle", "parse", "handler", "request", "shape"} =>
       d.cause = "none" /\ d.caught = "none"
  /\ d.pc = "settled" /\ d.response = "none" /\ d.cause = "timer" =>
       d.caught = "TimeoutError"
  /\ d.pc = "body" /\ d.response \in NullBody => d.cause = "none"
  /\ d.pc = "closing" /\ d.cause # "none" => d.caught = "BodyReadAbortedError"

Told(d, gone) ==
  d.pc = "done" =>
    /\ d.cause = "caller" => d.result = "cancelled"
    /\ d.cause = "timer" => d.result = "timed out" \/ (d.result = "cancelled" /\ d.signal)
    /\ d.result = "cancelled" => d.signal /\ gone
    /\ d.result = "timed out" => d.timer = "fired" \/ d.caught = "AbortError"

StoryInv == \A c \in Call : Story(call[c], aborted) /\ Told(call[c], aborted)
-----------------------------------------------------------------------------
(* What the assignments do to a call: the fields they do not name stay.    *)

Others(c) == \A q \in Call \ {c} : call'[q] = call[q]

\* The fields that tell how the exchange goes, and those that tell of the arguments.
Same(d, e) ==
  /\ e.signal = d.signal /\ e.timer = d.timer /\ e.cut = d.cut
  /\ e.response = d.response /\ e.cause = d.cause

Asked(d, e) == e.args = d.args /\ e.errors = d.errors

LEMMA BecomesOne ==
  ASSUME TypeInv, NEW c \in Call, NEW d \in CallState, Becomes(c, d)
  PROVE  call' \in [Call -> CallState] /\ Others(c) /\ call'[c] = d
BY DEF Becomes, Others, TypeInv

LEMMA GotoFields ==
  ASSUME TypeInv, NEW c \in Call, NEW pc \in Pc, Goto(c, pc)
  PROVE  /\ call' \in [Call -> CallState] /\ Others(c)
         /\ call'[c].pc = pc /\ Same(call[c], call'[c]) /\ Asked(call[c], call'[c])
         /\ call'[c].caught = call[c].caught /\ call'[c].result = call[c].result
<1> DEFINE d == [call[c] EXCEPT !.pc = pc]
<1>1. call[c] \in CallState
  BY DEF TypeInv
<1>2. d \in CallState
  BY <1>1 DEF CallState
<1>3. /\ d.pc = pc /\ Same(call[c], d) /\ Asked(call[c], d) /\ d.caught = call[c].caught
      /\ d.result = call[c].result
  BY <1>1 DEF CallState, Same, Asked
<1>4. Becomes(c, d)
  BY DEF Goto
<1> HIDE DEF d
<1> QED
  BY <1>2, <1>3, <1>4, BecomesOne

LEMMA DoneFields ==
  ASSUME TypeInv, NEW c \in Call, NEW result \in Results, Done(c, result)
  PROVE  /\ call' \in [Call -> CallState] /\ Others(c)
         /\ call'[c].pc = "done" /\ call'[c].result = result
         /\ Same(call[c], call'[c]) /\ Asked(call[c], call'[c]) /\ call'[c].caught = call[c].caught
<1> DEFINE d == [call[c] EXCEPT !.pc = "done", !.result = result]
<1>1. call[c] \in CallState /\ "done" \in Pc
  BY DEF TypeInv, Pc
<1>2. d \in CallState
  BY <1>1 DEF CallState
<1>3. d.pc = "done" /\ d.result = result /\ Same(call[c], d) /\ Asked(call[c], d) /\ d.caught = call[c].caught
  BY <1>1 DEF CallState, Same, Asked
<1>4. Becomes(c, d)
  BY DEF Done
<1> HIDE DEF d
<1> QED
  BY <1>2, <1>3, <1>4, BecomesOne

\* An exchange that ends, or its fetch or body does, with what was caught.
LEMMA CaughtFields ==
  ASSUME TypeInv, NEW c \in Call, NEW pc \in Pc, NEW caught \in Errs,
         Becomes(c, [call[c] EXCEPT !.pc = pc, !.caught = caught])
  PROVE  /\ call' \in [Call -> CallState] /\ Others(c)
         /\ call'[c].pc = pc /\ call'[c].caught = caught /\ Same(call[c], call'[c]) /\ Asked(call[c], call'[c])
         /\ call'[c].result = call[c].result
<1> DEFINE d == [call[c] EXCEPT !.pc = pc, !.caught = caught]
<1>1. call[c] \in CallState
  BY DEF TypeInv
<1>2. d \in CallState
  BY <1>1 DEF CallState
<1>3. /\ d.pc = pc /\ d.caught = caught /\ Same(call[c], d) /\ Asked(call[c], d)
      /\ d.result = call[c].result
  BY <1>1 DEF CallState, Same, Asked
<1> HIDE DEF d
<1> QED
  BY <1>2, <1>3, BecomesOne DEF d

\* What the signal of an exchange does to it when it aborts.
LEMMA CutFields ==
  ASSUME TypeInv, NEW c \in Call, NEW cause \in {"caller", "timer"}
  PROVE  /\ Cut(c, cause) \in CallState /\ Cut(c, cause).cut
         /\ Cut(c, cause).pc = call[c].pc /\ Cut(c, cause).signal = call[c].signal
         /\ Cut(c, cause).timer = call[c].timer /\ Cut(c, cause).caught = call[c].caught
         /\ Cut(c, cause).args = call[c].args /\ Cut(c, cause).errors = call[c].errors
         /\ Cut(c, cause).response = call[c].response /\ Cut(c, cause).result = call[c].result
         /\ Cut(c, cause).cause =
              IF Open(c) /\ call[c].cause = "none" THEN cause ELSE call[c].cause
<1> DEFINE now == IF Open(c) /\ call[c].cause = "none" THEN cause ELSE call[c].cause
           d == [call[c] EXCEPT !.cut = TRUE, !.cause = now]
<1>1. call[c] \in CallState
  BY DEF TypeInv
<1>2. now \in {"none", "caller", "timer"}
  BY <1>1 DEF CallState
<1> HIDE DEF now
<1>3. d \in CallState
  BY <1>1, <1>2 DEF CallState
<1>4. /\ d.cut /\ d.pc = call[c].pc /\ d.signal = call[c].signal
      /\ d.timer = call[c].timer /\ d.caught = call[c].caught
      /\ d.args = call[c].args /\ d.errors = call[c].errors
      /\ d.response = call[c].response /\ d.result = call[c].result /\ d.cause = now
  BY <1>1 DEF CallState
<1>5. Cut(c, cause) = d
  BY DEF Cut, now
<1> HIDE DEF d
<1> QED
  BY <1>3, <1>4, <1>5 DEF now
-----------------------------------------------------------------------------
IInv == TypeInv /\ StoryInv /\ NoListenerLeftBehind

Phases == {"fetch", "settled", "body", "closing"}

\* A step of one call that adds no listener of another.
Left(c) ==
  /\ \A q \in Call \ {c} : /\ <<q, "any">> \in listeners' => <<q, "any">> \in listeners
                           /\ <<q, "body">> \in listeners' => <<q, "body">> \in listeners
  /\ <<c, "any">> \in listeners' => call'[c].pc \in Phases
  /\ <<c, "body">> \in listeners' => call'[c].pc = "body"

LEMMA OneStep ==
  ASSUME IInv, NEW c \in Call, call' \in [Call -> CallState], Others(c),
         UNCHANGED <<tool, aborted>>, Left(c),
         Story(call'[c], aborted), Told(call'[c], aborted)
  PROVE  IInv'
<1>1. TypeInv'
  BY DEF IInv, TypeInv
<1>2. StoryInv'
  BY DEF IInv, StoryInv, Others
<1>3. NoListenerLeftBehind'
  BY DEF IInv, NoListenerLeftBehind, InExchange, Left, Phases, Others
<1> QED
  BY <1>1, <1>2, <1>3 DEF IInv

\* The facts about the call that steps.
LEMMA OneCall ==
  ASSUME IInv, NEW c \in Call
  PROVE  /\ call[c] \in CallState /\ Story(call[c], aborted) /\ Told(call[c], aborted)
         /\ <<c, "any">> \in listeners => call[c].pc \in Phases
         /\ <<c, "body">> \in listeners => call[c].pc = "body"
         /\ TypeInv
BY DEF IInv, TypeInv, StoryInv, NoListenerLeftBehind, InExchange, Phases

LEMMA LeftUnchanged ==
  ASSUME IInv, NEW c \in Call, UNCHANGED listeners, call[c].pc # "body",
         call[c].pc \in Phases => call'[c].pc \in Phases
  PROVE  Left(c)
BY OneCall DEF Left

LEMMA LeftDisposed ==
  ASSUME IInv, NEW c \in Call, listeners' = Dispose(c), call[c].pc # "body"
  PROVE  Left(c)
BY OneCall DEF Left, Dispose

\* The outcome of abortResult tells the cause, if what was caught does.
LEMMA AbortTold ==
  ASSUME NEW c \in Call, NEW caught \in Errs, NEW d,
         d.result = AbortResult(c, caught), d.signal = call[c].signal,
         d.cause = "caller" => d.signal /\ aborted,
         d.cause = "timer" => caught \in {"TimeoutError", "BodyReadAbortedError"},
         caught \in {"TimeoutError", "BodyReadAbortedError"} =>
           d.timer = "fired" \/ (d.signal /\ aborted),
         caught = "AbortError" => d.caught = "AbortError"
  PROVE  Told(d, aborted) /\ AbortResult(c, caught) \in Results
BY DEF Told, AbortResult, IsTimeoutError, Results

LEMMA InitInv == Init => IInv
<1> SUFFICES ASSUME Init PROVE IInv
  OBVIOUS
<1>1. NewCall \in CallState
  BY DEF NewCall, CallState, Pc, Errs, Results
<1>2. TypeInv /\ NoListenerLeftBehind
  BY <1>1 DEF Init, TypeInv, NoListenerLeftBehind
<1>3. Story(NewCall, FALSE) /\ Told(NewCall, FALSE)
  BY DEF NewCall, Story, Told
<1> QED
  BY <1>2, <1>3 DEF Init, IInv, StoryInv

-----------------------------------------------------------------------------
(* Before the exchange. *)

\* A call that ends with no exchange behind it is told of none.
LEMMA EndsEarly ==
  ASSUME IInv, NEW c \in Call, NEW result \in Results \ {"cancelled", "timed out"},
         call[c].cause = "none", call[c].pc \notin Phases,
         Done(c, result), UNCHANGED <<tool, aborted, listeners>>
  PROVE  IInv'
<1>1. /\ call' \in [Call -> CallState] /\ Others(c)
      /\ call'[c].pc = "done" /\ call'[c].result = result
      /\ Same(call[c], call'[c]) /\ call'[c].caught = call[c].caught
  BY DoneFields DEF IInv
<1>2. Story(call'[c], aborted) /\ Told(call'[c], aborted)
  BY <1>1, OneCall DEF Story, Told, Same
<1>3. Left(c)
  BY LeftUnchanged DEF Phases
<1> QED
  BY <1>1, <1>2, <1>3, OneStep

LEMMA MovesEarly ==
  ASSUME IInv, NEW c \in Call, NEW pc \in {"parse", "handler", "request", "shape"},
         call[c].cause = "none", call[c].caught = "none", call[c].pc \notin Phases,
         Goto(c, pc), UNCHANGED <<tool, aborted, listeners>>
  PROVE  IInv'
<1>1. pc \in Pc
  BY DEF Pc
<1>2. /\ call' \in [Call -> CallState] /\ Others(c)
      /\ call'[c].pc = pc /\ Same(call[c], call'[c])
      /\ call'[c].caught = call[c].caught
  BY <1>1, GotoFields DEF IInv
<1>3. Story(call'[c], aborted) /\ Told(call'[c], aborted)
  BY <1>2, OneCall DEF Story, Told, Same
<1>4. Left(c)
  BY LeftUnchanged DEF Phases
<1> QED
  BY <1>2, <1>3, <1>4, OneStep

LEMMA CreateRegistryInv == ASSUME IInv, CreateRegistry PROVE IInv'
BY DEF CreateRegistry, IInv, TypeInv, StoryInv, NoListenerLeftBehind, InExchange

LEMMA ArriveInv == ASSUME IInv, NEW c \in Call, Arrive(c) PROVE IInv'
<1>1. PICK args \in tool.inputs :
        LET errors == ErrorsOf(args, tool.schema)
            valid == errors = <<>>
        IN Becomes(c, [call[c] EXCEPT
             !.args = {args}, !.errors = errors,
             !.pc = IF ~valid THEN "done" ELSE IF tool.parsed THEN "parse" ELSE HandlerStart,
             !.result = IF valid THEN "none" ELSE "invalid arguments"])
  BY DEF Arrive
<1> DEFINE errors == ErrorsOf(args, tool.schema)
           pc == IF errors # <<>> THEN "done" ELSE IF tool.parsed THEN "parse" ELSE HandlerStart
           result == IF errors = <<>> THEN "none" ELSE "invalid arguments"
           given == {args}
           d == [call[c] EXCEPT !.args = given, !.errors = errors, !.pc = pc, !.result = result]
<1>2. /\ given \in Args /\ errors \in Errors
      /\ pc \in {"done", "parse", "request", "handler"}
      /\ result \in {"none", "invalid arguments"}
  <2>1. tool \in Tool
    BY DEF IInv, TypeInv
  <2> QED
    BY <2>1 DEF Args, Errors, HandlerStart
<1>3. call[c].pc = "idle" /\ UNCHANGED <<tool, aborted, listeners>>
  BY DEF Arrive
<1>4. Becomes(c, d)
  BY <1>1
<1> HIDE DEF errors, pc, result, given
<1>5. pc \in Pc /\ result \in Results
  BY <1>2 DEF Pc, Results
<1>6. d \in CallState
  BY <1>2, <1>5, OneCall DEF CallState
<1>7. d.pc = pc /\ d.result = result /\ Same(call[c], d) /\ d.caught = call[c].caught
  BY OneCall DEF CallState, Same
<1> HIDE DEF d
<1>8. call' \in [Call -> CallState] /\ Others(c) /\ call'[c] = d
  BY <1>4, <1>6, BecomesOne DEF IInv
<1>9. Story(d, aborted) /\ Told(d, aborted)
  BY <1>2, <1>3, <1>7, OneCall DEF Story, Told, Same
<1>10. Left(c)
  BY <1>3, LeftUnchanged DEF Phases
<1> QED
  BY <1>3, <1>8, <1>9, <1>10, OneStep

LEMMA ParseInv == ASSUME IInv, NEW c \in Call, Parse(c) PROVE IInv'
<1>1. /\ call[c].pc = "parse" /\ call[c].cause = "none" /\ call[c].caught = "none"
      /\ UNCHANGED <<tool, aborted, listeners>>
  BY OneCall DEF Parse, Story
<1>2. {"issues", "tool failed"} \subseteq Results \ {"cancelled", "timed out"}
  BY DEF Results
<1>3. HandlerStart \in {"parse", "handler", "request", "shape"}
  BY DEF HandlerStart
<1>4. Goto(c, HandlerStart) \/ \E result \in {"issues", "tool failed"} : Done(c, result)
  BY DEF Parse
<1> QED
  BY <1>1, <1>2, <1>3, <1>4, EndsEarly, MovesEarly DEF Phases

LEMMA HandlerInv == ASSUME IInv, NEW c \in Call, Handler(c) PROVE IInv'
<1>1. /\ call[c].pc = "handler" /\ call[c].cause = "none"
      /\ UNCHANGED <<tool, aborted, listeners>>
  BY OneCall DEF Handler, Story
<1>2. {"returned", "invalid result", "tool failed"} \subseteq Results \ {"cancelled", "timed out"}
  BY DEF Results
<1> QED
  BY <1>1, <1>2, EndsEarly DEF Phases, Handler

LEMMA RequestInv == ASSUME IInv, NEW c \in Call, Request(c) PROVE IInv'
<1>1. call[c].pc = "request" /\ call[c].cause = "none" /\ UNCHANGED <<tool, aborted>>
  BY OneCall DEF Request, Story
<1>2. CASE Done(c, "tool failed") /\ UNCHANGED listeners
  <2>1. "tool failed" \in Results \ {"cancelled", "timed out"}
    BY DEF Results
  <2> QED
    BY <1>1, <1>2, <2>1, EndsEarly DEF Phases
<1>3. ASSUME NEW signal \in BOOLEAN,
             Becomes(c, [call[c] EXCEPT
               !.pc = "fetch", !.signal = signal, !.cut = signal /\ aborted,
               !.cause = IF signal /\ aborted THEN "caller" ELSE "none",
               !.timer = IF tool.timed THEN "running" ELSE "off"]),
             listeners' = IF Fallback(signal) /\ ~aborted
                          THEN listeners \cup {<<c, "any">>} ELSE listeners
      PROVE  IInv'
  <2> DEFINE cut == signal /\ aborted
             cause == IF signal /\ aborted THEN "caller" ELSE "none"
             timer == IF tool.timed THEN "running" ELSE "off"
             d == [call[c] EXCEPT !.pc = "fetch", !.signal = signal, !.cut = cut,
                                  !.cause = cause, !.timer = timer]
  <2>1. /\ cut \in BOOLEAN /\ timer \in {"off", "running"}
        /\ cause \in {"none", "caller"}
        /\ cut => signal /\ aborted
        /\ cause = "caller" <=> cut
    OBVIOUS
  <2>2. Becomes(c, d)
    BY <1>3
  <2> HIDE DEF cut, cause, timer
  <2>3. d \in CallState
    BY <1>3, <2>1, OneCall DEF CallState, Pc
  <2>4. /\ d.pc = "fetch" /\ d.signal = signal /\ d.cut = cut /\ d.cause = cause
        /\ d.timer = timer /\ d.caught = call[c].caught
    BY OneCall DEF CallState
  <2> HIDE DEF d
  <2>5. call' \in [Call -> CallState] /\ Others(c) /\ call'[c] = d
    BY <2>2, <2>3, BecomesOne DEF IInv
  <2>6. ~(call[c].caught \in {"TimeoutError", "BodyReadAbortedError"})
    BY <1>1, OneCall DEF Story
  <2>7. Story(d, aborted) /\ Told(d, aborted)
    BY <2>1, <2>4, <2>6 DEF Story, Told
  <2>8. Left(c)
    BY <1>1, <1>3, <2>4, <2>5, OneCall DEF Left, Phases
  <2> QED
    BY <1>1, <2>5, <2>7, <2>8, OneStep
<1> QED
  BY <1>2, <1>3 DEF Request, AbortedBefore
-----------------------------------------------------------------------------
(* Aborts. *)

\* What an abort does to the story of an exchange that follows the signal.
LEMMA CutTold ==
  ASSUME IInv, NEW c \in Call, NEW cause \in {"caller", "timer"}, NEW d, NEW gone \in BOOLEAN,
         call[c].pc \in Phases, aborted => gone,
         d.cut, d.pc = call[c].pc, d.signal = call[c].signal,
         d.caught = call[c].caught, d.response = call[c].response,
         d.cause = IF Open(c) /\ call[c].cause = "none" THEN cause ELSE call[c].cause,
         call[c].timer = "fired" => d.timer = "fired",
         cause = "caller" => d.signal /\ gone,
         cause = "timer" => d.timer = "fired"
  PROVE  Story(d, gone) /\ Told(d, gone)
<1>1. d.pc \in Phases /\ Story(call[c], aborted)
  BY OneCall
<1>2. call[c].signal \in BOOLEAN /\ call[c].cut \in BOOLEAN /\ aborted \in BOOLEAN
  BY OneCall DEF CallState, TypeInv
<1>3. Open(c) => ~(d.pc = "settled" /\ d.response = "none") /\ d.pc # "closing"
                 /\ ~(d.pc = "body" /\ d.response \in NullBody)
  BY DEF Open, Response, Success, Failure
<1>4. Told(d, gone)
  BY <1>1 DEF Told, Phases
<1>5. CASE Open(c) /\ call[c].cause = "none"
  BY <1>2, <1>1, <1>3, <1>4, <1>5 DEF Story, Phases
<1>6. CASE ~(Open(c) /\ call[c].cause = "none")
  BY <1>2, <1>1, <1>4, <1>6 DEF Story, Phases
<1> QED
  BY <1>5, <1>6

\* The other calls, and the caller's listeners once it has aborted.
LEMMA StaysTold ==
  ASSUME NEW d, NEW gone \in BOOLEAN, Story(d, gone), Told(d, gone)
  PROVE  Story(d, TRUE) /\ Told(d, TRUE)
BY DEF Story, Told

LEMMA AbortCallerInv == ASSUME IInv, AbortCaller PROVE IInv'
<1> DEFINE Follows(c) == /\ InExchange(c) /\ call[c].signal
                         /\ Fallback(TRUE) => <<c, "any">> \in listeners
           Next1(c) == IF Follows(c) THEN Cut(c, "caller") ELSE call[c]
<1>1. /\ aborted' = TRUE /\ listeners' = {} /\ tool' = tool
      /\ call' = [c \in Call |-> Next1(c)]
  BY DEF AbortCaller
<1>2. TypeInv /\ aborted \in BOOLEAN
  BY DEF IInv, TypeInv
<1>3. ASSUME NEW c \in Call
      PROVE  Next1(c) \in CallState /\ Story(Next1(c), TRUE) /\ Told(Next1(c), TRUE)
  <2>1. CASE Follows(c)
    <3>1. Next1(c) = Cut(c, "caller") /\ call[c].pc \in Phases /\ call[c].signal
      BY <2>1 DEF InExchange, Phases
    <3> HIDE DEF Next1
    <3> DEFINE d == Cut(c, "caller")
    <3>2. /\ d \in CallState /\ d.cut /\ d.pc = call[c].pc /\ d.signal = call[c].signal
          /\ d.timer = call[c].timer /\ d.caught = call[c].caught
          /\ d.response = call[c].response
          /\ d.cause = IF Open(c) /\ call[c].cause = "none" THEN "caller" ELSE call[c].cause
      BY <1>2, CutFields
    <3> HIDE DEF d
    <3>3. Story(d, TRUE) /\ Told(d, TRUE)
      BY <3>1, <3>2, CutTold
    <3> QED
      BY <3>1, <3>2, <3>3 DEF d
  <2>2. CASE ~Follows(c)
    BY <1>2, <2>2, OneCall, StaysTold
  <2> QED
    BY <2>1, <2>2
<1> HIDE DEF Next1
<1>4. TypeInv'
  BY <1>1, <1>2, <1>3 DEF TypeInv
<1>5. StoryInv'
  BY <1>1, <1>3 DEF StoryInv
<1>6. NoListenerLeftBehind'
  BY <1>1 DEF NoListenerLeftBehind
<1> QED
  BY <1>4, <1>5, <1>6 DEF IInv

LEMMA TimerFiresInv == ASSUME IInv, NEW c \in Call, TimerFires(c) PROVE IInv'
<1> DEFINE e == Cut(c, "timer")
           d == [e EXCEPT !.timer = "fired"]
<1>1. /\ call[c].pc \in Phases /\ Becomes(c, d) /\ listeners' = Dispose(c)
      /\ UNCHANGED <<tool, aborted>>
  BY DEF TimerFires, InExchange, Phases
<1>2. /\ e \in CallState /\ e.cut /\ e.pc = call[c].pc /\ e.signal = call[c].signal
      /\ e.caught = call[c].caught /\ e.response = call[c].response
      /\ e.cause = IF Open(c) /\ call[c].cause = "none" THEN "timer" ELSE call[c].cause
  BY CutFields DEF IInv
<1> HIDE DEF e
<1>3. d \in CallState
  BY <1>2 DEF CallState
<1>4. /\ d.cut = e.cut /\ d.pc = e.pc /\ d.signal = e.signal /\ d.caught = e.caught
      /\ d.response = e.response /\ d.cause = e.cause /\ d.timer = "fired"
  BY <1>2 DEF CallState
<1> HIDE DEF d
<1>5. call' \in [Call -> CallState] /\ Others(c) /\ call'[c] = d
  BY <1>1, <1>3, BecomesOne DEF IInv
<1>6. aborted \in BOOLEAN
  BY DEF IInv, TypeInv
<1>7. Story(d, aborted) /\ Told(d, aborted)
  BY <1>1, <1>2, <1>4, <1>6, CutTold
<1>8. Left(c)
  BY <1>1, <1>2, <1>4, <1>5, OneCall DEF Left, Dispose
<1> QED
  BY <1>1, <1>5, <1>7, <1>8, OneStep
-----------------------------------------------------------------------------
(* The exchange. *)

LEMMA NotCut ==
  ASSUME IInv, NEW c \in Call, ~call[c].cut
  PROVE  call[c].cause = "none"
<1>1. call[c].cause \in {"none", "caller", "timer"}
  BY OneCall DEF CallState
<1> QED
  BY <1>1, OneCall DEF Story

LEMMA FetchSettlesInv == ASSUME IInv, NEW c \in Call, FetchSettles(c) PROVE IInv'
<1>1. /\ call[c].pc = "fetch" /\ call[c].cause = "none"
      /\ UNCHANGED <<tool, aborted, listeners>>
  BY NotCut DEF FetchSettles
<1>2. ASSUME NEW response \in Response,
             Becomes(c, [call[c] EXCEPT !.pc = "settled", !.response = response])
      PROVE  IInv'
  <2> DEFINE d == [call[c] EXCEPT !.pc = "settled", !.response = response]
  <2>1. d \in CallState
    BY OneCall DEF CallState, Pc
  <2>2. /\ d.pc = "settled" /\ d.response = response /\ d.signal = call[c].signal
        /\ d.timer = call[c].timer /\ d.cut = call[c].cut /\ d.caught = call[c].caught
        /\ d.cause = call[c].cause
    BY OneCall DEF CallState
  <2>3. Becomes(c, d)
    BY <1>2
  <2> HIDE DEF d
  <2>4. call' \in [Call -> CallState] /\ Others(c) /\ call'[c] = d
    BY <2>1, <2>3, BecomesOne DEF IInv
  <2>5. Story(d, aborted) /\ Told(d, aborted)
    BY <1>1, <2>2, OneCall DEF Story, Told
  <2>6. Left(c)
    BY <1>1, <2>2, <2>4, LeftUnchanged DEF Phases
  <2> QED
    BY <1>1, <2>4, <2>5, <2>6, OneStep
<1>3. ASSUME NEW caught \in {"network error", "AbortError"},
             Becomes(c, [call[c] EXCEPT !.pc = "settled", !.caught = caught])
      PROVE  IInv'
  <2>1. caught \in Errs /\ "settled" \in Pc
    BY DEF Errs, Pc
  <2>2. /\ call' \in [Call -> CallState] /\ Others(c)
        /\ call'[c].pc = "settled" /\ call'[c].caught = caught /\ Same(call[c], call'[c])
    BY <1>3, <2>1, CaughtFields DEF IInv
  <2>3. Story(call'[c], aborted) /\ Told(call'[c], aborted)
    BY <1>1, <2>2, OneCall DEF Story, Told, Same
  <2>4. Left(c)
    BY <1>1, <2>2, LeftUnchanged DEF Phases
  <2> QED
    BY <1>1, <2>2, <2>3, <2>4, OneStep
<1> QED
  BY <1>2, <1>3 DEF FetchSettles

LEMMA FetchIsCutInv == ASSUME IInv, NEW c \in Call, FetchIsCut(c) PROVE IInv'
<1> DEFINE caught == IF call[c].cause = "timer" THEN "TimeoutError" ELSE "reason"
<1>1. /\ call[c].pc = "fetch" /\ call[c].cut /\ UNCHANGED <<tool, aborted, listeners>>
      /\ Becomes(c, [call[c] EXCEPT !.pc = "settled", !.caught = caught])
  BY DEF FetchIsCut
<1>2. /\ caught \in {"TimeoutError", "reason"}
      /\ call[c].cause = "timer" => caught = "TimeoutError"
  OBVIOUS
<1> HIDE DEF caught
<1>3. caught \in Errs /\ "settled" \in Pc
  BY <1>2 DEF Errs, Pc
<1>4. /\ call' \in [Call -> CallState] /\ Others(c)
      /\ call'[c].pc = "settled" /\ call'[c].caught = caught /\ Same(call[c], call'[c])
  BY <1>1, <1>3, CaughtFields DEF IInv
<1>5. Story(call'[c], aborted) /\ Told(call'[c], aborted)
  BY <1>1, <1>2, <1>4, OneCall DEF Story, Told, Same
<1>6. Left(c)
  BY <1>1, <1>4, LeftUnchanged DEF Phases
<1> QED
  BY <1>1, <1>4, <1>5, <1>6, OneStep

\* An exchange that ends with its combined signal disposed of.
LEMMA EndsDisposed ==
  ASSUME IInv, NEW c \in Call, NEW result \in Results \ {"cancelled", "timed out"},
         call[c].cause = "none", call[c].pc # "body",
         Done(c, result), listeners' = Dispose(c), UNCHANGED <<tool, aborted>>
  PROVE  IInv'
<1>1. /\ call' \in [Call -> CallState] /\ Others(c)
      /\ call'[c].pc = "done" /\ call'[c].result = result
      /\ Same(call[c], call'[c]) /\ call'[c].caught = call[c].caught
  BY DoneFields DEF IInv
<1>2. Story(call'[c], aborted) /\ Told(call'[c], aborted)
  BY <1>1, OneCall DEF Story, Told, Same
<1> QED
  BY <1>1, <1>2, LeftDisposed, OneStep

\* An exchange whose end is told by abortResult.
LEMMA EndsByAbortResult ==
  ASSUME IInv, NEW c \in Call, NEW caught \in Errs,
         call[c].pc # "body",
         Done(c, AbortResult(c, caught)), listeners' = Dispose(c), UNCHANGED <<tool, aborted>>,
         call[c].cause = "timer" => caught \in {"TimeoutError", "BodyReadAbortedError"},
         caught \in {"TimeoutError", "BodyReadAbortedError"} =>
           call[c].timer = "fired" \/ (call[c].signal /\ aborted),
         caught = "AbortError" => call[c].caught = "AbortError"
  PROVE  IInv'
<1>1. AbortResult(c, caught) \in Results
  BY DEF AbortResult, IsTimeoutError, Results
<1>2. /\ call' \in [Call -> CallState] /\ Others(c)
      /\ call'[c].pc = "done" /\ call'[c].result = AbortResult(c, caught)
      /\ Same(call[c], call'[c]) /\ call'[c].caught = call[c].caught
  BY <1>1, DoneFields DEF IInv
<1>3. call[c].cause = "caller" => call[c].signal /\ aborted
  BY OneCall DEF Story
<1>4. Told(call'[c], aborted)
  BY <1>2, <1>3, AbortTold DEF Same
<1>5. Story(call'[c], aborted)
  BY <1>2, OneCall DEF Story, Same
<1> QED
  BY <1>2, <1>4, <1>5, LeftDisposed, OneStep

LEMMA FetchedInv == ASSUME IInv, NEW c \in Call, Fetched(c) PROVE IInv'
<1>1. call[c].pc = "settled" /\ UNCHANGED <<tool, aborted>>
  BY DEF Fetched
<1>2. CASE call[c].response = "none" /\ Done(c, AbortResult(c, call[c].caught))
           /\ listeners' = Dispose(c)
  <2>1. call[c].caught \in Errs
    BY OneCall DEF CallState
  <2>2. /\ call[c].cause = "timer" => call[c].caught = "TimeoutError"
        /\ call[c].caught \in {"TimeoutError", "BodyReadAbortedError"} =>
             call[c].timer = "fired" \/ (call[c].signal /\ aborted)
    BY <1>1, <1>2, OneCall DEF Story
  <2> QED
    BY <1>1, <1>2, <2>1, <2>2, EndsByAbortResult
<1>3. CASE call[c].response \in Response /\ call[c].cut
           /\ Done(c, AbortResult(c, "BodyReadAbortedError")) /\ listeners' = Dispose(c)
  <2>1. "BodyReadAbortedError" \in Errs
    BY DEF Errs
  <2>2. call[c].timer = "fired" \/ (call[c].signal /\ aborted)
    BY <1>3, OneCall DEF Story
  <2> QED
    BY <1>1, <1>3, <2>1, <2>2, EndsByAbortResult
<1>4. CASE call[c].response \in Response /\ ~call[c].cut
           /\ Done(c, "too large") /\ listeners' = Dispose(c)
  <2>1. "too large" \in Results \ {"cancelled", "timed out"}
    BY DEF Results
  <2> QED
    BY <1>1, <1>4, <2>1, NotCut, EndsDisposed
<1>5. CASE call[c].response \in Response /\ ~call[c].cut
           /\ Goto(c, "body") /\ listeners' = listeners \cup BodyListeners(c)
  <2>1. "body" \in Pc
    BY DEF Pc
  <2>2. /\ call' \in [Call -> CallState] /\ Others(c)
        /\ call'[c].pc = "body" /\ Same(call[c], call'[c])
        /\ call'[c].caught = call[c].caught
    BY <1>5, <2>1, GotoFields DEF IInv
  <2>3. Story(call'[c], aborted) /\ Told(call'[c], aborted)
    BY <1>5, <2>2, NotCut, OneCall DEF Story, Told, Same
  <2>4. Left(c)
    BY <1>5, <2>2 DEF Left, BodyListeners, Phases
  <2> QED
    BY <1>1, <2>2, <2>3, <2>4, OneStep
<1> QED
  BY <1>2, <1>3, <1>4, <1>5 DEF Fetched

\* A read that ends, and with what: the abort that cut it, if one did.
LEMMA ReadEndsInv ==
  ASSUME IInv, NEW c \in Call, NEW caught \in Errs \ {"TimeoutError"}, ReadEnds(c, caught),
         call[c].cause # "none" => caught = "BodyReadAbortedError",
         caught = "BodyReadAbortedError" => call[c].cut
  PROVE  IInv'
<1>1. /\ call[c].pc = "body" /\ UNCHANGED <<tool, aborted>>
      /\ Becomes(c, [call[c] EXCEPT !.pc = "closing", !.caught = caught])
      /\ listeners' = listeners \ {<<c, "body">>}
  BY DEF ReadEnds
<1>2. "closing" \in Pc
  BY DEF Pc
<1>3. /\ call' \in [Call -> CallState] /\ Others(c)
      /\ call'[c].pc = "closing" /\ call'[c].caught = caught /\ Same(call[c], call'[c])
  BY <1>1, <1>2, CaughtFields DEF IInv
<1>4. Story(call'[c], aborted) /\ Told(call'[c], aborted)
  BY <1>3, OneCall DEF Story, Told, Same
<1>5. Left(c)
  BY <1>1, <1>3 DEF Left, Phases
<1> QED
  BY <1>1, <1>3, <1>4, <1>5, OneStep

LEMMA BodyReadInv ==
  ASSUME IInv, NEW c \in Call, Read(c) \/ ReadNothing(c) \/ ReadIsCut(c)
  PROVE  IInv'
<1>1. {"none", "BodyTooLargeError", "network error", "BodyReadAbortedError"}
        \subseteq Errs \ {"TimeoutError"}
  BY DEF Errs
<1>2. CASE Read(c)
  BY <1>1, <1>2, NotCut, ReadEndsInv DEF Read
<1>3. CASE ReadNothing(c)
  <2>1. call[c].cause = "none" /\ ReadEnds(c, "none")
    BY <1>3, OneCall DEF ReadNothing, ReadEnds, Story
  <2> QED
    BY <1>1, <2>1, ReadEndsInv
<1>4. CASE ReadIsCut(c)
  BY <1>1, <1>4, ReadEndsInv DEF ReadIsCut
<1> QED
  BY <1>2, <1>3, <1>4

LEMMA ClosedInv == ASSUME IInv, NEW c \in Call, Closed(c) PROVE IInv'
<1>1. call[c].pc = "closing" /\ listeners' = Dispose(c) /\ UNCHANGED <<tool, aborted>>
  BY DEF Closed
<1>2. {"too large", "tool failed"} \subseteq Results \ {"cancelled", "timed out"}
  BY DEF Results
<1>3. call[c].caught # "BodyReadAbortedError" => call[c].cause = "none"
  BY <1>1, OneCall DEF Story
<1>4. CASE call[c].caught = "BodyTooLargeError" /\ Done(c, "too large")
  BY <1>1, <1>2, <1>3, <1>4, EndsDisposed
<1>5. CASE Done(c, AbortResult(c, call[c].caught))
  <2>1. call[c].caught \in Errs
    BY OneCall DEF CallState
  <2>2. /\ call[c].cause = "timer" => call[c].caught = "BodyReadAbortedError"
        /\ call[c].caught \in {"TimeoutError", "BodyReadAbortedError"} =>
             call[c].timer = "fired" \/ (call[c].signal /\ aborted)
    BY <1>1, <1>3, OneCall DEF Story
  <2> QED
    BY <1>1, <1>5, <2>1, <2>2, EndsByAbortResult
<1>6. CASE call[c].caught = "none" /\ Done(c, "tool failed")
  BY <1>1, <1>2, <1>3, <1>6, EndsDisposed
<1>7. CASE call[c].caught = "none" /\ Goto(c, "shape")
  <2>1. "shape" \in Pc
    BY DEF Pc
  <2>2. /\ call' \in [Call -> CallState] /\ Others(c)
        /\ call'[c].pc = "shape" /\ Same(call[c], call'[c])
        /\ call'[c].caught = call[c].caught
    BY <1>7, <2>1, GotoFields DEF IInv
  <2>3. Story(call'[c], aborted) /\ Told(call'[c], aborted)
    BY <1>3, <1>7, <2>2, OneCall DEF Story, Told, Same
  <2> QED
    BY <1>1, <2>2, <2>3, LeftDisposed, OneStep
<1> QED
  BY <1>4, <1>5, <1>6, <1>7 DEF Closed

LEMMA ShapeInv == ASSUME IInv, NEW c \in Call, Shape(c) PROVE IInv'
<1>1. /\ call[c].pc = "shape" /\ call[c].cause = "none"
      /\ UNCHANGED <<tool, aborted, listeners>>
  BY OneCall DEF Shape, Story
<1>2. {"shaped", "error shaped", "tool failed", "invalid result"}
        \subseteq Results \ {"cancelled", "timed out"}
  BY DEF Results
<1>3. \E result \in {"shaped", "error shaped", "tool failed", "invalid result"} :
        Done(c, result)
  BY DEF Shape
<1> QED
  BY <1>1, <1>2, <1>3, EndsEarly DEF Phases

-----------------------------------------------------------------------------
LEMMA NextInv == IInv /\ [Next]_vars => IInv'
<1> SUFFICES ASSUME IInv, [Next]_vars PROVE IInv'
  OBVIOUS
<1>1. ASSUME NEW c \in Call, Arrive(c) \/ Continue(c) \/ TimerFires(c) \/ Upstream(c)
      PROVE  IInv'
  BY <1>1, ArriveInv, ParseInv, HandlerInv, RequestInv, TimerFiresInv, FetchSettlesInv,
     FetchIsCutInv, FetchedInv, BodyReadInv, ClosedInv, ShapeInv DEF Continue, Upstream
<1>2. CASE UNCHANGED vars
  BY <1>2 DEF vars, IInv, TypeInv, StoryInv, NoListenerLeftBehind, InExchange
<1> QED
  BY <1>1, <1>2, CreateRegistryInv, AbortCallerInv DEF Next

LEMMA Invariance == Spec => []IInv
BY InitInv, NextInv, PTL DEF Spec

(***************************************************************************)
(* A signal that many calls share keeps no listener of a call that no      *)
(* longer needs it (anySignal's dispose in fetchWithTimeout's finally, and *)
(* the removal in readBoundedBytes): for any number of calls.              *)
(***************************************************************************)
THEOREM ListenersGo == Spec => []NoListenerLeftBehind
BY Invariance, PTL DEF IInv

(***************************************************************************)
(* The result of an apiTool names what ended its exchange: abortResult     *)
(* reads the caller's signal and the error late, after awaits during which *)
(* the other abort may have come, and still tells the first cause, or the  *)
(* caller's abort if both came.                                            *)
(***************************************************************************)
THEOREM TheResultTells == Spec => []ResultTellsTheCause
<1>1. IInv => ResultTellsTheCause
  BY DEF IInv, StoryInv, Told, ResultTellsTheCause
<1> QED
  BY <1>1, Invariance, PTL
-----------------------------------------------------------------------------
(***************************************************************************)
(* Arguments are judged once, when the call arrives, and the judgement is  *)
(* final: no later step asks again or forgets it.                          *)
(***************************************************************************)
Judged(d) ==
  /\ d.pc = "idle" => d.errors = <<>>
  /\ d.pc # "idle" => /\ Accepts(tool.schema)
                      /\ \E a \in tool.inputs :
                           d.args = {a} /\ d.errors = ErrorsOf(a, tool.schema)
  /\ d.errors # <<>> <=> d.result = "invalid arguments"
  /\ d.result # "none" => d.pc = "done"

JudgedInv ==
  /\ registry = "ready" => Accepts(tool.schema)
  /\ \A c \in Call : Judged(call[c])

\* A step of a call that has arrived and is not done.
Moves(d, e) ==
  /\ d.pc \notin {"idle", "done"} /\ e.pc # "idle"
  /\ e.args = d.args /\ e.errors = d.errors
  /\ \/ e.result = d.result
     \/ e.pc = "done" /\ e.result # "invalid arguments"

AllMove == /\ UNCHANGED <<tool, registry>>
           /\ \A c \in Call : call'[c] = call[c] \/ Moves(call[c], call'[c])

LEMMA MovesJudged ==
  ASSUME JudgedInv, AllMove
  PROVE  JudgedInv'
<1>1. ASSUME NEW c \in Call PROVE Judged(call[c])'
  <2>1. CASE call'[c] = call[c]
    <3>1. Judged(call[c]) /\ tool' = tool
      BY DEF JudgedInv, AllMove
    <3> QED
      BY <2>1, <3>1 DEF Judged
  <2>2. CASE Moves(call[c], call'[c])
    BY <2>2 DEF JudgedInv, Judged, AllMove, Moves
  <2> QED
    BY <2>1, <2>2 DEF AllMove
<1> QED
  BY <1>1 DEF JudgedInv, AllMove

LEMMA GotoMoves ==
  ASSUME TypeInv, NEW c \in Call, NEW pc \in Pc \ {"idle"}, Goto(c, pc),
         call[c].pc \notin {"idle", "done"}, UNCHANGED <<tool, registry>>
  PROVE  AllMove
BY GotoFields DEF AllMove, Moves, Asked, Others

LEMMA DoneMoves ==
  ASSUME TypeInv, NEW c \in Call, NEW result \in Results \ {"invalid arguments"},
         Done(c, result), call[c].pc \notin {"idle", "done"}, UNCHANGED <<tool, registry>>
  PROVE  AllMove
BY DoneFields DEF AllMove, Moves, Asked, Others

LEMMA CaughtMoves ==
  ASSUME TypeInv, NEW c \in Call, NEW pc \in Pc \ {"idle"}, NEW caught \in Errs,
         Becomes(c, [call[c] EXCEPT !.pc = pc, !.caught = caught]),
         call[c].pc \notin {"idle", "done"}, UNCHANGED <<tool, registry>>
  PROVE  AllMove
<1>1. /\ Others(c) /\ call'[c].pc = pc /\ Asked(call[c], call'[c])
      /\ call'[c].result = call[c].result
  BY CaughtFields
<1> QED
  BY <1>1 DEF AllMove, Moves, Asked, Others

LEMMA AbortResultIsNone ==
  ASSUME NEW c, NEW caught
  PROVE  AbortResult(c, caught) \in Results \ {"invalid arguments"}
BY DEF AbortResult, IsTimeoutError, Results

LEMMA EarlyMoves ==
  ASSUME TypeInv, NEW c \in Call, Parse(c) \/ Handler(c) \/ Shape(c)
  PROVE  AllMove
<1>1. /\ call[c].pc \notin {"idle", "done"} /\ UNCHANGED <<tool, registry>>
      /\ \/ Goto(c, HandlerStart)
         \/ \E result \in {"issues", "tool failed", "returned", "invalid result", "shaped",
                           "error shaped"} : Done(c, result)
  BY DEF Parse, Handler, Shape
<1>2. /\ HandlerStart \in Pc \ {"idle"}
      /\ {"issues", "tool failed", "returned", "invalid result", "shaped", "error shaped"}
           \subseteq Results \ {"invalid arguments"}
  BY DEF HandlerStart, Pc, Results
<1> QED
  BY <1>1, <1>2, GotoMoves, DoneMoves

LEMMA RequestMoves == ASSUME TypeInv, NEW c \in Call, Request(c) PROVE AllMove
<1>1. call[c].pc = "request" /\ UNCHANGED <<tool, registry>>
  BY DEF Request
<1>2. CASE Done(c, "tool failed")
  <2>1. "tool failed" \in Results \ {"invalid arguments"}
    BY DEF Results
  <2> QED
    BY <1>1, <1>2, <2>1, DoneMoves
<1>3. ASSUME NEW signal \in BOOLEAN,
             Becomes(c, [call[c] EXCEPT
               !.pc = "fetch", !.signal = signal, !.cut = signal /\ aborted,
               !.cause = IF signal /\ aborted THEN "caller" ELSE "none",
               !.timer = IF tool.timed THEN "running" ELSE "off"])
      PROVE  AllMove
  <2> DEFINE cut == signal /\ aborted
             cause == IF signal /\ aborted THEN "caller" ELSE "none"
             timer == IF tool.timed THEN "running" ELSE "off"
             d == [call[c] EXCEPT !.pc = "fetch", !.signal = signal, !.cut = cut,
                                  !.cause = cause, !.timer = timer]
  <2>1. Becomes(c, d)
    BY <1>3
  <2> HIDE DEF cut, cause, timer
  <2>2. call[c] \in CallState /\ call \in [Call -> CallState]
    BY DEF TypeInv
  <2>3. /\ d.pc = "fetch" /\ d.args = call[c].args /\ d.errors = call[c].errors
        /\ d.result = call[c].result
    BY <2>2 DEF CallState
  <2> HIDE DEF d
  <2>4. Others(c) /\ call'[c] = d
    BY <2>1, <2>2 DEF Becomes, Others
  <2> QED
    BY <1>1, <2>3, <2>4 DEF AllMove, Moves, Others
<1> QED
  BY <1>2, <1>3 DEF Request, AbortedBefore

LEMMA AbortMoves == ASSUME TypeInv, AbortCaller PROVE AllMove
<1> DEFINE Follows(c) == /\ InExchange(c) /\ call[c].signal
                         /\ Fallback(TRUE) => <<c, "any">> \in listeners
<1>1. ASSUME NEW c \in Call PROVE call'[c] = call[c] \/ Moves(call[c], call'[c])
  <2>1. call'[c] = IF Follows(c) THEN Cut(c, "caller") ELSE call[c]
    BY DEF AbortCaller
  <2>2. CASE Follows(c)
    <3>1. call'[c] = Cut(c, "caller") /\ call[c].pc \notin {"idle", "done"}
      BY <2>1, <2>2 DEF InExchange
    <3> QED
      BY <3>1, CutFields DEF Moves
  <2>3. CASE ~Follows(c)
    BY <2>1, <2>3
  <2> QED
    BY <2>2, <2>3
<1> QED
  BY <1>1 DEF AbortCaller, AllMove

LEMMA TimerMoves == ASSUME TypeInv, NEW c \in Call, TimerFires(c) PROVE AllMove
<1> DEFINE e == Cut(c, "timer")
           d == [e EXCEPT !.timer = "fired"]
<1>1. /\ call[c].pc \notin {"idle", "done"} /\ Becomes(c, d) /\ UNCHANGED <<tool, registry>>
  BY DEF TimerFires, InExchange
<1>2. /\ e \in CallState /\ e.pc = call[c].pc /\ e.args = call[c].args
      /\ e.errors = call[c].errors /\ e.result = call[c].result
  BY CutFields
<1> HIDE DEF e
<1>3. d.pc = e.pc /\ d.args = e.args /\ d.errors = e.errors /\ d.result = e.result
  BY <1>2 DEF CallState
<1> HIDE DEF d
<1>4. Others(c) /\ call'[c] = d
  BY <1>1 DEF Becomes, Others, TypeInv
<1> QED
  BY <1>1, <1>2, <1>3, <1>4 DEF AllMove, Moves, Others

LEMMA FetchMoves ==
  ASSUME TypeInv, NEW c \in Call, FetchSettles(c) \/ FetchIsCut(c)
  PROVE  AllMove
<1>1. call[c].pc = "fetch" /\ UNCHANGED <<tool, registry>>
  BY DEF FetchSettles, FetchIsCut
<1>2. ASSUME NEW response \in Response,
             Becomes(c, [call[c] EXCEPT !.pc = "settled", !.response = response])
      PROVE  AllMove
  <2> DEFINE d == [call[c] EXCEPT !.pc = "settled", !.response = response]
  <2>1. call[c] \in CallState
    BY DEF TypeInv
  <2>2. /\ d.pc = "settled" /\ d.args = call[c].args /\ d.errors = call[c].errors
        /\ d.result = call[c].result
    BY <2>1 DEF CallState
  <2>3. Becomes(c, d)
    BY <1>2
  <2> HIDE DEF d
  <2>4. Others(c) /\ call'[c] = d
    BY <2>3 DEF Becomes, Others, TypeInv
  <2> QED
    BY <1>1, <2>2, <2>4 DEF AllMove, Moves, Others
<1>3. ASSUME NEW caught \in {"network error", "AbortError", "TimeoutError", "reason"},
             Becomes(c, [call[c] EXCEPT !.pc = "settled", !.caught = caught])
      PROVE  AllMove
  <2>1. caught \in Errs /\ "settled" \in Pc \ {"idle"}
    BY DEF Errs, Pc
  <2> QED
    BY <1>1, <1>3, <2>1, CaughtMoves
<1> QED
  BY <1>2, <1>3 DEF FetchSettles, FetchIsCut

LEMMA BodyMoves ==
  ASSUME TypeInv, NEW c \in Call,
         Fetched(c) \/ Read(c) \/ ReadNothing(c) \/ ReadIsCut(c) \/ Closed(c)
  PROVE  AllMove
<1>1. {"too large", "tool failed"} \subseteq Results \ {"invalid arguments"}
  BY DEF Results
<1>2. {"body", "shape", "closing"} \subseteq Pc \ {"idle"}
  BY DEF Pc
<1>3. CASE Fetched(c) \/ Closed(c)
  <2>1. /\ call[c].pc \notin {"idle", "done"} /\ UNCHANGED <<tool, registry>>
        /\ \/ \E caught : Done(c, AbortResult(c, caught))
           \/ \E result \in {"too large", "tool failed"} : Done(c, result)
           \/ \E pc \in {"body", "shape"} : Goto(c, pc)
    BY <1>3 DEF Fetched, Closed
  <2> QED
    BY <1>1, <1>2, <2>1, AbortResultIsNone, DoneMoves, GotoMoves
<1>4. CASE Read(c) \/ ReadNothing(c) \/ ReadIsCut(c)
  <2>1. \E caught \in {"none", "BodyTooLargeError", "network error", "BodyReadAbortedError"} :
          ReadEnds(c, caught)
    BY <1>4 DEF Read, ReadNothing, ReadIsCut
  <2>2. PICK caught \in Errs :
          /\ call[c].pc = "body" /\ UNCHANGED <<tool, registry>>
          /\ Becomes(c, [call[c] EXCEPT !.pc = "closing", !.caught = caught])
    BY <2>1 DEF ReadEnds, Errs
  <2> QED
    BY <1>2, <2>2, CaughtMoves
<1> QED
  BY <1>3, <1>4

LEMMA ArriveJudged == ASSUME TypeInv, JudgedInv, NEW c \in Call, Arrive(c) PROVE JudgedInv'
<1>1. PICK args \in tool.inputs :
        LET errors == ErrorsOf(args, tool.schema)
            valid == errors = <<>>
        IN Becomes(c, [call[c] EXCEPT
             !.args = {args}, !.errors = errors,
             !.pc = IF ~valid THEN "done" ELSE IF tool.parsed THEN "parse" ELSE HandlerStart,
             !.result = IF valid THEN "none" ELSE "invalid arguments"])
  BY DEF Arrive
<1> DEFINE errors == ErrorsOf(args, tool.schema)
           pc == IF errors # <<>> THEN "done" ELSE IF tool.parsed THEN "parse" ELSE HandlerStart
           result == IF errors = <<>> THEN "none" ELSE "invalid arguments"
           given == {args}
           d == [call[c] EXCEPT !.args = given, !.errors = errors, !.pc = pc, !.result = result]
<1>2. /\ pc \in {"done", "parse", "request", "handler"}
      /\ errors # <<>> => pc = "done"
      /\ errors # <<>> <=> result = "invalid arguments"
      /\ result # "none" => errors # <<>>
  BY DEF HandlerStart
<1>3. registry = "ready" /\ UNCHANGED <<tool, registry>>
  BY DEF Arrive
<1>4. Becomes(c, d)
  BY <1>1
<1> HIDE DEF pc, result, given, errors
<1>5. call[c] \in CallState
  BY DEF TypeInv
<1>6. d.pc = pc /\ d.result = result /\ d.args = given /\ d.errors = errors
  BY <1>5 DEF CallState
<1> HIDE DEF d
<1>7. Others(c) /\ call'[c] = d
  BY <1>4 DEF Becomes, Others, TypeInv
<1>8. Judged(d)
  BY <1>2, <1>3, <1>6 DEF Judged, JudgedInv, given, errors
<1> QED
  BY <1>3, <1>7, <1>8 DEF JudgedInv, Judged, Others

LEMMA NextJudged == TypeInv /\ JudgedInv /\ [Next]_vars => JudgedInv'
<1> SUFFICES ASSUME TypeInv, JudgedInv, [Next]_vars PROVE JudgedInv'
  OBVIOUS
<1>1. ASSUME NEW c \in Call, Continue(c) \/ TimerFires(c) \/ Upstream(c) PROVE JudgedInv'
  BY <1>1, EarlyMoves, RequestMoves, TimerMoves, FetchMoves, BodyMoves, MovesJudged
     DEF Continue, Upstream
<1>2. CASE CreateRegistry
  BY <1>2 DEF CreateRegistry, JudgedInv, Judged
<1>3. CASE UNCHANGED vars
  BY <1>3 DEF vars, JudgedInv, Judged
<1> QED
  BY <1>1, <1>2, <1>3, ArriveJudged, AbortMoves, MovesJudged DEF Next

(***************************************************************************)
(* A tool is called only through a registry that has accepted its schema;  *)
(* a call is refused exactly when the errors of its own arguments are not  *)
(* empty, and of a refused call nothing runs (createToolRegistry,          *)
(* validateToolArguments).  It leaves to the schema walk alone what        *)
(* SchemaIsEnforced says: that those errors are the violations.            *)
(***************************************************************************)
THEOREM RefusedCallsNeverRun ==
  Spec => [](\A c \in Call : call[c].pc # "idle" =>
               /\ Accepts(tool.schema)
               /\ \E a \in tool.inputs :
                    /\ call[c].args = {a} /\ call[c].errors = ErrorsOf(a, tool.schema)
                    /\ ErrorsOf(a, tool.schema) # <<>> <=> call[c].result = "invalid arguments"
                    /\ ErrorsOf(a, tool.schema) # <<>> => call[c].pc = "done")
<1>1. ASSUME Init PROVE JudgedInv
  <2>1. Judged(NewCall)
    BY DEF Judged, NewCall
  <2> QED
    BY <1>1, <2>1 DEF Init, JudgedInv
<1>2. JudgedInv => \A c \in Call : call[c].pc # "idle" =>
               /\ Accepts(tool.schema)
               /\ \E a \in tool.inputs :
                    /\ call[c].args = {a} /\ call[c].errors = ErrorsOf(a, tool.schema)
                    /\ ErrorsOf(a, tool.schema) # <<>> <=> call[c].result = "invalid arguments"
                    /\ ErrorsOf(a, tool.schema) # <<>> => call[c].pc = "done"
  BY DEF JudgedInv, Judged
<1>3. IInv => TypeInv
  BY DEF IInv
<1> QED
  BY <1>1, <1>2, <1>3, NextJudged, Invariance, PTL DEF Spec
-----------------------------------------------------------------------------
(***************************************************************************)
(* Aborts are heard.  An exchange that follows the caller by a listener    *)
(* has it as long as nothing has cut it: its own timer, and a caller that  *)
(* aborts, take it off, but both cut the exchange in the same step.        *)
(***************************************************************************)
Heard(c) ==
  call[c].pc \in Phases =>
    /\ tool.timed <=> call[c].timer # "off"
    /\ call[c].cut <=> call[c].timer = "fired" \/ (call[c].signal /\ aborted)
    /\ Fallback(call[c].signal) /\ ~call[c].cut => <<c, "any">> \in listeners

HeardInv == \A c \in Call : Heard(c)

\* A step of c that leaves its signals alone, or takes it out of the exchange.
Steady(c) ==
  call'[c].pc \in Phases =>
    /\ call[c].pc \in Phases
    /\ call'[c].signal = call[c].signal /\ call'[c].timer = call[c].timer
    /\ call'[c].cut = call[c].cut
    /\ <<c, "any">> \in listeners => <<c, "any">> \in listeners'

\* The listeners of the others stay.
Spared(c) == \A q \in Call \ {c} : <<q, "any">> \in listeners => <<q, "any">> \in listeners'

LEMMA OthersHear ==
  ASSUME HeardInv, NEW c \in Call, Others(c), Spared(c), UNCHANGED <<tool, aborted>>, Heard(c)'
  PROVE  HeardInv'
<1>1. ASSUME NEW q \in Call, q # c PROVE Heard(q)'
  BY <1>1 DEF HeardInv, Heard, Others, Spared, Fallback
<1> QED BY <1>1 DEF HeardInv

LEMMA SteadyHears ==
  ASSUME HeardInv, NEW c \in Call, Others(c), Spared(c), UNCHANGED <<tool, aborted>>, Steady(c)
  PROVE  HeardInv'
<1>1. Heard(c)'
  BY DEF HeardInv, Heard, Steady, Fallback
<1> QED BY <1>1, OthersHear

\* Before and after the exchange.
LEMMA OutsideHears ==
  ASSUME HeardInv, TypeInv, NEW c \in Call, UNCHANGED <<tool, aborted>>, Spared(c),
         \/ \E result \in Results : Done(c, result)
         \/ \E pc \in Pc \ Phases : Goto(c, pc)
  PROVE  HeardInv'
<1>1. Others(c) /\ call'[c].pc \notin Phases
  <2>1. CASE \E result \in Results : Done(c, result)
    BY <2>1, DoneFields DEF Phases
  <2>2. CASE \E pc \in Pc \ Phases : Goto(c, pc)
    BY <2>2, GotoFields
  <2> QED BY <2>1, <2>2
<1> QED BY <1>1, SteadyHears DEF Steady

LEMMA ArriveHears == ASSUME HeardInv, TypeInv, NEW c \in Call, Arrive(c) PROVE HeardInv'
<1>1. UNCHANGED <<tool, aborted, listeners>> /\ Spared(c)
  BY DEF Arrive, Spared
<1>2. PICK args \in tool.inputs :
        LET errors == ErrorsOf(args, tool.schema)
            valid == errors = <<>>
        IN Becomes(c, [call[c] EXCEPT
             !.args = {args}, !.errors = errors,
             !.pc = IF ~valid THEN "done" ELSE IF tool.parsed THEN "parse" ELSE HandlerStart,
             !.result = IF valid THEN "none" ELSE "invalid arguments"])
  BY DEF Arrive
<1> DEFINE errors == ErrorsOf(args, tool.schema)
           pc == IF errors # <<>> THEN "done" ELSE IF tool.parsed THEN "parse" ELSE HandlerStart
           result == IF errors = <<>> THEN "none" ELSE "invalid arguments"
           d == [call[c] EXCEPT !.args = {args}, !.errors = errors, !.pc = pc, !.result = result]
<1>3. Becomes(c, d)
  BY <1>2
<1>4. pc \notin Phases
  BY DEF Phases, HandlerStart
<1> HIDE DEF pc, errors, result
<1>5. call[c] \in CallState /\ call \in [Call -> CallState]
  BY DEF TypeInv
<1>6. d.pc = pc
  BY <1>5 DEF CallState
<1> HIDE DEF d
<1>7. Others(c) /\ call'[c] = d
  BY <1>3, <1>5 DEF Becomes, Others
<1> QED BY <1>1, <1>4, <1>6, <1>7, SteadyHears DEF Steady

LEMMA RequestHears == ASSUME HeardInv, TypeInv, NEW c \in Call, Request(c) PROVE HeardInv'
<1>1. UNCHANGED <<tool, aborted>>
  BY DEF Request
<1>2. CASE Done(c, "tool failed") /\ UNCHANGED listeners
  BY <1>1, <1>2, OutsideHears DEF Spared, Results
<1>3. ASSUME NEW signal \in BOOLEAN,
             Becomes(c, [call[c] EXCEPT
               !.pc = "fetch", !.signal = signal, !.cut = signal /\ aborted,
               !.cause = IF signal /\ aborted THEN "caller" ELSE "none",
               !.timer = IF tool.timed THEN "running" ELSE "off"]),
             listeners' = IF Fallback(signal) /\ ~aborted
                          THEN listeners \cup {<<c, "any">>} ELSE listeners
      PROVE  HeardInv'
  <2> DEFINE cut == signal /\ aborted
             cause == IF signal /\ aborted THEN "caller" ELSE "none"
             timer == IF tool.timed THEN "running" ELSE "off"
             d == [call[c] EXCEPT !.pc = "fetch", !.signal = signal, !.cut = cut,
                                  !.cause = cause, !.timer = timer]
  <2>1. Becomes(c, d)
    BY <1>3
  <2>2. /\ timer \in {"off", "running"} /\ (tool.timed <=> timer = "running")
        /\ cut <=> signal /\ aborted
    OBVIOUS
  <2> HIDE DEF cut, cause, timer
  <2>3. call[c] \in CallState /\ call \in [Call -> CallState]
    BY DEF TypeInv
  <2>4. d.pc = "fetch" /\ d.signal = signal /\ d.cut = cut /\ d.timer = timer
    BY <2>3 DEF CallState
  <2> HIDE DEF d
  <2>5. Others(c) /\ call'[c] = d
    BY <2>1, <2>3 DEF Becomes, Others
  <2>6. Heard(c)'
    <3>1. Fallback(signal)' = Fallback(signal)
      BY <1>1 DEF Fallback
    <3>2. tool'.timed <=> d.timer # "off"
      BY <1>1, <2>2, <2>4
    <3>3. d.cut <=> d.timer = "fired" \/ (d.signal /\ aborted)
      BY <2>2, <2>4
    <3>4. Fallback(signal) /\ ~d.cut => <<c, "any">> \in listeners'
      BY <1>3, <2>2, <2>4 DEF Fallback
    <3> QED
      BY <1>1, <2>2, <2>4, <2>5, <3>1, <3>2, <3>3, <3>4 DEF Heard
  <2>7. Spared(c)
    BY <1>3 DEF Spared
  <2> QED BY <1>1, <2>5, <2>6, <2>7, OthersHear
<1> QED
  BY <1>2, <1>3 DEF Request, AbortedBefore

LEMMA AbortHears == ASSUME HeardInv, TypeInv, AbortCaller PROVE HeardInv'
<1> DEFINE Follows(c) == /\ InExchange(c) /\ call[c].signal
                         /\ Fallback(TRUE) => <<c, "any">> \in listeners
           Next1(c) == IF Follows(c) THEN Cut(c, "caller") ELSE call[c]
<1>1. /\ ~aborted /\ aborted' = TRUE /\ tool' = tool
      /\ call' = [c \in Call |-> Next1(c)]
  BY DEF AbortCaller
<1>2. SUFFICES ASSUME NEW c \in Call, call'[c].pc \in Phases PROVE Heard(c)'
  BY DEF HeardInv, Heard
<1>3. call'[c] = Next1(c)
  BY <1>1
<1> HIDE DEF Next1
<1>4. CASE Follows(c)
  <2>1. /\ Cut(c, "caller").cut /\ Cut(c, "caller").signal = call[c].signal
        /\ Cut(c, "caller").timer = call[c].timer /\ Cut(c, "caller").pc = call[c].pc
    BY CutFields
  <2>2. call'[c] = Cut(c, "caller") /\ call[c].pc \in Phases /\ call[c].signal
    BY <1>3, <1>4 DEF Next1, InExchange, Phases
  <2>3. tool.timed <=> call[c].timer # "off"
    BY <2>2 DEF HeardInv, Heard
  <2> QED BY <1>1, <2>1, <2>2, <2>3 DEF Heard
<1>5. CASE ~Follows(c)
  <2>1. call'[c] = call[c] /\ call[c].pc \in Phases
    BY <1>2, <1>3, <1>5 DEF Next1
  <2>2. /\ tool.timed <=> call[c].timer # "off"
        /\ call[c].cut <=> call[c].timer = "fired" \/ (call[c].signal /\ aborted)
        /\ Fallback(call[c].signal) /\ ~call[c].cut => <<c, "any">> \in listeners
    BY <2>1 DEF HeardInv, Heard
  <2>3. call[c].signal => call[c].cut
    BY <1>5, <2>1, <2>2 DEF InExchange, Phases, Fallback
  <2> QED BY <1>1, <2>1, <2>2, <2>3 DEF Heard, Fallback
<1> QED BY <1>4, <1>5

LEMMA TimerHears == ASSUME HeardInv, TypeInv, NEW c \in Call, TimerFires(c) PROVE HeardInv'
<1> DEFINE e == Cut(c, "timer")
           d == [e EXCEPT !.timer = "fired"]
<1>1. /\ call[c].pc \in Phases /\ call[c].timer = "running" /\ Becomes(c, d)
      /\ listeners' = Dispose(c) /\ UNCHANGED <<tool, aborted>>
  BY DEF TimerFires, InExchange, Phases
<1>2. e \in CallState /\ e.cut /\ e.pc = call[c].pc /\ e.signal = call[c].signal
  BY CutFields
<1> HIDE DEF e
<1>3. d.cut /\ d.pc = call[c].pc /\ d.timer = "fired"
  BY <1>2 DEF CallState
<1> HIDE DEF d
<1>4. Others(c) /\ call'[c] = d
  BY <1>1 DEF Becomes, Others, TypeInv
<1>5. tool.timed
  BY <1>1 DEF HeardInv, Heard
<1>6. Heard(c)'
  BY <1>1, <1>3, <1>4, <1>5 DEF Heard
<1>7. Spared(c)
  BY <1>1 DEF Spared, Dispose
<1> QED BY <1>1, <1>4, <1>6, <1>7, OthersHear

\* The steps inside the exchange: fetch settles, a body is read or not.
LEMMA InsideHears ==
  ASSUME HeardInv, TypeInv, NEW c \in Call,
         FetchSettles(c) \/ FetchIsCut(c) \/ (\E caught \in Errs : ReadEnds(c, caught))
  PROVE  HeardInv'
<1>1. UNCHANGED <<tool, aborted>> /\ Spared(c) /\ call[c].pc \in Phases
  BY DEF FetchSettles, FetchIsCut, ReadEnds, Spared, Phases
<1>2. <<c, "any">> \in listeners => <<c, "any">> \in listeners'
  BY DEF FetchSettles, FetchIsCut, ReadEnds
<1> DEFINE Kept(d) == d.signal = call[c].signal /\ d.timer = call[c].timer
                      /\ d.cut = call[c].cut
<1>3. PICK d : Becomes(c, d) /\ Kept(d)
  <2>1. /\ \A pc, x : Kept([call[c] EXCEPT !.pc = pc, !.caught = x])
        /\ \A pc, x : Kept([call[c] EXCEPT !.pc = pc, !.response = x])
    BY DEF TypeInv, CallState
  <2> HIDE DEF Kept
  <2>2. CASE FetchSettles(c)
    BY <2>1, <2>2 DEF FetchSettles
  <2>3. CASE FetchIsCut(c)
    BY <2>1, <2>3 DEF FetchIsCut
  <2>4. CASE \E caught \in Errs : ReadEnds(c, caught)
    BY <2>1, <2>4 DEF ReadEnds
  <2> QED BY <2>2, <2>3, <2>4
<1>4. Others(c) /\ call'[c] = d
  BY <1>3 DEF Becomes, Others, TypeInv
<1> QED BY <1>1, <1>2, <1>3, <1>4, SteadyHears DEF Steady

LEMMA BodyHears ==
  ASSUME HeardInv, TypeInv, NEW c \in Call, Read(c) \/ ReadNothing(c) \/ ReadIsCut(c)
  PROVE  HeardInv'
<1>1. \E caught \in Errs : ReadEnds(c, caught)
  BY DEF Read, ReadNothing, ReadIsCut, Errs
<1> QED BY <1>1, InsideHears

\* abortResult is one of the results.
LEMMA AbortResultType == ASSUME NEW c, NEW caught PROVE AbortResult(c, caught) \in Results
BY DEF AbortResult, Results

LEMMA FetchedHears == ASSUME HeardInv, TypeInv, NEW c \in Call, Fetched(c) PROVE HeardInv'
<1>1. call[c].pc = "settled" /\ UNCHANGED <<tool, aborted>>
  BY DEF Fetched
<1>2. CASE listeners' = Dispose(c) /\ \E result \in Results : Done(c, result)
  <2>1. Spared(c)
    BY <1>2 DEF Spared, Dispose
  <2> QED BY <1>1, <1>2, <2>1, OutsideHears
<1>3. CASE Goto(c, "body") /\ listeners' = listeners \cup BodyListeners(c)
  <2>1. Spared(c) /\ (<<c, "any">> \in listeners => <<c, "any">> \in listeners')
    BY <1>3 DEF Spared
  <2>2. Others(c) /\ Same(call[c], call'[c])
    BY <1>3, GotoFields DEF Pc
  <2> QED BY <1>1, <2>1, <2>2, SteadyHears DEF Steady, Same, Phases
<1> QED
  BY <1>2, <1>3, AbortResultType DEF Fetched, Results

LEMMA ClosedHears == ASSUME HeardInv, TypeInv, NEW c \in Call, Closed(c) PROVE HeardInv'
<1>1. UNCHANGED <<tool, aborted>> /\ Spared(c)
  BY DEF Closed, Spared, Dispose
<1>2. \/ \E result \in Results : Done(c, result)
      \/ \E pc \in Pc \ Phases : Goto(c, pc)
  <2>1. {"too large", "tool failed"} \subseteq Results /\ "shape" \in Pc \ Phases
    BY DEF Results, Pc, Phases
  <2> QED BY <2>1, AbortResultType DEF Closed
<1> QED BY <1>1, <1>2, OutsideHears

LEMMA PlainHears ==
  ASSUME HeardInv, TypeInv, NEW c \in Call, Parse(c) \/ Handler(c) \/ Shape(c)
  PROVE  HeardInv'
<1>1. UNCHANGED <<tool, aborted>> /\ Spared(c)
  BY DEF Parse, Handler, Shape, Spared
<1>2. \/ \E result \in Results : Done(c, result)
      \/ \E pc \in Pc \ Phases : Goto(c, pc)
  <2>1. CASE Parse(c)
    BY <2>1 DEF Parse, HandlerStart, Results, Pc, Phases
  <2>2. CASE Handler(c)
    BY <2>2 DEF Handler, Results
  <2>3. CASE Shape(c)
    BY <2>3 DEF Shape, Results
  <2> QED BY <2>1, <2>2, <2>3
<1> QED BY <1>1, <1>2, OutsideHears

LEMMA NextHears == TypeInv /\ HeardInv /\ [Next]_vars => HeardInv'
<1> SUFFICES ASSUME TypeInv, HeardInv, [Next]_vars PROVE HeardInv'
  OBVIOUS
<1>1. CASE UNCHANGED vars
  BY <1>1 DEF vars, HeardInv, Heard, Fallback
<1>2. CASE CreateRegistry
  BY <1>2 DEF CreateRegistry, HeardInv, Heard, Fallback
<1>3. ASSUME NEW c \in Call, Arrive(c) \/ Continue(c) \/ TimerFires(c) \/ Upstream(c)
      PROVE  HeardInv'
  BY <1>3, ArriveHears, RequestHears, TimerHears, InsideHears, BodyHears, FetchedHears,
     ClosedHears, PlainHears DEF Continue, Upstream
<1> QED
  BY <1>1, <1>2, <1>3, AbortHears DEF Next

(***************************************************************************)
(* No abort is missed: an exchange is cut exactly if its timer has fired   *)
(* or its caller has aborted, though the fallback of anySignal hears of it *)
(* only by a listener that a first abort takes off: for any tools.         *)
(***************************************************************************)
THEOREM EveryAbortIsHeard == Spec => []AbortsAreHeard
<1>1. Init => HeardInv
  BY DEF Init, HeardInv, Heard, NewCall, Phases
<1>2. IInv => TypeInv
  BY DEF IInv
<1>3. HeardInv => AbortsAreHeard
  BY DEF HeardInv, Heard, AbortsAreHeard, InExchange, Phases
<1> QED
  BY <1>1, <1>2, <1>3, NextHears, Invariance, PTL DEF Spec

=============================================================================
