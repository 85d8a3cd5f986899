# A TLA+ model of mcp-trellis

mcp-trellis turns a set of tools into an MCP server with its own OAuth 2.1
authorization server. It keeps almost nothing: authorization codes, consent
tickets, client ids and refresh tokens are sealed or signed records that travel
through the browser and the client, and the one piece of state behind every
"works once" promise is a mark per token in a `CodeStore`. What is hard about the
code is therefore not in any one function but in what several requests, one
store, one clock and a host that may throw do together. That is what the modules
here model, check with TLC, and prove with TLAPS as far as it reaches.

Paths below are relative to the repository; the sources are in `src/`.

## The system

| Part (source) | State it keeps | Operations | Hard about it |
|---|---|---|---|
| Single-use store (`oauth/crypto/codes.ts`) | map jti -> expiry, time of the last prune | `consume` | prune against the boundary of expiry; callers that checked the expiry long ago |
| `/authorize` (`oauth/endpoints/authorize.ts`) | none | validate, resolve the user, issue a ticket or a code | four sources of clients; which redirect URIs are trusted |
| `/consent` (`oauth/endpoints/consent/handler.ts`) | none (marks in the store) | read the ticket, check the user, burn, issue | races of two decisions, sessions that change between awaits, failure after the burn |
| `/token` (`oauth/endpoints/token.ts`, `oauth/policy/authcode.ts`) | none (marks) | authenticate, burn the code, compare, mint | burn precedes comparison; the clock is read before the decryption |
| `/revoke` (`oauth/endpoints/revoke.ts`) | none (marks) | authenticate, burn | racing a rotation |
| `/register` (`oauth/endpoints/register.ts`) | none: the client id is the record | filter URIs, seal | what an unauthenticated caller can put into an id |
| Client policy (`oauth/crypto/clientauth.ts`) | none | authenticate a client | two walks over the same list of client sources, in two files |
| Signed tokens (`auth/signed/*.ts`) | none (marks) | mint, verify, rotate, revoke | chains of rotations, user removed meanwhile, replay |
| Sealing and keys (`oauth/crypto/sealed.ts`, `clientauth.ts`, `hkdf.ts`, `keycache.ts`, `auth/signed/payload.ts`) | bounded map of pending keys | seal and unseal, hash and verify, sign and verify under a list of secrets | eviction and rejection under concurrent callers; a secret rotated in the middle of a flow |
| Audit (`http/http.ts`, `oauth/audit.ts`) | a timer per call | `runAuditBounded` | a sink that hangs |
| CIMD (`oauth/cimd/*.ts`) | host's optional cache | fetch a client document | per-hop timeouts, redirects, DNS looked up twice |
| Router (`oauth/router.ts`, `oauth/config.ts`) | none | route, turn exceptions into 500 | nothing is undone after a failure |
| MCP dispatch (`mcp/dispatch.ts`, `rpc-handlers.ts`, `methods.ts`) | none | parse, authenticate, authorize, call | the order of checks, exceptions in between |
| Tools (`mcp/registry.ts`, `validate.ts`, `tools.ts`) | map of tools; a timer and listeners per call | construct, list, get, call, exchange with an upstream API | what is advertised must be enforced; abort, timeout and answer race; every way out must clean up |
| Example stores (`examples/stores.ts`) | rows with a time to live, in a store several instances share | `consume` | lives in whole seconds; other instances between computing one and setting it |
| Bodies, Node adapter (`http/body.ts`, `adapters/*.ts`) | counters per request | read bounded bodies | events in any order after an overflow |
| App assembly, metadata, pages, utilities | none | construction, rendering | - |

How they interact: the router calls the endpoint handlers; the handlers call the
host's *ports* (`resolveUser`, `codeStore`, `clientStore`, `isUserActive`,
`mintAccessToken`, `audit`), each an await at which other requests run; endpoints
hand state to each other only through sealed strings carried by the browser and
through the marks in the store. Refresh tokens share that store under the prefix
`rt:`, tickets under `ct:`, codes bare.

What each part has to guarantee: the store answers `true` once per unexpired key;
a ticket is decided once, by its user; a token traces back to a consent; codes
only go to URIs the operator vouches for; a grant never forks, never widens and
dies when revoked; the key cache never serves a failed or foreign derivation;
audit never delays a response beyond its bound; a tool never runs unless every
check before it passed.

## Modules

    SingleUse          contract of a CodeStore (actions for others to use)
      SingleUseStore   the contract as a closed specification
      CodeStore        the in-memory store, refines SingleUseStore
      KvCodeStore      the store over shared key-values, refines SingleUseStore
        Redemption     check expiry - wait - consume, on either of the two
      ClientPolicy     which clients, which redirect URIs
      AuthFlow         /register, /authorize, /consent, /token   (SingleUse + ClientPolicy)
      RefreshRotation  signedTokenAuth: rotate, revoke           (SingleUse)
    CredentialLine     what single use is for: one line of credentials per consent
                       and per grant; AuthFlow and RefreshRotation refine it
    KeyCache           the cache of derived keys
      Sealing          what the secrets key, and their rotation  (KeyCache)
    McpDispatch        a request at the MCP endpoint, its ports and its audit
    ToolCall           one tool call, with the exchange of an apiTool
    ToolSchema         the schema subset: construction checks and validation
      ToolRegistry     the calls of a registry over that subset  (ToolCall)
    NodeHandler        the Node adapter in front of fetch
    Cimd               resolution of a client metadata document
    Redemption_proofs, AuthFlow_proofs, RefreshRotation_proofs, McpDispatch_proofs,
    Sealing_proofs, Cimd_proofs, NodeHandler_proofs, ToolCall_proofs   theorems
    MC*                instances for TLC

**SingleUse / SingleUseStore.** `Answers(key, exp)` is the contract: a key never
marked is fresh, a key marked is not fresh again unless it has expired. For an
expired key the answer is left open, because stores may forget. `ConsumeThrows`
is a remote store that fails with or without having written the mark.

**CodeStore.** `createMemoryCodeStore`: `used` and `lastPrunedAt` are its two
variables, `Consume` is the whole of `consume` (prune when due, look up, insert).
`consume` has no await, so it is one step. The clock starts at `PruneInterval` or
later, as `Date.now()` does.

**KvCodeStore.** `kvCodeStore` over a store like Redis (`memoryKv` in the
repository's example). `Consume` computes the life of the mark in seconds,
`SetIfAbsent` is the atomic command that reaches the store later; commands of
other callers may come in between. `Second` is the number of time steps in a
second, so that the rounding is a rounding. `rows` keeps the rows whose time is
over: the store drops one when its key is next read, which nobody can see.

**Redemption.** All three redemptions look at the expiry, wait, then consume.
`CheckExpiry` and `Redeem` (in-memory), or `KvRedeem` and `KvAnswers` (key-values),
are those moments, against the real stores, for any number of requests. The
variable `store` says which of the two a deployment has. Its runs also check that
each store keeps the contract under the calls that really happen; the theorems
say so of these calls and of calls at any time.

**ClientPolicy.** The order in which a client id is recognised (registered,
sealed by `/register`, metadata document, unknown) and what follows for its
redirect URIs (`RedirectAllowed`) and its authentication (`Authenticates`). A
metadata document either resolves this time or does not (`fetched`), anew at each
use. `AllowUnregistered` and `RequireRegistered` are the options of those names.

**AuthFlow.** Requests are slots (`req`) with a program counter; an action ends
where the handler awaits something another request can interfere with:

| Handler | Actions |
|---|---|
| `handleAuthorize` | `Authorize` (all validation) - `AuthorizeUser` (after `resolveUser`: log in, code, or ticket) |
| `handleConsent` | `ConsentRead` - `ConsentUser` - `ConsentBurn` - `ConsentIssue` |
| `handleToken`, authorization_code | `TokenRead` - `TokenBurn` - `TokenMint` |
| `handleRegister` | `RegisterClient` |
| a port throws, the instance dies | `Fails`, `StoreThrows` |
| the host | `Tick`, `SignIn` |

`tickets` and `codes` are the sealed records issued so far, by id. Anybody may
present any of them; nobody can make one up, which is the assumption on AES-GCM.
`tokens`, `accepted`, `decided`, `seen` and the `from` field of a code are
history: they record what happened and no guard reads them.

**RefreshRotation.** The same form for `grant_type=refresh_token` and `/revoke`
with `signedTokenAuth` as the port: `RotateRead` (every check on the caller's
input) - `RotateActive` (`isUserActive`) - `RotateBurn` - `RotateMint`;
`RevokeRead` - `RevokeBurn`; `IssueGrant` is `mintAccessToken` for a redeemed
code. `root`, `from`, `accepted`, `revoked`, `failed` and `allowed` are history:
`accepted` counts the rotations the store let pass, `failed` those that broke
before the new pair was signed, `allowed[u]` the tokens that had come out of
rotations for `u` at the moment `u` was removed, and the rotations that were then
past the user check. `RemovedUserRunsOut` bounds what comes out of rotations
(`RotatedFor`) by that. `IssueGrant` asks no `isUserActive`, as in the code: a code
that a removed user still had is redeemed for a first pair, which then cannot be
rotated. `JtiLeft` and `GrantLeft`
bound the number of tokens and of grants and are not in the code: the first starts a
request only while an id is left for its successor, so that no request gets stuck
for want of one.

**CredentialLine.** The abstract specification of both. A consent, and likewise the
grant that a redeemed code starts, is a line of credentials, each given in return
for the one before: `Begin`, `Spend`, `Replace`, `End`. It is in one place at a time:
in one credential that works, `Between` two of them, or `Ended` for good.
`ConsentLine` of `AuthFlow` maps a ticket and the code of its approval to such a
line (`Between` is a request at `consent-issue`), `GrantLine` of `RefreshRotation`
the refresh tokens of a grant (`Between` is a rotation at `mint`). Both mappings
read the expiry: past that of the ticket, or of the grant, a line counts as ended,
because the store may have forgotten the mark. `ConsentIsOneLine` and
`GrantIsOneLine` are `Spec` of the abstract module under these mappings, so they
say of every step which of the four it is, or none.

**McpDispatch.** One handler per request, `createMcpApp.fetch` for whatever is no
OAuth route; `phase` is the await it is in:

| Code | Actions |
|---|---|
| `createMcpHandler.fetch` up to the body | `Arrive` (`OnHead`: origin, method, query token, header) |
| `parseBody`, `validateJsonRpcEnvelope`, `jsonRpcShapeError`, `errorId` | `BadBody` (`Unread`, `BadEnvelope`, `EnvelopeError`, `HasId`) |
| version header, notification, public method | `Body` |
| `buildAuthenticate`: bearer, `verifyToken`, audience | `Authenticate` |
| `tools/call` up to `context`; `context`; `registry.call` | `Handle`/`ToolsCall`, `Context`, `CallTool` |
| `safeAudit`, `runAuditBounded` | `Audited`, then `SinkSettles` or `TimerFires` |
| the catch of `createMcpHandler.fetch` | `Caught`: a 500 (`Failure`), or phase `rejected` when the value has no text |
| the catch of `createAppFetch` | `AppCatch`, `AfterServerError` (OAuth sink, MCP sink, 500) |
| the host revokes a token | `Invalidate` |

An answer is built after its audit entry and building it may throw; `pending`
says whether. A malformed envelope is refused with the id it has, if that is legal,
so `message` holds it like a request. The catch of the app receives what `String()`
threw, an Error as a rule, which it audits and answers; it is `lost` only if a
`toString` of the host throws a value that has no text either. `context`, `ran` and `stale` are history.

**NodeHandler.** `asNodeHandler`: `Accept` is everything up to the first event of
the body, `Data`, `StreamEnds` and `StreamBreaks` are the events, in any order,
`Convert`, `Fetched` and `Send` the rest of the handler, `Flush` the callback of
`res.end`. `fetch` is a step that resolves or rejects: `EveryRequestEnds` and
`mcp_fetch_rejects` of `McpDispatch` are why it may do both. `source` says where a
body comes from: events, an async iterable (`readFromAsyncIterable`), or nowhere. A
stream that somebody else has drained is left out.

**Cimd.** `resolveCimdOutcome`, one action per await: the cache, a DNS lookup
(`guard`, `redirect`, `recheck`), the response, a chunk of its body. URLs are
model values with an origin; `Permitted` are those that pass `URL_SAFETY`, `PrivateHost`
those that only its last rule refuses, which has a code of its own; a lookup answers public, private or fails, anew each time. `ClientPolicy` uses only
the outcome.

**KeyCache, Sealing.** `settleCached` over `createBoundedCache`: `map` is the
cache in insertion order, `promise` the derivations, `caller` who awaits which. A
caller goes on in a step of its own after its promise has settled. `Sealing` puts
what uses the cache on top of it, a request per caller: `Begin` resolves
`codeSecret` (to a list that may differ at every call, and may be refused),
`LookUp` asks for the key of one entry, `KeyArrives` and `KeyFails` go on with it.
The three walks of a list differ, and so they do in the model:

| Code | tries | a failed derivation |
|---|---|---|
| `unsealAny` (codes, tickets, client ids) | until one opens | counts as one that does not open |
| `verifyClientSecretAny` | every entry | throws |
| `verifyPayload` (signed tokens) | until one verifies | refuses the token |
| `seal`, `hashClientSecret`, `signPayload` | the first only | throws |

`under` is the secret something was made with, possibly by another instance that
knows a newer list; `found` and `failed` say where a walk succeeded and broke.

**ToolSchema.** The JSON Schema subset of `validate.ts`. `ConstructionAccepts` is
what `createToolRegistry` checks; `Validate` is the walk, with its list of errors
that must stop at `MaxErrors`; `Violations` is the reference: what JSON Schema says
of the same value, with no order and no budget, of keywords the validator ignores
too. It has its own reading of `type` (`TypesOf`: the types a value is of); for an
empty list of types, which JSON Schema does not allow, it follows the code. Texts and their clipping are left out: an error is its path and its kind.

**ToolCall.** `registry.call` of one tool, which `McpDispatch` sees as the single
step `CallTool`:

| Code | Actions |
|---|---|
| `createToolRegistry` | `CreateRegistry` |
| `validateToolArguments`, then `parseWithSchema` | `Arrive`, `Parse` |
| the handler of a plain tool, `asToolResult`, `resolveToolError` | `Handler` |
| `apiTool`: `options.request`, `anySignal`, the call of `fetch` | `Request` |
| the caller aborts, the timer fires | `AbortCaller`, `TimerFires` |
| `fetch` settles, on its own or by an abort | `FetchSettles`, `FetchIsCut` |
| what follows it in `fetchWithTimeout` and `boundResponse`, up to the read | `Fetched` |
| `readBoundedBytes` ends, on its own or by an abort | `Read`, `ReadNothing`, `ReadIsCut` |
| the response rebuilt, `finally`, `abortResult` | `Closed` |
| `respond`, `onError` | `Shape` |

`aborted` is the caller's signal, which several calls share and which outlives
them; `listeners` is what they have left on it. `cause` is history: what ended the
exchange. The upstream may answer anything, or nothing, or stall in a body. What a
schema admits is a pair of constants, `Accepts` and `ErrorsOf`: the exchange does not
depend on it.

**ToolRegistry.** `ToolCall` with `ToolSchema` for those two, which the `.cfg` files
give as `ConstructionAccepts` and `Validate`, and the property that relates both:
`SchemaIsEnforced`.

Definitions headed *Fault:* are not part of any specification. Each is a
plausible mistake in the definition below it, kept to show that the properties
notice: with the mistake in place, TLC reports the property violated.

## Runs

| Run | Question | Result |
|---|---|---|
| `redemption` | Three requests, three tokens, waits between check and consume, on either store: is a token redeemed at most once while unexpired, does each store keep the contract, does the map lose what it should? | holds (0.4 M states) |
| `redemption_works_once` | Is it redeemed at most once, ever? | **no** |
| `authflow_races` | Two requests over one ticket and two codes, with expiry, session changes and faults: single use, final decision, only its user spends a ticket, one line from ticket to code? | holds (1.9 M) |
| `authflow_binding` | Every kind of client, two users, URIs, verifiers and resources: are tokens and codes bound as consented, and is no approval lost? | holds (0.8 M) |
| `refresh` | Racing rotations and revocations over a chain, two clients, scopes, faults, expiry, a user removed: is a grant one line of tokens that never forks nor comes back once ended, is it preserved, no successor lost or doubled, dead after revocation, an end for removed users? | holds (1.1 M) |
| `mcp_dispatch` | Does only an entitled call reach the host, does the audit trail tell the answers, do ids come back, does every request end without a timer left? | holds (0.1 M) |
| `mcp_fetch_rejects` | Does `fetch` never reject? | **no** |
| `sealing` | Two requests, secrets that rotate, a cache with room for one key: does what is listed open and nothing else, is the cap kept, no slot poisoned, no foreign entry removed, and does every request end? | holds (0.6 M) |
| `cimd` | Two resolutions over one cache: are only checked URLs requested, boundedly often, is a document always its client's own, and does each end, without a timer left, against a silent server? | holds (0.8 M) |
| `node_handler` | Is the body whole or refused, the Host checked first, the answer single, and given at all? | holds (10 k) |
| `tool_call` | Are arguments held against the schema as JSON Schema means it, are errors real and complete up to the limit, is every abort heard, does the result name what ended an exchange, do listeners go, does every call end? | holds (0.7 M) |
| `tool_call_no_content` | Does every upstream success reach `respond`? | **no** |

The three that fail are disagreements between the documentation and the code:

* *Works once* (`docs/security.md`, "Each refresh token works once and is
  replaced"; likewise the ticket and the code). The expiry is compared before the
  wait for decryption, `resolveUser` or `isUserActive`; `consume` does not compare
  it again; and the store drops a mark once its expiry has passed. A request that
  checked just in time and consumes after the expiry and a prune is answered
  fresh for a token that was used. Until expiry single use does hold, and that is
  what the passing runs and the theorems state.
* *`fetch` must never reject* (`mcp/dispatch.ts:150`, of `createMcpHandler`). The
  catch block computes the audit reason with `String(caught)` (`http/http.ts:6`),
  which throws for a value without a string form, so the promise rejects. Hosts that
  use `createMcpHandler` by itself, as `docs/guide.md` shows, meet the rejection.
  `createMcpApp` does not: the catch of `createAppFetch` takes up what `String()`
  threw, audits it on both sinks and answers 500, though not as a JSON-RPC error.
* *`respond` shapes a 2xx response* (`docs/guide.md:394`). `boundResponse`
  (`mcp/tools.ts:364`) rebuilds each response as `new Response(bytes, {status})`,
  which throws for a status that never has a body, so a 204 becomes "Tool execution
  failed". The same line keeps a 304 and an opaque redirect (status 0) from
  `defaultErrorResult`, whose hint about the latter the comment at `tools.ts:184`
  describes.

A fourth statement of the documentation is not checked, since no bound makes it
true: "The last access token issued can still run up to `ttlSeconds` past that"
(`docs/security.md`, of the end of a grant). `rotateRefresh` reads the expiry,
waits for the user check and the store, and mints with the clock of that moment,
so the token runs longer by as long as the host takes.

### Bounds, and why they are enough

* Time is counted in steps; lifetimes are one or two of them and `MaxNow` lets the
  clock pass every expiry by at least one step, so that each comparison is met
  before, at and after its boundary. In `redemption` a second is two steps, so that
  a life is a whole number of seconds for some tokens and not for others. In
  `refresh` a lifetime is one step, so that a chain goes on while the clock advances,
  and the ticks of the run fall anywhere in a rotation. The binding run stops the
  clock: what a grant is bound to does not depend on time.
* The races need two requests over one ticket or code. `refresh` has three tokens:
  a parent, its successor and the successor of that, or a second grant
  (`MaxGrants`; a third would leave nothing to rotate with); the counters of its properties compare what happened to one token with what
  descends from it, however many requests there were.
* In the binding run one request runs at a time over varied data: those
  properties compare fields, and the races of the other runs would multiply the
  states without adding a field. Unknown clients are admitted, and one
  pre-approved id is registered nowhere.
* Symmetry is used over request slots, users, challenges, resources, clients and
  scope names where no constant tells them apart, and in no run with a liveness
  property. The jti of a new refresh token is a `CHOOSE` among the unused ones.
* Requests at the MCP endpoint share only the set of live tokens, which changes
  under `Invalidate` at any time: one request meets everything two would, and the
  theorem is for any number. Three tokens: with the scope, without, and with the
  wildcard scope for another server; a tool with a scope and one without.
* `sealing` has one place in the cache and two callers, so that every key evicts
  another, a pending one too, and its key can be derived again before the first
  derivation fails. Three promises are alive at most: the one cached and one held
  by each caller. The lists are a single secret, the same after a newer one, and a
  list that is refused; what a request presents may be under any of them.
* `cimd` has two resolutions, so that one reads what the other wrote, and URLs of
  every kind: two client_ids, a URL of their origin that is not permitted, and a
  client_id of another origin whose host has a private name. One redirect is allowed (the code allows three), so that
  the limit is met at the second.
* `node_handler` lets one chunk more than either cap be sent.
* `tool_call` takes one tool at a time. Plain tools range over schemas with every
  keyword, alone and in pairs, nested in properties and items, some of which
  construction refuses; arguments have up to two keys and one level of nesting;
  `MaxErrors` is two (the code has 20), so that it is met in the middle of a walk
  and exactly at its end. For an apiTool the options are all combined, with two
  calls, so that one runs on while the signal of the other aborts.
* Deadlock is checked in `authflow_races`, `authflow_binding`, `refresh` (the host
  can always change a session or a user) and `sealing` (a caller can always begin
  again). In `Redemption` the clock is bounded and an expired token is never
  checked again, so the instance really ends and the check is off. So do the
  instances of `McpDispatch`, `NodeHandler`, `Cimd` and `ToolCall`, when every
  request is done; `EveryRequestEnds`, `EveryRequestIsAnswered`,
  `EveryResolutionEnds` and `EveryCallEnds` say that none ends before that.

### Fairness

Fairness is stated where a property needs it, and only of what the platform, the
library or a documented duty of the host makes happen. Nothing obliges anyone to
send a request, or time to pass.

In `McpDispatch` the client's body ends, ports settle and timers fire; the audit
sink owes nothing (`SinkSettles` has no fairness), which is the point of its
timer. The other ports have no timeout in the code, so a host whose `verifyToken`
never settles does hang its requests: that fairness is an assumption on the host.
In `Cimd` timers fire and lookups and the cache answer, but the client's server
owes nothing: neither a response nor a chunk nor the end of a body. In `Sealing`
WebCrypto settles, either way, and an awaited continuation runs. In `NodeHandler`
a stream ends or breaks, and `fetch` settles. In `ToolCall` the callbacks of the
host settle, timers fire, and a `fetch` or a read whose signal has aborted ends;
the upstream owes nothing, so without a timer (`timeoutMs: false`) a call may hang
for ever, and `EveryCallEnds` does not claim otherwise.

`AuthFlow` and `RefreshRotation` state none. What must not get lost there
(`NoApprovalLost`, `AcceptedTokenIsReplaced`) is an invariant over what has been
burned, what has been issued and what is still under way.

## Proofs

All for arbitrary constants: any number of requests, keys, users, secrets, URLs, any
lifetimes and limits. Every invariant, action property and refinement that a passing
run checks is also a theorem, except `SchemaIsEnforced` (below). Each rests on an
inductive invariant that says of every await what the code before it has
established; TLC finds these invariants to hold on the instances of the runs, too.
The theorems also state what no run checks, being weaker than what a run
does check or proved for all values anyway: the types of `AuthFlow` and `McpDispatch`
(`TypeCorrect`), `NoFork`, `ServerWaitsAreTimed`, `NoWalkIsStuck`,
`NoTimerOutlivesItsRequest`, `RefusedCallsNeverRun`.

* `Redemption_proofs`, the stores. `Invariance`: types and `ForgetsOnlyExpired`
  together are inductive (a prune drops `used[k] < now`, and `used[k]` is the expiry
  of `k`). `Refinement`: `Spec => Contract!Spec`, step by step: a refused key is in
  the map, hence marked; a marked key called fresh has left the map, hence expired.
  `PruneWorks`: what is in the map after a prune survived it or is the key of the
  call. `KvMarksLast`: a mark over key-values ends no earlier than the token it
  records, whether it is a row or still on its way. Its one hard step is arithmetic,
  a lemma on rounding up: a life of whole seconds counted from the moment of
  `Consume` covers the rest of the token, and the command can only reach the store
  later. `KvRefinement`: with the keys that ever had a row as the marked ones; a
  marked key called fresh has a dead row, which by `KvMarksLast` means an expired
  token.
* `Redemption_proofs`, the redemptions. `MemoryRuns` and `KvRuns` show that each
  store runs among the redemptions as it does alone, so that its refinement carries
  over (`MemoryKeepsContract`, `KvKeepsItsContract`). `RedeemedOnce`: what has been
  redeemed is marked in the store of the deployment, and a marked key that is
  answered fresh has expired (`AcceptOnce`, which uses nothing but the contract). The
  check of the expiry before the wait plays no part in it.
* `AuthFlow_proofs`. `TypeCorrect`: `TypeOK` is inductive together with
  `InFlightIsIssued` (a handler only holds ids of records it unsealed).
  `SingleUseCorrect` needs that what is accepted was marked (`AcceptedIsMarked`) and
  what is marked was issued (`MarkedIsIssued`, so that a new ticket or code starts
  unmarked); `ConsumeOnce` is the one place where the contract is used. The other
  five rest on lemmas about how the state evolves: sealed records never change and
  history only grows (`Grows`), a request only moves by its own step, and what is new
  names the step that made it. `CodesStayWithTrusted`: the redirect URI of an offer
  is judged once, at `/authorize`, and travels unchanged; the judgement of an id the
  server sealed itself needs the filter of `/register` (`AssertionsAreFiltered`).
  `SpentByItsUser` and `DecidedOnce`: a request gets to the burn only past the
  comparison of session and ticket, and on to the code only past an approval that the
  store called fresh; at most one decision is recorded per acceptance, and an
  unexpired ticket is accepted once. `TokensTraceBack`: a token repeats its code field
  by field, and a code goes back to an approval in its user's session or to a
  pre-approved client. `ApprovalsArrive`: without faults a request past the burn stays
  there until its code exists. `OneLinePerConsent`: `AuthFlow` implements
  `CredentialLine`. The invariant it needs is `OneIssue`: of an unexpired ticket one
  request at most is at the issue, there is one code at most, never both, and in
  either case the ticket is marked. Then `AuthorizeUser` begins a line, `ConsentBurn`
  spends the ticket of one, `ConsentIssue` replaces it by the code, `TokenBurn`, a
  denial, a failure or the clock end lines, and every other step leaves all alone;
  `SettlingEndsLines` deals with the steps of the last two kinds together.
* `RefreshRotation_proofs`. `TypeCorrect` needs that a request in flight names an
  issued token of its own client (`InFlight`), and that a rotation under way finds a
  jti for its successor (`JtiEnough`, a count over finite sets). `GrantPreserved`:
  every token equals the first of its grant but for the jti, so all of them expire
  together. `NoFork`: `OneUsableTokenPerGrant` is not inductive alone, because
  between a burn and the mint a grant has no usable token and must not get two;
  `OneLine` counts the rotations past the burn with the usable tokens. A burn that
  is answered fresh for an unexpired token turns the one into the other, by the
  contract of the store; past the expiry nothing of the grant is usable, by
  `GrantPreserved`. `RevokedStaysDead`: what was answered 200 for is marked, and
  marks stay. `OnlyTheHolderSpends` follows from `InFlight`.
  `EveryAcceptanceIsReplaced`: `Balanced`, that acceptances equal successors plus
  rotations at the mint plus failures, token by token; the lemmas say how each kind
  of step changes the three sets that are counted, and the assumption that the ids
  of a behaviour are finitely many is used here. `RemovedUserGetsNoMore`: `Owed`,
  that the tokens rotated for a removed user and the rotations past the user check
  are together no more than at the removal: nobody passes that check any more
  (`NobodyPasses`), a mint turns one into the other, and the first token of a grant
  begun since is neither.
  `OneLinePerGrant`: `RefreshRotation` implements `CredentialLine`, by the invariant
  of `NoFork`. `IssueGrant` begins a line, the burn of a rotation spends its one
  usable token, the mint replaces it, and `QuietEndsLines` covers every step that
  issues nothing: what it makes unusable ends, and nothing that has ended returns,
  because a rotation that is under way for an ended line finds its token marked or
  its grant expired.
* `McpDispatch_proofs`. `HostReachedByEntitledOnly`: the invariant `IInv` says of
  each phase what the checks so far have established (`Admitted` after the head;
  a message with an id before authentication; `Entitled` from `context` on), and
  that a bearer that was dead on arrival stays dead. The last is needed because
  entitlement is about the moment of arrival and `verifyToken` answers later;
  that tokens only die (`Invalidate`) makes the one follow from the other.
  `Same` and `Over` carry it through the audit and the catch blocks, whoever
  throws. `TheTrailIsTrue` and `IdsAreEchoed`: `Tale`, that nothing is written before
  an answer is chosen, and that from then on the trail and the id agree with the
  answer that waits for the sink, with the failure that takes its place, and with
  what the catch of the app writes before it answers.
  `NoTimerOutlivesItsRequest` is the half of `EveryRequestEnds` that is safety.
* `Sealing_proofs`, over `KeyCache`. `TheCacheIsSound`, `TheSlotIsNotPoisoned`,
  `OnlyTheFailedIsForgotten`: `CacheInv`, that a cached promise that has not resolved
  still has the caller who created it, which is the one that will forget it; a
  waiting caller finds a free promise by counting (`FreePromise`). Deleting is
  `RemoveAt`, which the first lemmas describe element by element. `RotationWorks`:
  over the entries tried so far, the one noted as found is that of the material, and
  if none is, its entry is among those that failed (`Before`); `Told` is what that
  leaves for each answer. `NoWalkIsStuck` is the half of `EveryWalkEnds` that is
  safety: whoever awaits a key awaits a promise that is kept for it, and whoever is
  about to look one up finds it or a free promise.
* `Cimd_proofs`. `Good` says of one resolution what it has checked where it waits:
  the URL of the hop passed the rules and is of the right origin, its host was found
  public last, the requests sent are the redirects counted plus one, and a document
  about to be stored fits its client. Only the cache is shared, and it holds only
  documents that fit their own ids, so whoever wrote it does not matter.
  `ServerWaitsAreTimed`: `Timed`, that a hop waits for the server only while its
  timer runs and that the timer is gone once the hop has its answer, is inductive on
  top of that: a redirect gets its new timer with its new request, and a failure
  clears the old one wherever it happens.
* `NodeHandler_proofs`. `Good` of one connection: while the stream is read, what is
  collected is what was sent, within the cap; afterwards it is the body; a denied
  request is done, and only an answered one flushed and only a flushed one destroyed.
* `ToolCall_proofs`. `ListenersGo`, `TheResultTells`: `Story` says, phase by phase,
  that an exchange that an abort found open can from then on end only by it, so that
  the error caught names it, although `abortResult` looks at the signal and the error
  late. `EveryAbortIsHeard`: `Heard`, that an exchange which follows the caller by a
  listener has that listener as long as nothing has cut it; the first abort takes it
  off, but cuts the exchange in the same step, and a signal that had aborted before
  cut it from the start. `RefusedCallsNeverRun`: arguments are judged once and for good, whatever the
  schema walk is (`Accepts`, `ErrorsOf` are constants there).

Assumptions: the named `ASSUME`s on the constants, evaluated by TLC in every run, and
the contract of the store, which is proved for both stores. Those that say more than
the type of a constant are: model values for "nothing" are no values of the set they
stand beside; the ids, promises and callers that one behaviour counts are finite; and
`Promise` of `KeyCache` has room for all that can be held at once, the limit plus one
per caller, because the platform does not run out of promises.

Proof attempts changed the model where the runs had shown nothing amiss. The
guards of a `CASE` overlapped in `CodesGoToTrustedRedirects` (a registered id that
also has a metadata document), in `Failed` of `Sealing` and in `AbortResult` and
`Closed` of `ToolCall`: TLC takes the first, the language leaves the choice open; they
are disjoint now. `Strong` of `Sealing` read as a union of differences. `Cimd` and
`Sealing` used facts on their constants that nothing stated (`NoneAssumption`,
`CacheKeyAssumption`). And `ToolCall` no longer reaches the recursion of `ToolSchema`.

Only model-checked, and why:

* The liveness properties (`EveryRequestEnds`, `EveryWalkEnds`, `EveryResolutionEnds`,
  `EveryRequestIsAnswered`, `EveryCallEnds`): fairness and `ENABLED` are out of the
  prover's reach. What they need of every state, that whoever waits waits for
  something that can still come and that nothing is left behind, is proved
  (`NoTimerOutlivesItsRequest`, `NoWalkIsStuck`, `ServerWaitsAreTimed`,
  `EveryAbortIsHeard`, `OneAnswerThenClosed`); the runs add that it comes.
* `SchemaIsEnforced`: the walk of `ToolSchema` is `RECURSIVE`, and what a recursion
  computes for every input would need induction over data. `RefusedCallsNeverRun` is
  the part around it.

## Not modelled, and the plan

* Cryptography is abstracted to ids that cannot be forged (`AuthFlow`,
  `RefreshRotation`) and to keys that open what was made with the same purpose and
  secret (`Sealing`). Timing equalisation has no place in a model of states.
* URL parsing behind redirect and resource comparison is equality of model
  values, and the address and host rules of `cimd-ssrf.ts` are a set of permitted
  URLs and one answer per lookup: they are predicates on text, without state, that
  a table of examples tests better.
* A stream that a middleware has drained without leaving `req.body`
  (`http/body.ts:198`): no event ever comes, and nothing in the adapter tells that
  from a slow client.
* Construction asserts and wiring of `app.ts` and `router.ts`, which run once
  before the first request.
* `kvRevocation` and the other example hosts; the OAuth endpoints' audit calls,
  which use the helper that `McpDispatch` models.
* Rendering, discovery documents, logging, presets, type-level code: no state.

Where it would go on, if the code grows there: the access tokens that
`accessVerifier` accepts, composed with `McpDispatch`, whose `verifyToken` is one
answer of the host today; and `CredentialLine` across the two modules that implement
it, so that one line runs from the consent to the last refresh token of its grant.
