------------------------------- MODULE AuthFlow -------------------------------
(***************************************************************************)
(* The authorization-code flow: /register, /authorize, /consent and        *)
(* /token, as requests that run concurrently and wait at every await where *)
(* another request may get in between.                                     *)
(*                                                                         *)
(* The server stores no grant.  A consent ticket and an authorization code *)
(* are sealed records (AES-GCM) that travel through the browser: here the  *)
(* ids in tickets and codes stand for the sealed strings, anybody may      *)
(* present any that was issued, and nobody can make one up.  The only      *)
(* stored state is the single-use mark of each id, in the CodeStore.       *)
(***************************************************************************)
EXTENDS SingleUse, ClientPolicy

CONSTANTS
  Req,                 \* request slots: how many requests run at once
  Browser, User,
  Nobody,              \* resolveUser answers null
  Challenge,           \* PKCE S256 challenges; a verifier is named by its challenge
  Resource,            \* canonical resource of each origin the server answers on
  ScopeName, Advertised, DefaultScopes,
  PreApproved,         \* consent.preApprovedClientIds
  TicketId, CodeId,    \* the jti values there are
  TicketTtl, CodeTtl,  \* CONSENT_TICKET_TTL_MS, CODE_TTL_MS, in time steps
  MaxNow,              \* bound on the clock
  Faults               \* whether ports may throw and instances may die

ASSUME AuthFlowAssumption ==
  /\ Nobody \notin User
  /\ TicketTtl \in Nat /\ CodeTtl \in Nat /\ MaxNow \in Nat
  /\ Advertised \subseteq ScopeName
  /\ DefaultScopes \subseteq Advertised
  /\ PreApproved \subseteq Client
  /\ Faults \in BOOLEAN

VARIABLES
  session,   \* the user each browser is signed in as, in the host's own session
  tickets,   \* consent tickets issued so far: id -> sealed payload
  codes,     \* authorization codes issued so far: id -> sealed record
  req,       \* the requests in flight
  tokens,    \* history: the grants access tokens were minted for
  accepted,  \* history: how often consume called each key fresh
  decided,   \* history: the decisions each ticket was accepted with
  seen       \* history: which sessions a ticket was posted from

vars == <<now, spent, assertions, session, tickets, codes, req, tokens,
          accepted, decided, seen>>

-----------------------------------------------------------------------------
(* What is sealed, and what a request remembers between two awaits. *)

Offer == [client : Client, redirect : Redirect, challenge : Challenge,
          resource : Resource, scope : SUBSET ScopeName]

Grant == [offer : Offer, user : User]

Ticket == [grant : Grant, exp : Nat]

Origin == [ticket : SUBSET TicketId]   \* ghost: the ticket a code came out of

NoTicket == [ticket |-> {}]

Code == [grant : Grant, exp : Nat, from : Origin]

TicketKey(t) == <<"ct", t>>   \* `ct:${jti}` keeps the two kinds apart
CodeKey(c)   == <<"code", c>>

Key == ({"ct"} \X TicketId) \cup ({"code"} \X CodeId)

Idle == [pc |-> "idle"]

AuthorizeRequest == [pc : {"authorize"}, browser : Browser, offer : Offer]

ConsentRequest == [pc : {"consent-user", "consent-burn", "consent-issue"},
                   browser : Browser, ticket : TicketId, approved : BOOLEAN]

TokenRequest == [pc : {"token-burn", "token-mint"}, code : CodeId,
                 client : Client, redirect : Redirect, verifier : Challenge,
                 resource : Resource, proved : BOOLEAN]

Token == [code : CodeId, user : User, client : Client, resource : Resource,
          scope : SUBSET ScopeName, redirect : Redirect, verifier : Challenge,
          proved : BOOLEAN]

Put(f, x, v) == [y \in DOMAIN f \cup {x} |-> IF y = x THEN v ELSE f[y]]

Answer(r) == req' = [req EXCEPT ![r] = Idle]

Goto(r, pc) == req' = [req EXCEPT ![r].pc = pc]

Init ==
  /\ now = 0
  /\ spent = {}
  /\ assertions = [c \in {} |-> {}]
  /\ session \in [Browser -> User \cup {Nobody}]
  /\ tickets = [t \in {} |-> {}]
  /\ codes = [c \in {} |-> {}]
  /\ req = [r \in Req |-> Idle]
  /\ tokens = {}
  /\ accepted = [k \in Key |-> 0]
  /\ decided = [t \in TicketId |-> {}]
  /\ seen = {}

-----------------------------------------------------------------------------
(* The world around the server. *)

Tick ==
  /\ now < MaxNow
  /\ now' = now + 1
  /\ UNCHANGED <<spent, assertions, session, tickets, codes, req, tokens,
                 accepted, decided, seen>>

\* The host signs a user in or out of a browser.
SignIn(b, u) ==
  /\ session' = [session EXCEPT ![b] = u]
  /\ UNCHANGED <<now, spent, assertions, tickets, codes, req, tokens,
                 accepted, decided, seen>>

RegisterClient(c, uris) ==
  /\ Register(c, uris)
  /\ UNCHANGED <<now, spent, session, tickets, codes, req, tokens,
                 accepted, decided, seen>>

-----------------------------------------------------------------------------
(* GET /authorize.  A request that fails validation changes nothing.       *)

\* A scope parameter of blanks only is not an omitted one: it asks for nothing.
GrantedScopes(omitted, wanted) == IF omitted THEN DefaultScopes ELSE wanted

(***************************************************************************)
(* Everything up to the call of resolveUser.  origin is the resource of    *)
(* the origin the request arrived at (canonicalResource).                  *)
(***************************************************************************)
Authorize(r, b, origin, q, omitted, fetched) ==
  /\ req[r] = Idle
  /\ RedirectAllowed(q.client, q.redirect, fetched)
  /\ q.resource = origin
  /\ GrantedScopes(omitted, q.scope) \subseteq Advertised
  /\ req' = [req EXCEPT ![r] =
       [pc |-> "authorize", browser |-> b,
        offer |-> [q EXCEPT !.scope = GrantedScopes(omitted, q.scope)]]]
  /\ UNCHANGED <<now, spent, assertions, session, tickets, codes, tokens,
                 accepted, decided, seen>>

IssueCode(grant, from) ==
  \E c \in CodeId \ DOMAIN codes :
    codes' = Put(codes, c, [grant |-> grant, exp |-> now + CodeTtl, from |-> from])

IssueTicket(grant) ==
  \E t \in TicketId \ DOMAIN tickets :
    tickets' = Put(tickets, t, [grant |-> grant, exp |-> now + TicketTtl])

(* Fault: an id the client made up is waved through. *)
IsListed(c) == c \in PreApproved

IsPreApproved(c) == c \in Registered /\ c \in PreApproved

SignedIn(user) == user # Nobody

(***************************************************************************)
(* resolveUser has answered: nobody is sent to log in, a pre-approved      *)
(* client gets its code at once, any other a ticket on the consent page.   *)
(***************************************************************************)
AuthorizeUser(r) ==
  /\ req[r].pc = "authorize"
  /\ LET user  == session[req[r].browser]
         grant == [offer |-> req[r].offer, user |-> user]
     IN \/ ~SignedIn(user) /\ UNCHANGED <<codes, tickets>>
        \/ /\ SignedIn(user) /\ IsPreApproved(req[r].offer.client)
           /\ IssueCode(grant, NoTicket)
           /\ UNCHANGED tickets
        \/ /\ SignedIn(user) /\ ~IsPreApproved(req[r].offer.client)
           /\ IssueTicket(grant)
           /\ UNCHANGED codes
  /\ Answer(r)
  /\ UNCHANGED <<now, spent, assertions, session, tokens, accepted, decided, seen>>

-----------------------------------------------------------------------------
(* POST /consent. *)

\* readValidTicket: the only look at the expiry, before resolveUser is called.
ConsentRead(r, b, t, approved) ==
  /\ req[r] = Idle
  /\ t \in DOMAIN tickets
  /\ tickets[t].exp >= now
  /\ req' = [req EXCEPT ![r] =
       [pc |-> "consent-user", browser |-> b, ticket |-> t, approved |-> approved]]
  /\ UNCHANGED <<now, spent, assertions, session, tickets, codes, tokens,
                 accepted, decided, seen>>

(* Fault: anybody who is signed in may answer. *)
IsSomeUser(t, user) == user # Nobody

IsTheUser(t, user) == user = tickets[t].grant.user

\* resolveUser has answered; a ticket of somebody else is left alone.
ConsentUser(r) ==
  /\ req[r].pc = "consent-user"
  /\ LET t    == req[r].ticket
         user == session[req[r].browser]
     IN /\ seen' = seen \cup {<<t, user>>}
        /\ IF IsTheUser(t, user) THEN Goto(r, "consent-burn") ELSE Answer(r)
  /\ UNCHANGED <<now, spent, assertions, session, tickets, codes, tokens,
                 accepted, decided>>

(* Fault: the answer of consume is not looked at. *)
ApprovedAnyway(fresh, approved) == approved

Approves(fresh, approved) == fresh /\ approved

\* The ticket is spent before either outcome; a denial redirects at once.
ConsentBurn(r) ==
  /\ req[r].pc = "consent-burn"
  /\ LET t        == req[r].ticket
         approved == req[r].approved
     IN \E fresh \in BOOLEAN :
        /\ Consume(TicketKey(t), tickets[t].exp, fresh)
        /\ accepted' = [accepted EXCEPT ![TicketKey(t)] = IF fresh THEN @ + 1 ELSE @]
        /\ decided' = [decided EXCEPT ![t] = IF fresh THEN @ \cup {approved} ELSE @]
        /\ IF Approves(fresh, approved) THEN Goto(r, "consent-issue") ELSE Answer(r)
  /\ UNCHANGED <<now, assertions, session, tickets, codes, tokens, seen>>

(* Fault: the session is looked at again once the ticket is spent. *)
ConsentIssueRechecked(r) ==
  /\ req[r].pc = "consent-issue"
  /\ IF SignedIn(session[req[r].browser])
     THEN IssueCode(tickets[req[r].ticket].grant, [ticket |-> {req[r].ticket}])
     ELSE UNCHANGED codes
  /\ Answer(r)
  /\ UNCHANGED <<now, spent, assertions, session, tickets, tokens, accepted,
                 decided, seen>>

ConsentIssue(r) ==
  /\ req[r].pc = "consent-issue"
  /\ IssueCode(tickets[req[r].ticket].grant, [ticket |-> {req[r].ticket}])
  /\ Answer(r)
  /\ UNCHANGED <<now, spent, assertions, session, tickets, tokens, accepted,
                 decided, seen>>

-----------------------------------------------------------------------------
(* POST /token, grant_type authorization_code. *)

(***************************************************************************)
(* The client authenticates, the resource names this origin, and the code  *)
(* is unsealed and compared with a clock that was read before that.        *)
(***************************************************************************)
TokenRead(r, c, client, redirect, verifier, origin, proved, fetched) ==
  /\ req[r] = Idle
  /\ Authenticates(client, proved, fetched)
  /\ c \in DOMAIN codes
  /\ codes[c].exp >= now
  /\ req' = [req EXCEPT ![r] =
       [pc |-> "token-burn", code |-> c, client |-> client, redirect |-> redirect,
        verifier |-> verifier, resource |-> origin, proved |-> proved]]
  /\ UNCHANGED <<now, spent, assertions, session, tickets, codes, tokens,
                 accepted, decided, seen>>

\* The code is spent before it is compared with the request.
TokenBurn(r) ==
  /\ req[r].pc = "token-burn"
  /\ LET c == req[r].code
     IN \E fresh \in BOOLEAN :
        /\ Consume(CodeKey(c), codes[c].exp, fresh)
        /\ accepted' = [accepted EXCEPT ![CodeKey(c)] = IF fresh THEN @ + 1 ELSE @]
        /\ IF fresh THEN Goto(r, "token-mint") ELSE Answer(r)
  /\ UNCHANGED <<now, assertions, session, tickets, codes, tokens, decided, seen>>

(* Fault: the code of one client is good for any other. *)
MatchesAnyClient(request, offer) ==
  /\ offer.redirect = request.redirect
  /\ offer.resource = request.resource
  /\ offer.challenge = request.verifier

\* firstAuthCodeError
Matches(request, offer) ==
  /\ offer.redirect = request.redirect
  /\ offer.client = request.client
  /\ offer.resource = request.resource
  /\ offer.challenge = request.verifier

TokenMint(r) ==
  /\ req[r].pc = "token-mint"
  /\ LET q     == req[r]
         grant == codes[q.code].grant
     IN tokens' = IF Matches(q, grant.offer)
                  THEN tokens \cup
                    {[code |-> q.code, user |-> grant.user, client |-> q.client,
                      resource |-> grant.offer.resource, scope |-> grant.offer.scope,
                      redirect |-> q.redirect, verifier |-> q.verifier,
                      proved |-> q.proved]}
                  ELSE tokens
  /\ Answer(r)
  /\ UNCHANGED <<now, spent, assertions, session, tickets, codes, accepted,
                 decided, seen>>

-----------------------------------------------------------------------------
(* Failures.  The router answers 500; nothing is undone. *)

\* A port throws (mintAccessToken may also refuse on purpose), or the instance dies.
Fails(r) ==
  /\ Faults
  /\ req[r] # Idle
  /\ Answer(r)
  /\ UNCHANGED <<now, spent, assertions, session, tickets, codes, tokens,
                 accepted, decided, seen>>

StoreThrows(r) ==
  /\ Faults
  /\ \/ req[r].pc = "consent-burn" /\ ConsumeThrows(TicketKey(req[r].ticket))
     \/ req[r].pc = "token-burn" /\ ConsumeThrows(CodeKey(req[r].code))
  /\ Answer(r)
  /\ UNCHANGED <<now, assertions, session, tickets, codes, tokens, accepted,
                 decided, seen>>

-----------------------------------------------------------------------------
Arrive(r) ==
  \/ \E b \in Browser, origin \in Resource, q \in Offer, omitted \in BOOLEAN,
        fetched \in BOOLEAN :
       Authorize(r, b, origin, q, omitted, fetched)
  \/ \E b \in Browser, t \in TicketId, approved \in BOOLEAN :
       ConsentRead(r, b, t, approved)
  \/ \E c \in CodeId, client \in Client, redirect \in Redirect, verifier \in Challenge,
        origin \in Resource, proved \in BOOLEAN, fetched \in BOOLEAN :
       TokenRead(r, c, client, redirect, verifier, origin, proved, fetched)

Continue(r) == \/ AuthorizeUser(r)
               \/ ConsentUser(r) \/ ConsentBurn(r) \/ ConsentIssue(r)
               \/ TokenBurn(r) \/ TokenMint(r)

Next ==
  \/ Tick
  \/ \E b \in Browser, u \in User \cup {Nobody} : SignIn(b, u)
  \/ \E c \in Client, uris \in SUBSET Redirect : RegisterClient(c, uris)
  \/ \E r \in Req : Arrive(r) \/ Continue(r) \/ Fails(r) \/ StoreThrows(r)

Spec == Init /\ [][Next]_vars

-----------------------------------------------------------------------------
TypeOK ==
  /\ now \in 0 .. MaxNow
  /\ spent \subseteq Key
  /\ DOMAIN assertions \subseteq Client
  /\ assertions \in [DOMAIN assertions -> SUBSET Redirect]
  /\ session \in [Browser -> User \cup {Nobody}]
  /\ DOMAIN tickets \subseteq TicketId
  /\ tickets \in [DOMAIN tickets -> Ticket]
  /\ DOMAIN codes \subseteq CodeId
  /\ codes \in [DOMAIN codes -> Code]
  /\ req \in [Req -> {Idle} \cup AuthorizeRequest \cup ConsentRequest \cup TokenRequest]
  /\ tokens \subseteq Token
  /\ accepted \in [Key -> Nat]
  /\ decided \in [TicketId -> SUBSET BOOLEAN]
  /\ seen \subseteq TicketId \X (User \cup {Nobody})

(***************************************************************************)
(* Single use, for as long as it matters: while a ticket or a code is      *)
(* unexpired it has been accepted at most once, whatever requests race for *)
(* it, and however many.  consent/handler.ts, codes.ts.                    *)
(***************************************************************************)
SingleUseUntilExpiry ==
  /\ \A t \in DOMAIN tickets : accepted[TicketKey(t)] > 1 => tickets[t].exp < now
  /\ \A c \in DOMAIN codes : accepted[CodeKey(c)] > 1 => codes[c].exp < now

(***************************************************************************)
(* The first decision on an unexpired ticket is final: it is never both    *)
(* approved and denied, and no code comes out of a denied one.             *)
(***************************************************************************)
DecisionIsFinal ==
  \A t \in DOMAIN tickets : tickets[t].exp >= now =>
    /\ decided[t] # {TRUE, FALSE}
    /\ (\E c \in DOMAIN codes : codes[c].from = [ticket |-> {t}]) => decided[t] = {TRUE}

(***************************************************************************)
(* A ticket that is spent was posted from a session of the user it was     *)
(* issued to: posting somebody else's ticket cannot use it up.             *)
(***************************************************************************)
OnlyTheUserSpendsATicket ==
  \A t \in DOMAIN tickets :
    TicketKey(t) \in spent => <<t, tickets[t].grant.user>> \in seen

(***************************************************************************)
(* Every access token goes back to a grant its user gave: the code it was  *)
(* exchanged for came out of a ticket that user approved in their own      *)
(* session, or was issued to a pre-approved registered client; and the     *)
(* request that exchanged it was from that client, authenticated, at the   *)
(* resource consented to, with the verifier of the original request.       *)
(***************************************************************************)
TokensTraceToConsent ==
  \A k \in tokens :
    LET grant == codes[k.code].grant
        from  == codes[k.code].from
    IN /\ k.code \in DOMAIN codes
       /\ k.user = grant.user
       /\ k.client = grant.offer.client /\ k.redirect = grant.offer.redirect
       /\ k.verifier = grant.offer.challenge
       /\ k.resource = grant.offer.resource /\ k.scope = grant.offer.scope
       /\ k.client \in Confidential => k.proved
       /\ IF from = NoTicket
          THEN k.client \in Registered \cap PreApproved
          ELSE \E t \in DOMAIN tickets :
                 /\ from = [ticket |-> {t}]
                 /\ tickets[t].grant = grant
                 /\ TRUE \in decided[t]
                 /\ <<t, k.user>> \in seen

(***************************************************************************)
(* A code only ever travels to a URI the operator vouches for: one of the  *)
(* registered client's own, one in the client's metadata document, or one  *)
(* on the allowlist, also when the client registered itself.               *)
(***************************************************************************)
CodesGoToTrustedRedirects ==
  \A c \in DOMAIN codes :
    LET offer == codes[c].grant.offer
    IN /\ offer.client \in Registered => offer.redirect \in RegisteredRedirects[offer.client]
       /\ offer.client \in CimdClient \ Registered => offer.redirect \in CimdRedirects[offer.client]
       /\ offer.client \notin Registered \cup CimdClient => offer.redirect \in Allowlist

(***************************************************************************)
(* No approval is lost while the ports answer: once a ticket is spent on   *)
(* an approval, which leaves the user no second try, either its request is *)
(* on its way to issue the code or the code is there, whatever the host    *)
(* does with the session in between.  consent/handler.ts.                  *)
(***************************************************************************)
NoApprovalLost ==
  ~Faults => \A t \in TicketId : TRUE \in decided[t] =>
    \/ \E c \in DOMAIN codes : codes[c].from = [ticket |-> {t}]
    \/ \E r \in Req : req[r].pc = "consent-issue" /\ req[r].ticket = t

(***************************************************************************)
(* A consent is one line: the ticket while it works, then the one request  *)
(* that is to issue its code, then the one code while that works, then     *)
(* nothing.  A ticket that was denied, or whose code is spent or lost,     *)
(* never leads to another code, whatever requests for it are under way, as *)
(* long as it has not expired and the store has to know its mark.          *)
(***************************************************************************)
CodesOf(t) == {c \in DOMAIN codes : codes[c].from = [ticket |-> {t}]}

WorksFor(t) ==
  IF t \in DOMAIN tickets /\ tickets[t].exp >= now
  THEN {k \in {TicketKey(t)} \cup {CodeKey(c) : c \in {d \in CodesOf(t) : codes[d].exp >= now}} :
          k \notin spent}
  ELSE {}

BeingIssued(t) ==
  /\ tickets[t].exp >= now
  /\ \E r \in Req : req[r].pc = "consent-issue" /\ req[r].ticket = t

ConsentLine == [t \in TicketId |->
  [at |-> IF t \notin DOMAIN tickets THEN "unissued" ELSE IF WorksFor(t) # {} THEN "live"
          ELSE IF BeingIssued(t) THEN "between" ELSE "ended",
   works |-> WorksFor(t)]]

Consents == INSTANCE CredentialLine WITH Line <- TicketId, Credential <- Key, line <- ConsentLine

ConsentIsOneLine == Consents!Spec

=============================================================================
