--------------------------- MODULE AuthFlow_proofs ---------------------------
(***************************************************************************)
(* The authorization-code flow for any number of requests, clients, users, *)
(* tickets and codes, and any store that keeps the contract of SingleUse.  *)
(***************************************************************************)
EXTENDS AuthFlow, TLAPS

-----------------------------------------------------------------------------
(* Requests. *)

Request == {Idle} \cup AuthorizeRequest \cup ConsentRequest \cup TokenRequest

ConsentPc == {"consent-user", "consent-burn", "consent-issue"}
TokenPc   == {"token-burn", "token-mint"}

(***************************************************************************)
(* What a request in flight names was issued: the handlers only ever hold  *)
(* the id of something they have unsealed.                                 *)
(***************************************************************************)
InFlightIsIssued ==
  \A r \in Req :
    /\ req[r].pc \in ConsentPc => req[r].ticket \in DOMAIN tickets
    /\ req[r].pc \in TokenPc => req[r].code \in DOMAIN codes

TypeInv == TypeOK /\ InFlightIsIssued

(* The program counter tells the kind of a request. *)
LEMMA KindOfRequest ==
  ASSUME NEW q \in Request
  PROVE  /\ q.pc = "authorize" => q \in AuthorizeRequest
         /\ q.pc \in ConsentPc => q \in ConsentRequest
         /\ q.pc \in TokenPc => q \in TokenRequest
BY DEF Request, Idle, AuthorizeRequest, ConsentRequest, TokenRequest, ConsentPc, TokenPc

(* Answering or advancing one request keeps the requests well-typed, and   *)
(* changes what no other request names.                                    *)
LEMMA AnswerTyped ==
  ASSUME req \in [Req -> Request], NEW r \in Req, Answer(r)
  PROVE  /\ req' \in [Req -> Request]
         /\ req'[r] = Idle
         /\ \A s \in Req \ {r} : req'[s] = req[s]
BY DEF Answer, Request

LEMMA ConsentGotoTyped ==
  ASSUME req \in [Req -> Request], NEW r \in Req, req[r].pc \in ConsentPc,
         NEW pc \in ConsentPc, Goto(r, pc)
  PROVE  /\ req' \in [Req -> Request]
         /\ req'[r].pc = pc /\ req'[r].ticket = req[r].ticket
         /\ \A s \in Req \ {r} : req'[s] = req[s]
<1>1. req[r] \in ConsentRequest
  BY KindOfRequest
<1>2. [req[r] EXCEPT !.pc = pc] \in ConsentRequest
  BY <1>1 DEF ConsentRequest, ConsentPc
<1>3. /\ [req[r] EXCEPT !.pc = pc].pc = pc
      /\ [req[r] EXCEPT !.pc = pc].ticket = req[r].ticket
  BY <1>1 DEF ConsentRequest
<1> QED BY <1>2, <1>3 DEF Goto, Request

LEMMA TokenGotoTyped ==
  ASSUME req \in [Req -> Request], NEW r \in Req, req[r].pc \in TokenPc,
         NEW pc \in TokenPc, Goto(r, pc)
  PROVE  /\ req' \in [Req -> Request]
         /\ req'[r].pc = pc /\ req'[r].code = req[r].code
         /\ \A s \in Req \ {r} : req'[s] = req[s]
<1>1. req[r] \in TokenRequest
  BY KindOfRequest
<1>2. [req[r] EXCEPT !.pc = pc] \in TokenRequest
  BY <1>1 DEF TokenRequest, TokenPc
<1>3. /\ [req[r] EXCEPT !.pc = pc].pc = pc
      /\ [req[r] EXCEPT !.pc = pc].code = req[r].code
  BY <1>1 DEF TokenRequest
<1> QED BY <1>2, <1>3 DEF Goto, Request
-----------------------------------------------------------------------------
(* Issuing adds one sealed record under a new id, and alters none.         *)

LEMMA IssueCodeAdds ==
  ASSUME TypeOK, NEW grant \in Grant, NEW from \in Origin,
         IssueCode(grant, from)
  PROVE  \E c \in CodeId \ DOMAIN codes :
           /\ DOMAIN codes' = DOMAIN codes \cup {c}
           /\ codes'[c] = [grant |-> grant, exp |-> now + CodeTtl, from |-> from]
           /\ \A d \in DOMAIN codes : codes'[d] = codes[d]
           /\ codes' \in [DOMAIN codes' -> Code]
<1>1. PICK c \in CodeId \ DOMAIN codes :
        codes' = Put(codes, c, [grant |-> grant, exp |-> now + CodeTtl, from |-> from])
  BY DEF IssueCode
<1>2. [grant |-> grant, exp |-> now + CodeTtl, from |-> from] \in Code
  BY AuthFlowAssumption DEF TypeOK, Code
<1> QED BY <1>1, <1>2 DEF Put, TypeOK

LEMMA IssueTicketAdds ==
  ASSUME TypeOK, NEW grant \in Grant, IssueTicket(grant)
  PROVE  \E t \in TicketId \ DOMAIN tickets :
           /\ DOMAIN tickets' = DOMAIN tickets \cup {t}
           /\ tickets'[t] = [grant |-> grant, exp |-> now + TicketTtl]
           /\ \A s \in DOMAIN tickets : tickets'[s] = tickets[s]
           /\ tickets' \in [DOMAIN tickets' -> Ticket]
<1>1. PICK t \in TicketId \ DOMAIN tickets :
        tickets' = Put(tickets, t, [grant |-> grant, exp |-> now + TicketTtl])
  BY DEF IssueTicket
<1>2. [grant |-> grant, exp |-> now + TicketTtl] \in Ticket
  BY AuthFlowAssumption DEF TypeOK, Ticket
<1> QED BY <1>1, <1>2 DEF Put, TypeOK

(* The grant a request at /authorize gives rise to is well-typed. *)
LEMMA OfferTyped ==
  ASSUME TypeOK, NEW r \in Req, req[r].pc = "authorize"
  PROVE  /\ req[r].offer \in Offer /\ req[r].browser \in Browser
         /\ session[req[r].browser] # Nobody =>
              [offer |-> req[r].offer, user |-> session[req[r].browser]] \in Grant
<1>1. req[r] \in AuthorizeRequest
  BY KindOfRequest DEF TypeOK, Request
<1> QED BY <1>1 DEF TypeOK, AuthorizeRequest, Grant

LEMMA ConsentTyped ==
  ASSUME TypeInv, NEW r \in Req, req[r].pc \in ConsentPc
  PROVE  /\ req[r].ticket \in DOMAIN tickets
         /\ req[r].ticket \in TicketId
         /\ req[r].browser \in Browser /\ req[r].approved \in BOOLEAN
         /\ tickets[req[r].ticket] \in Ticket
         /\ TicketKey(req[r].ticket) \in Key
<1>1. req[r] \in ConsentRequest
  BY KindOfRequest DEF TypeInv, TypeOK, Request
<1> QED BY <1>1 DEF TypeInv, TypeOK, InFlightIsIssued, ConsentRequest, TicketKey, Key

LEMMA TokenTyped ==
  ASSUME TypeInv, NEW r \in Req, req[r].pc \in TokenPc
  PROVE  /\ req[r] \in TokenRequest
         /\ req[r].code \in DOMAIN codes
         /\ req[r].code \in CodeId
         /\ codes[req[r].code] \in Code
         /\ CodeKey(req[r].code) \in Key
<1>1. req[r] \in TokenRequest
  BY KindOfRequest DEF TypeInv, TypeOK, Request
<1> QED BY <1>1 DEF TypeInv, TypeOK, InFlightIsIssued, TokenRequest, CodeKey, Key

-----------------------------------------------------------------------------
(* Types are inductive, together with InFlightIsIssued.                    *)

LEMMA InitTypeInv == Init => TypeInv
BY AuthFlowAssumption DEF Init, TypeInv, TypeOK, InFlightIsIssued, Idle, ConsentPc, TokenPc

LEMMA NextTypeInv == TypeInv /\ [Next]_vars => TypeInv'
<1> SUFFICES ASSUME TypeInv, [Next]_vars PROVE TypeInv'
  OBVIOUS
<1> USE DEF TypeInv, TypeOK, Request
<1>1. CASE Tick
  BY <1>1, AuthFlowAssumption DEF Tick, InFlightIsIssued
<1>2. ASSUME NEW b \in Browser, NEW u \in User \cup {Nobody}, SignIn(b, u)
      PROVE  TypeInv'
  BY <1>2 DEF SignIn, InFlightIsIssued
<1>3. ASSUME NEW c \in Client, NEW uris \in SUBSET Redirect, RegisterClient(c, uris)
      PROVE  TypeInv'
  BY <1>3, ClientPolicyAssumption DEF RegisterClient, Register, RegisterUris, InFlightIsIssued
<1>4. ASSUME NEW r \in Req, NEW b \in Browser, NEW origin \in Resource,
             NEW q \in Offer, NEW omitted \in BOOLEAN, NEW fetched \in BOOLEAN,
             Authorize(r, b, origin, q, omitted, fetched)
      PROVE  TypeInv'
  <2>1. GrantedScopes(omitted, q.scope) \in SUBSET ScopeName
    BY AuthFlowAssumption DEF Offer, GrantedScopes
  <2>2. [q EXCEPT !.scope = GrantedScopes(omitted, q.scope)] \in Offer
    BY <2>1 DEF Offer
  <2> DEFINE new == [pc |-> "authorize", browser |-> b,
                     offer |-> [q EXCEPT !.scope = GrantedScopes(omitted, q.scope)]]
  <2>3. new \in AuthorizeRequest /\ new.pc = "authorize"
    BY <2>2 DEF AuthorizeRequest
  <2>4. req' = [req EXCEPT ![r] = new]
    BY <1>4 DEF Authorize
  <2> HIDE DEF new
  <2> QED BY <1>4, <2>3, <2>4 DEF Authorize, InFlightIsIssued, ConsentPc, TokenPc
<1>5. ASSUME NEW r \in Req, AuthorizeUser(r)
      PROVE  TypeInv'
  <2>1. /\ req' \in [Req -> Request] /\ req'[r] = Idle
        /\ \A s \in Req \ {r} : req'[s] = req[s]
    BY <1>5, AnswerTyped DEF AuthorizeUser
  <2> DEFINE user  == session[req[r].browser]
             grant == [offer |-> req[r].offer, user |-> user]
  <2>2. user # Nobody => grant \in Grant
    BY <1>5, OfferTyped DEF AuthorizeUser
  <2>3. \/ UNCHANGED <<codes, tickets>>
        \/ user # Nobody /\ IssueCode(grant, NoTicket) /\ UNCHANGED tickets
        \/ user # Nobody /\ IssueTicket(grant) /\ UNCHANGED codes
    BY <1>5 DEF AuthorizeUser, SignedIn
  <2> HIDE DEF user, grant
  <2>4. NoTicket \in Origin
    BY DEF NoTicket, Origin
  <2>5. /\ DOMAIN codes' \subseteq CodeId /\ codes' \in [DOMAIN codes' -> Code]
        /\ DOMAIN codes \subseteq DOMAIN codes'
    BY <2>2, <2>3, <2>4, IssueCodeAdds
  <2>6. /\ DOMAIN tickets' \subseteq TicketId /\ tickets' \in [DOMAIN tickets' -> Ticket]
        /\ DOMAIN tickets \subseteq DOMAIN tickets'
    BY <2>2, <2>3, IssueTicketAdds
  <2>7. InFlightIsIssued'
    BY <2>1, <2>5, <2>6 DEF InFlightIsIssued, Idle, ConsentPc, TokenPc
  <2> QED BY <1>5, <2>1, <2>5, <2>6, <2>7 DEF AuthorizeUser
<1>6. ASSUME NEW r \in Req, NEW b \in Browser, NEW t \in TicketId, NEW approved \in BOOLEAN,
             ConsentRead(r, b, t, approved)
      PROVE  TypeInv'
  <2> DEFINE new == [pc |-> "consent-user", browser |-> b, ticket |-> t,
                     approved |-> approved]
  <2>1. new \in ConsentRequest /\ new.pc = "consent-user" /\ new.ticket = t
    BY DEF ConsentRequest
  <2>2. req' = [req EXCEPT ![r] = new] /\ t \in DOMAIN tickets
    BY <1>6 DEF ConsentRead
  <2> HIDE DEF new
  <2> QED BY <1>6, <2>1, <2>2 DEF ConsentRead, InFlightIsIssued, ConsentPc, TokenPc
<1>7. ASSUME NEW r \in Req, ConsentUser(r)
      PROVE  TypeInv'
  <2>1. req[r].pc \in ConsentPc
    BY <1>7 DEF ConsentUser, ConsentPc
  <2>2. seen' \subseteq TicketId \X (User \cup {Nobody})
    BY <1>7, <2>1, ConsentTyped DEF ConsentUser
  <2>3. req' \in [Req -> Request] /\ InFlightIsIssued'
    <3>1. CASE Answer(r)
      BY <1>7, <3>1, AnswerTyped DEF ConsentUser, InFlightIsIssued, Idle, ConsentPc, TokenPc
    <3>2. CASE Goto(r, "consent-burn")
      BY <1>7, <2>1, <3>2, ConsentGotoTyped
         DEF ConsentUser, InFlightIsIssued, ConsentPc, TokenPc
    <3> QED BY <1>7, <3>1, <3>2 DEF ConsentUser
  <2> QED BY <1>7, <2>2, <2>3 DEF ConsentUser
<1>8. ASSUME NEW r \in Req, ConsentBurn(r)
      PROVE  TypeInv'
  <2>1. req[r].pc \in ConsentPc
    BY <1>8 DEF ConsentBurn, ConsentPc
  <2>2. spent' \subseteq Key /\ accepted' \in [Key -> Nat]
        /\ decided' \in [TicketId -> SUBSET BOOLEAN]
    BY <1>8, <2>1, ConsentTyped DEF ConsentBurn, Consume
  <2>3. req' \in [Req -> Request] /\ InFlightIsIssued'
    <3>1. CASE Answer(r)
      BY <1>8, <3>1, AnswerTyped DEF ConsentBurn, InFlightIsIssued, Idle, ConsentPc, TokenPc
    <3>2. CASE Goto(r, "consent-issue")
      BY <1>8, <2>1, <3>2, ConsentGotoTyped
         DEF ConsentBurn, InFlightIsIssued, ConsentPc, TokenPc
    <3> QED BY <1>8, <3>1, <3>2 DEF ConsentBurn
  <2> QED BY <1>8, <2>2, <2>3 DEF ConsentBurn
<1>9. ASSUME NEW r \in Req, ConsentIssue(r)
      PROVE  TypeInv'
  <2>1. req[r].pc \in ConsentPc
    BY <1>9 DEF ConsentIssue, ConsentPc
  <2> DEFINE grant == tickets[req[r].ticket].grant
             from  == [ticket |-> {req[r].ticket}]
  <2>2. grant \in Grant /\ from \in Origin /\ IssueCode(grant, from)
    BY <1>9, <2>1, ConsentTyped DEF ConsentIssue, Ticket, Origin
  <2> HIDE DEF grant, from
  <2>3. /\ DOMAIN codes' \subseteq CodeId /\ codes' \in [DOMAIN codes' -> Code]
        /\ DOMAIN codes \subseteq DOMAIN codes'
    BY <2>2, IssueCodeAdds
  <2>4. req' \in [Req -> Request] /\ InFlightIsIssued'
    BY <1>9, <2>3, AnswerTyped DEF ConsentIssue, InFlightIsIssued, Idle, ConsentPc, TokenPc
  <2> QED BY <1>9, <2>3, <2>4 DEF ConsentIssue
<1>10. ASSUME NEW r \in Req, NEW c \in CodeId, NEW client \in Client,
              NEW redirect \in Redirect, NEW verifier \in Challenge,
              NEW origin \in Resource, NEW proved \in BOOLEAN, NEW fetched \in BOOLEAN,
              TokenRead(r, c, client, redirect, verifier, origin, proved, fetched)
       PROVE  TypeInv'
  <2> DEFINE new == [pc |-> "token-burn", code |-> c, client |-> client,
                     redirect |-> redirect, verifier |-> verifier,
                     resource |-> origin, proved |-> proved]
  <2>1. new \in TokenRequest /\ new.pc = "token-burn" /\ new.code = c
    BY DEF TokenRequest
  <2>2. req' = [req EXCEPT ![r] = new] /\ c \in DOMAIN codes
    BY <1>10 DEF TokenRead
  <2> HIDE DEF new
  <2> QED BY <1>10, <2>1, <2>2 DEF TokenRead, InFlightIsIssued, ConsentPc, TokenPc
<1>11. ASSUME NEW r \in Req, TokenBurn(r)
       PROVE  TypeInv'
  <2>1. req[r].pc \in TokenPc
    BY <1>11 DEF TokenBurn, TokenPc
  <2>2. spent' \subseteq Key /\ accepted' \in [Key -> Nat]
    BY <1>11, <2>1, TokenTyped DEF TokenBurn, Consume
  <2>3. req' \in [Req -> Request] /\ InFlightIsIssued'
    <3>1. CASE Answer(r)
      BY <1>11, <3>1, AnswerTyped DEF TokenBurn, InFlightIsIssued, Idle, ConsentPc, TokenPc
    <3>2. CASE Goto(r, "token-mint")
      BY <1>11, <2>1, <3>2, TokenGotoTyped
         DEF TokenBurn, InFlightIsIssued, ConsentPc, TokenPc
    <3> QED BY <1>11, <3>1, <3>2 DEF TokenBurn
  <2> QED BY <1>11, <2>2, <2>3 DEF TokenBurn
<1>12. ASSUME NEW r \in Req, TokenMint(r)
       PROVE  TypeInv'
  <2>1. req[r].pc \in TokenPc
    BY <1>12 DEF TokenMint, TokenPc
  <2>2. tokens' \subseteq Token
    BY <1>12, <2>1, TokenTyped DEF TokenMint, Token, TokenRequest, Code, Grant, Offer
  <2>3. req' \in [Req -> Request] /\ InFlightIsIssued'
    BY <1>12, AnswerTyped DEF TokenMint, InFlightIsIssued, Idle, ConsentPc, TokenPc
  <2> QED BY <1>12, <2>2, <2>3 DEF TokenMint
<1>13. ASSUME NEW r \in Req, Fails(r)
       PROVE  TypeInv'
  BY <1>13, AnswerTyped DEF Fails, InFlightIsIssued, Idle, ConsentPc, TokenPc
<1>14. ASSUME NEW r \in Req, StoreThrows(r)
       PROVE  TypeInv'
  <2>1. spent' \subseteq Key
    BY <1>14, ConsentTyped, TokenTyped DEF StoreThrows, ConsumeThrows, ConsentPc, TokenPc
  <2>2. req' \in [Req -> Request] /\ InFlightIsIssued'
    BY <1>14, AnswerTyped DEF StoreThrows, InFlightIsIssued, Idle, ConsentPc, TokenPc
  <2> QED BY <1>14, <2>1, <2>2 DEF StoreThrows
<1>15. CASE UNCHANGED vars
  BY <1>15 DEF vars, InFlightIsIssued
<1> QED
  BY <1>1, <1>2, <1>3, <1>4, <1>5, <1>6, <1>7, <1>8, <1>9, <1>10, <1>11, <1>12,
     <1>13, <1>14, <1>15 DEF Next, Arrive, Continue

(* Types: in every reachable state, for every choice of the constants.     *)
THEOREM TypeCorrect == Spec => []TypeOK
<1>1. TypeInv => TypeOK
  BY DEF TypeInv
<1> QED BY InitTypeInv, NextTypeInv, <1>1, PTL DEF Spec

-----------------------------------------------------------------------------
(* Single use until expiry.                                                *)

(***************************************************************************)
(* Why it holds: a key is marked no later than it is accepted, and only    *)
(* for something that was issued; so a ticket or code that is accepted a   *)
(* second time was marked, and then the contract of the store says it has  *)
(* expired.                                                                *)
(***************************************************************************)
MarkedIsIssued ==
  /\ \A t \in TicketId : TicketKey(t) \in spent => t \in DOMAIN tickets
  /\ \A c \in CodeId : CodeKey(c) \in spent => c \in DOMAIN codes

AcceptedIsMarked == \A k \in Key : accepted[k] > 0 => k \in spent

SingleUseInv == MarkedIsIssued /\ AcceptedIsMarked /\ SingleUseUntilExpiry

LEMMA KeysAreDistinct ==
  /\ \A t, s \in TicketId : TicketKey(t) = TicketKey(s) => t = s
  /\ \A c, d \in CodeId : CodeKey(c) = CodeKey(d) => c = d
  /\ \A t \in TicketId, c \in CodeId : TicketKey(t) # CodeKey(c)
  /\ \A t \in TicketId : TicketKey(t) \in Key
  /\ \A c \in CodeId : CodeKey(c) \in Key
BY DEF TicketKey, CodeKey, Key

(***************************************************************************)
(* The steps that touch a mark or issue something; every other one leaves  *)
(* all of that alone.                                                      *)
(***************************************************************************)
Quiet == /\ UNCHANGED <<spent, tickets, codes, accepted>>
         /\ now' \in {now, now + 1}

LEMMA QuietOrNot ==
  ASSUME TypeInv, [Next]_vars
  PROVE  \/ Quiet
         \/ \E r \in Req : \/ AuthorizeUser(r) \/ ConsentBurn(r) \/ ConsentIssue(r)
                           \/ TokenBurn(r) \/ StoreThrows(r)
BY DEF Next, Arrive, Continue, Quiet, vars, Tick, SignIn, RegisterClient, Authorize,
       ConsentRead, ConsentUser, TokenRead, TokenMint, Fails

(* Issuing adds to the tickets or to the codes, and touches no mark. *)
Issues ==
  /\ UNCHANGED <<now, spent, accepted>>
  /\ \/ /\ UNCHANGED tickets
        /\ \E c \in CodeId \ DOMAIN codes :
             /\ DOMAIN codes' = DOMAIN codes \cup {c}
             /\ \A d \in DOMAIN codes : codes'[d] = codes[d]
     \/ /\ UNCHANGED codes
        /\ \E t \in TicketId \ DOMAIN tickets :
             /\ DOMAIN tickets' = DOMAIN tickets \cup {t}
             /\ \A s \in DOMAIN tickets : tickets'[s] = tickets[s]

LEMMA AuthorizeUserIssues ==
  ASSUME TypeInv, NEW r \in Req, AuthorizeUser(r)
  PROVE  Issues \/ Quiet
<1> DEFINE user  == session[req[r].browser]
           grant == [offer |-> req[r].offer, user |-> user]
<1>1. user # Nobody => grant \in Grant
  BY OfferTyped DEF AuthorizeUser, TypeInv
<1>2. \/ UNCHANGED <<codes, tickets>>
      \/ user # Nobody /\ IssueCode(grant, NoTicket) /\ UNCHANGED tickets
      \/ user # Nobody /\ IssueTicket(grant) /\ UNCHANGED codes
  BY DEF AuthorizeUser, SignedIn
<1>3. UNCHANGED <<now, spent, accepted>>
  BY DEF AuthorizeUser
<1> HIDE DEF user, grant
<1>4. NoTicket \in Origin
  BY DEF NoTicket, Origin
<1> QED BY <1>1, <1>2, <1>3, <1>4, IssueCodeAdds, IssueTicketAdds DEF Issues, Quiet, TypeInv

LEMMA ConsentIssueIssues ==
  ASSUME TypeInv, NEW r \in Req, ConsentIssue(r)
  PROVE  Issues
<1> DEFINE grant == tickets[req[r].ticket].grant
           from  == [ticket |-> {req[r].ticket}]
<1>1. grant \in Grant /\ from \in Origin /\ IssueCode(grant, from)
  BY ConsentTyped DEF ConsentIssue, ConsentPc, Ticket, Origin
<1>2. UNCHANGED <<now, spent, accepted, tickets>>
  BY DEF ConsentIssue
<1> HIDE DEF grant, from
<1> QED BY <1>1, <1>2, IssueCodeAdds DEF Issues, TypeInv

LEMMA IssuesKeepsSingleUse ==
  ASSUME TypeInv, TypeInv', SingleUseInv, Issues
  PROVE  SingleUseInv'
<1>1. MarkedIsIssued' /\ AcceptedIsMarked'
  BY DEF SingleUseInv, MarkedIsIssued, AcceptedIsMarked, Issues
<1>2. ASSUME NEW t \in DOMAIN tickets', accepted'[TicketKey(t)] > 1
      PROVE  tickets'[t].exp < now'
  <2>1. t \in DOMAIN tickets
    BY <1>2, KeysAreDistinct
       DEF Issues, SingleUseInv, MarkedIsIssued, AcceptedIsMarked, TypeInv, TypeOK
  <2> QED BY <1>2, <2>1 DEF Issues, SingleUseInv, SingleUseUntilExpiry
<1>3. ASSUME NEW c \in DOMAIN codes', accepted'[CodeKey(c)] > 1
      PROVE  codes'[c].exp < now'
  <2>1. c \in DOMAIN codes
    BY <1>3, KeysAreDistinct
       DEF Issues, SingleUseInv, MarkedIsIssued, AcceptedIsMarked, TypeInv, TypeOK
  <2> QED BY <1>3, <2>1 DEF Issues, SingleUseInv, SingleUseUntilExpiry
<1> QED BY <1>1, <1>2, <1>3 DEF SingleUseInv, SingleUseUntilExpiry

(***************************************************************************)
(* One consume of the store, for a ticket as for a code.                   *)
(***************************************************************************)
LEMMA ConsumeOnce ==
  ASSUME AcceptedIsMarked, accepted \in [Key -> Nat],
         NEW k \in Key, NEW exp, NEW fresh \in BOOLEAN, Consume(k, exp, fresh),
         accepted' = [accepted EXCEPT ![k] = IF fresh THEN @ + 1 ELSE @]
  PROVE  /\ AcceptedIsMarked'
         /\ spent' = spent \cup {k}
         /\ \A j \in Key \ {k} : accepted'[j] = accepted[j]
         /\ accepted'[k] > 1 => accepted[k] > 1 \/ exp < now
BY DEF AcceptedIsMarked, Consume, Answers

LEMMA NextSingleUseInv == TypeInv /\ TypeInv' /\ SingleUseInv /\ [Next]_vars => SingleUseInv'
<1> SUFFICES ASSUME TypeInv, TypeInv', SingleUseInv, [Next]_vars PROVE SingleUseInv'
  OBVIOUS
<1>1. CASE Quiet
  <2>1. \A t \in DOMAIN tickets : tickets[t].exp \in Nat
    BY DEF TypeInv, TypeOK, Ticket
  <2>2. \A c \in DOMAIN codes : codes[c].exp \in Nat
    BY DEF TypeInv, TypeOK, Code
  <2>3. now \in Nat
    BY DEF TypeInv, TypeOK
  <2> QED BY <1>1, <2>1, <2>2, <2>3
          DEF Quiet, SingleUseInv, MarkedIsIssued, AcceptedIsMarked, SingleUseUntilExpiry
<1>2. ASSUME NEW r \in Req, AuthorizeUser(r) PROVE SingleUseInv'
  BY <1>1, <1>2, AuthorizeUserIssues, IssuesKeepsSingleUse
<1>3. ASSUME NEW r \in Req, ConsentIssue(r) PROVE SingleUseInv'
  BY <1>3, ConsentIssueIssues, IssuesKeepsSingleUse
<1>4. ASSUME NEW r \in Req, ConsentBurn(r) PROVE SingleUseInv'
  <2> DEFINE t == req[r].ticket
             k == TicketKey(t)
             exp == tickets[t].exp
  <2>1. t \in DOMAIN tickets /\ t \in TicketId /\ k \in Key
    BY <1>4, ConsentTyped DEF ConsentBurn, ConsentPc
  <2>2. PICK fresh \in BOOLEAN :
          /\ Consume(k, exp, fresh)
          /\ accepted' = [accepted EXCEPT ![k] = IF fresh THEN @ + 1 ELSE @]
    BY <1>4 DEF ConsentBurn
  <2>3. UNCHANGED <<now, tickets, codes>>
    BY <1>4 DEF ConsentBurn
  <2>4. /\ AcceptedIsMarked' /\ spent' = spent \cup {k}
        /\ \A j \in Key \ {k} : accepted'[j] = accepted[j]
        /\ accepted'[k] > 1 => accepted[k] > 1 \/ exp < now
    <3>1. AcceptedIsMarked /\ accepted \in [Key -> Nat]
      BY DEF SingleUseInv, TypeInv, TypeOK
    <3> HIDE DEF k, exp
    <3> QED BY <2>1, <2>2, <3>1, ConsumeOnce
  <2>5. MarkedIsIssued'
    BY <2>1, <2>3, <2>4, KeysAreDistinct DEF SingleUseInv, MarkedIsIssued
  <2>6. SingleUseUntilExpiry'
    BY <2>1, <2>3, <2>4, KeysAreDistinct
       DEF SingleUseInv, SingleUseUntilExpiry, TypeInv, TypeOK
  <2> QED BY <2>4, <2>5, <2>6 DEF SingleUseInv
<1>5. ASSUME NEW r \in Req, TokenBurn(r) PROVE SingleUseInv'
  <2> DEFINE c == req[r].code
             k == CodeKey(c)
             exp == codes[c].exp
  <2>1. c \in DOMAIN codes /\ c \in CodeId /\ k \in Key
    BY <1>5, TokenTyped DEF TokenBurn, TokenPc
  <2>2. PICK fresh \in BOOLEAN :
          /\ Consume(k, exp, fresh)
          /\ accepted' = [accepted EXCEPT ![k] = IF fresh THEN @ + 1 ELSE @]
    BY <1>5 DEF TokenBurn
  <2>3. UNCHANGED <<now, tickets, codes>>
    BY <1>5 DEF TokenBurn
  <2>4. /\ AcceptedIsMarked' /\ spent' = spent \cup {k}
        /\ \A j \in Key \ {k} : accepted'[j] = accepted[j]
        /\ accepted'[k] > 1 => accepted[k] > 1 \/ exp < now
    <3>1. AcceptedIsMarked /\ accepted \in [Key -> Nat]
      BY DEF SingleUseInv, TypeInv, TypeOK
    <3> HIDE DEF k, exp
    <3> QED BY <2>1, <2>2, <3>1, ConsumeOnce
  <2>5. MarkedIsIssued'
    BY <2>1, <2>3, <2>4, KeysAreDistinct DEF SingleUseInv, MarkedIsIssued
  <2>6. SingleUseUntilExpiry'
    BY <2>1, <2>3, <2>4, KeysAreDistinct
       DEF SingleUseInv, SingleUseUntilExpiry, TypeInv, TypeOK
  <2> QED BY <2>4, <2>5, <2>6 DEF SingleUseInv
<1>6. ASSUME NEW r \in Req, StoreThrows(r) PROVE SingleUseInv'
  <2>1. UNCHANGED <<now, tickets, codes, accepted>>
    BY <1>6 DEF StoreThrows
  <2>2. spent \subseteq spent'
    BY <1>6 DEF StoreThrows, ConsumeThrows
  <2>3. MarkedIsIssued'
    <3>1. CASE req[r].pc = "consent-burn" /\ ConsumeThrows(TicketKey(req[r].ticket))
      BY <2>1, <3>1, ConsentTyped, KeysAreDistinct
         DEF ConsumeThrows, ConsentPc, SingleUseInv, MarkedIsIssued
    <3>2. CASE req[r].pc = "token-burn" /\ ConsumeThrows(CodeKey(req[r].code))
      BY <2>1, <3>2, TokenTyped, KeysAreDistinct
         DEF ConsumeThrows, TokenPc, SingleUseInv, MarkedIsIssued
    <3> QED BY <1>6, <3>1, <3>2 DEF StoreThrows
  <2> QED BY <2>1, <2>2, <2>3 DEF SingleUseInv, AcceptedIsMarked, SingleUseUntilExpiry
<1> QED BY <1>1, <1>2, <1>3, <1>4, <1>5, <1>6, QuietOrNot

(***************************************************************************)
(* While a ticket or a code is unexpired it has been accepted at most      *)
(* once: for any number of requests racing for it, any store that keeps    *)
(* the contract, and with ports that throw and instances that die.         *)
(***************************************************************************)
THEOREM SingleUseCorrect == Spec => []SingleUseUntilExpiry
<1>1. Init => SingleUseInv
  BY KeysAreDistinct
     DEF Init, SingleUseInv, MarkedIsIssued, AcceptedIsMarked, SingleUseUntilExpiry
<1>2. SingleUseInv => SingleUseUntilExpiry
  BY DEF SingleUseInv
<1> QED BY InitTypeInv, NextTypeInv, <1>1, NextSingleUseInv, <1>2, PTL DEF Spec

-----------------------------------------------------------------------------
(* How the state evolves: what is issued or recorded stays as it is, and   *)
(* whatever is new comes from one request that was about to make it.       *)

(* Sealed records are never altered, and history is only added to. *)
Grows ==
  /\ DOMAIN tickets \subseteq DOMAIN tickets'
  /\ \A t \in DOMAIN tickets : tickets'[t] = tickets[t]
  /\ DOMAIN codes \subseteq DOMAIN codes'
  /\ \A c \in DOMAIN codes : codes'[c] = codes[c]
  /\ seen \subseteq seen'
  /\ \A t \in TicketId : decided[t] \subseteq decided'[t]

LEMMA WhoWrites ==
  ASSUME [Next]_vars
  PROVE  \/ UNCHANGED <<tickets, codes, seen, decided>>
         \/ \E r \in Req : AuthorizeUser(r) \/ ConsentIssue(r) \/ ConsentBurn(r) \/ ConsentUser(r)
BY DEF Next, Arrive, Continue, vars, Tick, SignIn, RegisterClient, Authorize,
       ConsentRead, TokenRead, TokenBurn, TokenMint, Fails, StoreThrows

LEMMA OnlyGrows == TypeInv /\ [Next]_vars => Grows
<1> SUFFICES ASSUME TypeInv, [Next]_vars PROVE Grows
  OBVIOUS
<1>1. \A r \in Req : AuthorizeUser(r) => Grows
  <2> SUFFICES ASSUME NEW r \in Req, AuthorizeUser(r) PROVE Grows
    OBVIOUS
  <2>1. Issues \/ Quiet
    BY AuthorizeUserIssues
  <2> QED BY <2>1 DEF AuthorizeUser, Issues, Quiet, Grows
<1>2. \A r \in Req : ConsentIssue(r) => Grows
  BY ConsentIssueIssues DEF ConsentIssue, Issues, Grows
<1>3. \A r \in Req : ConsentBurn(r) => Grows
  <2> SUFFICES ASSUME NEW r \in Req, ConsentBurn(r) PROVE Grows
    OBVIOUS
  <2>1. \A t \in TicketId : decided[t] \subseteq decided'[t]
    BY DEF ConsentBurn, TypeInv, TypeOK
  <2> QED BY <2>1 DEF ConsentBurn, Grows
<1>4. \A r \in Req : ConsentUser(r) => Grows
  BY DEF ConsentUser, Grows
<1> QED BY <1>1, <1>2, <1>3, <1>4, WhoWrites DEF Grows

(* A request only moves by a step of its own. *)
LEMMA RequestMoves ==
  ASSUME TypeInv, [Next]_vars, NEW r \in Req, req'[r] # req[r]
  PROVE  req'[r] = Idle \/ Arrive(r) \/ Continue(r)
<1>1. req \in [Req -> Request]
  BY DEF TypeInv, TypeOK, Request
<1>2. PICK s \in Req : Arrive(s) \/ Continue(s) \/ Fails(s) \/ StoreThrows(s)
  BY DEF Next, vars, Tick, SignIn, RegisterClient
<1>3. ASSUME NEW q, req' = [req EXCEPT ![s] = q]
      PROVE  s = r
  BY <1>1, <1>3
<1>4. ASSUME NEW pc, req' = [req EXCEPT ![s].pc = pc]
      PROVE  s = r
  BY <1>1, <1>4
<1>5. Arrive(s) => s = r
  BY <1>3 DEF Arrive, Authorize, ConsentRead, TokenRead
<1>6. Continue(s) => s = r
  BY <1>3, <1>4 DEF Continue, AuthorizeUser, ConsentUser, ConsentBurn, ConsentIssue,
       TokenBurn, TokenMint, Answer, Goto
<1>7. Fails(s) \/ StoreThrows(s) => req'[r] = Idle
  BY <1>1, AnswerTyped DEF Fails, StoreThrows
<1> QED BY <1>2, <1>5, <1>6, <1>7

(* By which step a request has got to where it is. *)
LEMMA RequestOrigin ==
  ASSUME TypeInv, [Next]_vars, NEW r \in Req, req'[r] # req[r]
  PROVE  /\ req'[r].pc = "authorize" =>
              \E b \in Browser, origin \in Resource, q \in Offer, omitted \in BOOLEAN,
                 fetched \in BOOLEAN : Authorize(r, b, origin, q, omitted, fetched)
         /\ req'[r].pc = "consent-burn" => ConsentUser(r)
         /\ req'[r].pc = "consent-issue" => ConsentBurn(r)
         /\ req'[r].pc = "token-mint" => TokenBurn(r)
         /\ req'[r].pc = "token-burn" =>
              \E c \in CodeId, client \in Client, redirect \in Redirect,
                 verifier \in Challenge, origin \in Resource, proved \in BOOLEAN,
                 fetched \in BOOLEAN :
                TokenRead(r, c, client, redirect, verifier, origin, proved, fetched)
<1>1. req \in [Req -> Request]
  BY DEF TypeInv, TypeOK, Request
<1>2. req'[r] = Idle \/ Arrive(r) \/ Continue(r)
  BY RequestMoves
<1>3. CASE req'[r] = Idle
  BY <1>3 DEF Idle
<1>4. CASE Arrive(r)
  <2>1. \A b, t, approved : ConsentRead(r, b, t, approved) => req'[r].pc = "consent-user"
    BY <1>1 DEF ConsentRead
  <2>2. \A b, origin, q, omitted, fetched :
          Authorize(r, b, origin, q, omitted, fetched) => req'[r].pc = "authorize"
    BY <1>1 DEF Authorize
  <2>3. \A c, client, redirect, verifier, origin, proved, fetched :
          TokenRead(r, c, client, redirect, verifier, origin, proved, fetched)
            => req'[r].pc = "token-burn"
    BY <1>1 DEF TokenRead
  <2> QED BY <1>4, <2>1, <2>2, <2>3 DEF Arrive
<1>5. CASE Continue(r)
  <2>1. Answer(r) => req'[r].pc = "idle"
    BY <1>1 DEF Answer, Idle
  <2>2. \A pc \in ConsentPc : req[r].pc \in ConsentPc /\ Goto(r, pc) => req'[r].pc = pc
    BY <1>1, ConsentGotoTyped
  <2>3. \A pc \in TokenPc : req[r].pc \in TokenPc /\ Goto(r, pc) => req'[r].pc = pc
    BY <1>1, TokenGotoTyped
  <2>4. ConsentUser(r) => req'[r].pc \in {"idle", "consent-burn"}
    BY <2>1, <2>2 DEF ConsentUser, ConsentPc
  <2>5. ConsentBurn(r) => req'[r].pc \in {"idle", "consent-issue"}
    BY <2>1, <2>2 DEF ConsentBurn, ConsentPc
  <2>6. TokenBurn(r) => req'[r].pc \in {"idle", "token-mint"}
    BY <2>1, <2>3 DEF TokenBurn, TokenPc
  <2>7. ConsentIssue(r) \/ TokenMint(r) \/ AuthorizeUser(r) => req'[r].pc = "idle"
    BY <2>1 DEF ConsentIssue, TokenMint, AuthorizeUser
  <2> QED BY <1>5, <2>4, <2>5, <2>6, <2>7 DEF Continue
<1> QED BY <1>2, <1>3, <1>4, <1>5

(* Who issued what is new. *)
LEMMA TicketOrigin ==
  ASSUME TypeInv, [Next]_vars, NEW t \in DOMAIN tickets' \ DOMAIN tickets
  PROVE  \E r \in Req : /\ req[r].pc = "authorize"
                        /\ tickets'[t].grant.offer = req[r].offer
<1>1. tickets' # tickets
  OBVIOUS
<1>2. PICK r \in Req : AuthorizeUser(r)
  BY <1>1, WhoWrites DEF ConsentIssue, ConsentBurn, ConsentUser
<1> DEFINE grant == [offer |-> req[r].offer, user |-> session[req[r].browser]]
<1>3. req[r].pc = "authorize" /\ IssueTicket(grant) /\ grant \in Grant
  BY <1>1, <1>2, OfferTyped DEF AuthorizeUser, SignedIn, TypeInv
<1>4. grant.offer = req[r].offer
  OBVIOUS
<1> HIDE DEF grant
<1>5. TypeOK
  BY DEF TypeInv
<1>6. \E s \in TicketId \ DOMAIN tickets :
        /\ DOMAIN tickets' = DOMAIN tickets \cup {s}
        /\ tickets'[s] = [grant |-> grant, exp |-> now + TicketTtl]
  BY <1>3, <1>5, IssueTicketAdds
<1>7. tickets'[t].grant = grant
  BY <1>6
<1> QED BY <1>3, <1>4, <1>7

LEMMA NewCode ==
  ASSUME TypeInv, NEW grant \in Grant, NEW from \in Origin, IssueCode(grant, from),
         NEW c \in DOMAIN codes' \ DOMAIN codes
  PROVE  codes'[c].grant = grant /\ codes'[c].from = from
<1>1. TypeOK
  BY DEF TypeInv
<1>2. \E d \in CodeId \ DOMAIN codes :
        /\ DOMAIN codes' = DOMAIN codes \cup {d}
        /\ codes'[d] = [grant |-> grant, exp |-> now + CodeTtl, from |-> from]
  BY <1>1, IssueCodeAdds
<1> QED BY <1>2

LEMMA CodeOrigin ==
  ASSUME TypeInv, [Next]_vars, NEW c \in DOMAIN codes' \ DOMAIN codes
  PROVE  \E r \in Req :
           \/ /\ req[r].pc = "authorize"
              /\ codes'[c].grant.offer = req[r].offer
              /\ codes'[c].from = NoTicket
              /\ req[r].offer.client \in Registered \cap PreApproved
           \/ /\ req[r].pc = "consent-issue"
              /\ codes'[c].grant = tickets[req[r].ticket].grant
              /\ codes'[c].from = [ticket |-> {req[r].ticket}]
<1>1. codes' # codes
  OBVIOUS
<1>2. PICK r \in Req : AuthorizeUser(r) \/ ConsentIssue(r)
  BY <1>1, WhoWrites DEF ConsentBurn, ConsentUser
<1>3. CASE AuthorizeUser(r)
  <2> DEFINE grant == [offer |-> req[r].offer, user |-> session[req[r].browser]]
  <2>1. req[r].pc = "authorize" /\ IssueCode(grant, NoTicket) /\ grant \in Grant
    BY <1>1, <1>3, OfferTyped DEF AuthorizeUser, SignedIn, TypeInv
  <2>2. req[r].offer.client \in Registered \cap PreApproved
    BY <1>1, <1>3 DEF AuthorizeUser, IsPreApproved
  <2>3. grant.offer = req[r].offer /\ NoTicket \in Origin
    BY DEF NoTicket, Origin
  <2> HIDE DEF grant
  <2>4. codes'[c].grant = grant /\ codes'[c].from = NoTicket
    BY <2>1, <2>3, NewCode
  <2> QED BY <2>1, <2>2, <2>3, <2>4
<1>4. CASE ConsentIssue(r)
  <2> DEFINE grant == tickets[req[r].ticket].grant
             from  == [ticket |-> {req[r].ticket}]
  <2>1. req[r].pc = "consent-issue" /\ IssueCode(grant, from)
    BY <1>4 DEF ConsentIssue
  <2>2. grant \in Grant /\ from \in Origin
    BY <2>1, ConsentTyped DEF ConsentPc, Ticket, Origin
  <2> HIDE DEF grant, from
  <2>3. codes'[c].grant = grant /\ codes'[c].from = from
    BY <2>1, <2>2, NewCode
  <2> QED BY <2>1, <2>3 DEF grant, from
<1> QED BY <1>2, <1>3, <1>4

(* An invariant over TypeInv: what every theorem below has to show. *)
LEMMA TypesHold == Spec => []TypeInv
BY InitTypeInv, NextTypeInv, PTL DEF Spec

LEMMA SingleUseHolds == Spec => []SingleUseInv
<1>1. Init => SingleUseInv
  BY KeysAreDistinct
     DEF Init, SingleUseInv, MarkedIsIssued, AcceptedIsMarked, SingleUseUntilExpiry
<1> QED BY <1>1, TypesHold, NextSingleUseInv, PTL DEF Spec

-----------------------------------------------------------------------------
(* Where codes travel.                                                     *)

(***************************************************************************)
(* Why it holds: the redirect URI of an offer is judged once, when it is   *)
(* made, and travels unchanged in the request, the ticket and the code.    *)
(* That judgement reads the list of an id the server sealed itself, which  *)
(* is where the filter of /register is needed.                             *)
(***************************************************************************)
AssertionsAreFiltered ==
  \A c \in DOMAIN assertions :
    c \notin Registered \cup CimdClient /\ assertions[c] \subseteq Allowlist

Trusted(offer) ==
  /\ offer.client \in Registered => offer.redirect \in RegisteredRedirects[offer.client]
  /\ offer.client \in CimdClient \ Registered => offer.redirect \in CimdRedirects[offer.client]
  /\ offer.client \notin Registered \cup CimdClient => offer.redirect \in Allowlist

TrustInv ==
  /\ AssertionsAreFiltered
  /\ \A r \in Req : req[r].pc = "authorize" => Trusted(req[r].offer)
  /\ \A t \in DOMAIN tickets : Trusted(tickets[t].grant.offer)
  /\ \A c \in DOMAIN codes : Trusted(codes[c].grant.offer)

LEMMA RegisterFilters ==
  ASSUME AssertionsAreFiltered, NEW c, NEW uris, Register(c, uris)
  PROVE  AssertionsAreFiltered'
BY DEF AssertionsAreFiltered, Register, RegisterUris

LEMMA AllowedIsTrusted ==
  ASSUME AssertionsAreFiltered, NEW q, NEW fetched, RedirectAllowed(q.client, q.redirect, fetched)
  PROVE  Trusted(q)
BY DEF AssertionsAreFiltered, RedirectAllowed, Asserted, Trusted

LEMMA NextTrustInv == TypeInv /\ TypeInv' /\ TrustInv /\ [Next]_vars => TrustInv'
<1> SUFFICES ASSUME TypeInv, TypeInv', TrustInv, [Next]_vars PROVE TrustInv'
  OBVIOUS
<1>1. AssertionsAreFiltered'
  <2>1. ASSUME NEW r \in Req, Arrive(r) \/ Fails(r) \/ StoreThrows(r)
        PROVE  UNCHANGED assertions
    BY <2>1 DEF Arrive, Authorize, ConsentRead, TokenRead, Fails, StoreThrows
  <2>2. ASSUME NEW r \in Req, Continue(r)
        PROVE  UNCHANGED assertions
    BY <2>2 DEF Continue, AuthorizeUser, ConsentUser, ConsentBurn, ConsentIssue, TokenBurn,
         TokenMint
  <2>3. \/ UNCHANGED assertions
        \/ \E c \in Client, uris \in SUBSET Redirect : RegisterClient(c, uris)
    BY <2>1, <2>2 DEF Next, vars, Tick, SignIn
  <2> QED BY <2>3, RegisterFilters DEF TrustInv, AssertionsAreFiltered, RegisterClient
<1>2. ASSUME NEW r \in Req, req'[r].pc = "authorize"
      PROVE  Trusted(req'[r].offer)
  <2>1. CASE req'[r] = req[r]
    BY <1>2, <2>1 DEF TrustInv
  <2>2. CASE req'[r] # req[r]
    <3>1. PICK b \in Browser, origin \in Resource, q \in Offer, omitted \in BOOLEAN,
               fetched \in BOOLEAN : Authorize(r, b, origin, q, omitted, fetched)
      BY <1>2, <2>2, RequestOrigin
    <3>2. req'[r].offer = [q EXCEPT !.scope = GrantedScopes(omitted, q.scope)]
      BY <3>1 DEF Authorize, TypeInv, TypeOK
    <3>3. req'[r].offer.client = q.client /\ req'[r].offer.redirect = q.redirect
      BY <3>2 DEF Offer
    <3>4. Trusted(q)
      BY <3>1, AllowedIsTrusted DEF Authorize, TrustInv
    <3> QED BY <3>3, <3>4 DEF Trusted
  <2> QED BY <2>1, <2>2
<1>3. ASSUME NEW t \in DOMAIN tickets'
      PROVE  Trusted(tickets'[t].grant.offer)
  BY TicketOrigin, OnlyGrows DEF Grows, TrustInv
<1>4. ASSUME NEW c \in DOMAIN codes'
      PROVE  Trusted(codes'[c].grant.offer)
  <2>1. CASE c \in DOMAIN codes
    BY <2>1, OnlyGrows DEF Grows, TrustInv
  <2>2. CASE c \notin DOMAIN codes
    <3>1. \A r \in Req : req[r].pc = "consent-issue" => req[r].ticket \in DOMAIN tickets
      BY ConsentTyped DEF ConsentPc
    <3> QED BY <2>2, <3>1, CodeOrigin DEF TrustInv
  <2> QED BY <2>1, <2>2
<1>5. \A r \in Req : (req[r].pc = "authorize" => Trusted(req[r].offer))'
  BY <1>2 DEF Trusted
<1>6. (\A t \in DOMAIN tickets : Trusted(tickets[t].grant.offer))'
  BY <1>3 DEF Trusted
<1>7. (\A c \in DOMAIN codes : Trusted(codes[c].grant.offer))'
  BY <1>4 DEF Trusted
<1> QED BY <1>1, <1>5, <1>6, <1>7 DEF TrustInv

(***************************************************************************)
(* A code only travels to a URI the operator vouches for, whatever clients *)
(* there are, whatever they register and however often metadata documents  *)
(* fail to resolve.  authorize.ts, register.ts.                            *)
(***************************************************************************)
THEOREM CodesStayWithTrusted == Spec => []CodesGoToTrustedRedirects
<1>1. Init => TrustInv
  BY DEF Init, Idle, TrustInv, AssertionsAreFiltered
<1>2. TrustInv => CodesGoToTrustedRedirects
  BY DEF TrustInv, Trusted, CodesGoToTrustedRedirects
<1> QED BY <1>1, <1>2, TypesHold, NextTrustInv, PTL DEF Spec
-----------------------------------------------------------------------------
(* Who decides, and what a decision leads to.                              *)

(***************************************************************************)
(* Why it holds: a request gets to the burn only past the comparison of    *)
(* the session with the user in the ticket, and to the code only past an   *)
(* approval the store called fresh.  Sessions change in between, tickets   *)
(* and history do not.                                                     *)
(***************************************************************************)
AskedByItsUser ==
  \A r \in Req : req[r].pc \in {"consent-burn", "consent-issue"} =>
    <<req[r].ticket, tickets[req[r].ticket].grant.user>> \in seen

ApprovalHeld ==
  \A r \in Req : req[r].pc = "consent-issue" => TRUE \in decided[req[r].ticket]

(* A decision is recorded per accepted mark. *)
DecisionsCounted ==
  \A t \in TicketId :
    /\ accepted[TicketKey(t)] = 0 => decided[t] = {}
    /\ accepted[TicketKey(t)] <= 1 => decided[t] # {TRUE, FALSE}

(* A code goes back to an approval in the session of its user. *)
CodeTraces(c) ==
  LET grant == codes[c].grant
      from  == codes[c].from
  IN IF from = NoTicket
     THEN grant.offer.client \in Registered \cap PreApproved
     ELSE \E t \in DOMAIN tickets : /\ from = [ticket |-> {t}]
                                    /\ tickets[t].grant = grant
                                    /\ TRUE \in decided[t]
                                    /\ <<t, grant.user>> \in seen

CodesTrace == \A c \in DOMAIN codes : CodeTraces(c)

ConsentInv ==
  AskedByItsUser /\ ApprovalHeld /\ OnlyTheUserSpendsATicket /\ DecisionsCounted /\ CodesTrace

(* A ticket is marked by a request that is at its burn. *)
LEMMA MarkOrigin ==
  ASSUME TypeInv, [Next]_vars, NEW t \in TicketId, TicketKey(t) \in spent' \ spent
  PROVE  \E r \in Req : req[r].pc = "consent-burn" /\ req[r].ticket = t
<1>1. spent' # spent
  OBVIOUS
<1>2. PICK r \in Req : ConsentBurn(r) \/ TokenBurn(r) \/ StoreThrows(r)
  BY <1>1, QuietOrNot, AuthorizeUserIssues, ConsentIssueIssues DEF Quiet, Issues
<1>3. CASE req[r].pc = "consent-burn"
  <2>1. req[r].ticket \in TicketId
    BY <1>3, ConsentTyped DEF ConsentPc
  <2>2. spent' \subseteq spent \cup {TicketKey(req[r].ticket)}
    BY <1>2, <1>3 DEF ConsentBurn, TokenBurn, StoreThrows, Consume, ConsumeThrows
  <2> QED BY <1>3, <2>1, <2>2, KeysAreDistinct
<1>4. CASE req[r].pc # "consent-burn"
  <2>1. req[r].pc = "token-burn" /\ spent' \subseteq spent \cup {CodeKey(req[r].code)}
    BY <1>2, <1>4 DEF ConsentBurn, TokenBurn, StoreThrows, Consume, ConsumeThrows
  <2>2. req[r].code \in CodeId
    BY <2>1, TokenTyped DEF TokenPc
  <2> QED BY <2>1, <2>2, KeysAreDistinct
<1> QED BY <1>3, <1>4

LEMMA AskedByItsUserKept ==
  ASSUME TypeInv, AskedByItsUser, [Next]_vars
  PROVE  AskedByItsUser'
<1> SUFFICES ASSUME NEW r \in Req, req'[r].pc \in {"consent-burn", "consent-issue"}
             PROVE  <<req'[r].ticket, tickets'[req'[r].ticket].grant.user>> \in seen'
  BY DEF AskedByItsUser
<1>1. Grows
  BY OnlyGrows
<1>2. CASE req'[r] = req[r]
  BY <1>1, <1>2, ConsentTyped DEF Grows, AskedByItsUser, ConsentPc
<1>3. CASE req'[r] # req[r] /\ ConsentUser(r)
  <2>1. req[r].pc \in ConsentPc /\ Goto(r, "consent-burn")
    <3>1. req[r].pc \in ConsentPc
      BY <1>3 DEF ConsentUser, ConsentPc
    <3>2. ~Answer(r)
      BY <3>1, AnswerTyped DEF Idle, TypeInv, TypeOK, Request
    <3> QED BY <1>3, <3>1, <3>2 DEF ConsentUser
  <2>2. req'[r].ticket = req[r].ticket
    BY <2>1, ConsentGotoTyped DEF ConsentPc, TypeInv, TypeOK, Request
  <2>3. <<req[r].ticket, tickets[req[r].ticket].grant.user>> \in seen'
    <3>1. IsTheUser(req[r].ticket, session[req[r].browser])
      <4>1. ~Answer(r)
        BY <2>1, <1>3, AnswerTyped DEF Idle, TypeInv, TypeOK, Request
      <4> QED BY <1>3, <4>1 DEF ConsentUser
    <3> QED BY <1>3, <3>1 DEF ConsentUser, IsTheUser
  <2> QED BY <1>3, <2>2, <2>3 DEF ConsentUser
<1>4. CASE req'[r] # req[r] /\ ConsentBurn(r)
  <2>1. req[r].pc \in ConsentPc /\ req[r].pc = "consent-burn"
    BY <1>4 DEF ConsentBurn, ConsentPc
  <2>2. Goto(r, "consent-issue")
    <3>1. ~Answer(r)
      BY AnswerTyped DEF Idle, TypeInv, TypeOK, Request
    <3> QED BY <1>4, <3>1 DEF ConsentBurn
  <2>3. req'[r].ticket = req[r].ticket
    BY <2>1, <2>2, ConsentGotoTyped DEF ConsentPc, TypeInv, TypeOK, Request
  <2> QED BY <1>4, <2>1, <2>3 DEF ConsentBurn, AskedByItsUser
<1> QED BY <1>2, <1>3, <1>4, RequestOrigin

LEMMA ApprovalHeldKept ==
  ASSUME TypeInv, ApprovalHeld, [Next]_vars
  PROVE  ApprovalHeld'
<1> SUFFICES ASSUME NEW r \in Req, req'[r].pc = "consent-issue"
             PROVE  TRUE \in decided'[req'[r].ticket]
  BY DEF ApprovalHeld
<1>1. Grows
  BY OnlyGrows
<1>2. CASE req'[r] = req[r]
  BY <1>1, <1>2, ConsentTyped DEF Grows, ApprovalHeld, ConsentPc
<1>3. CASE req'[r] # req[r]
  <2>1. ConsentBurn(r) /\ req[r].pc \in ConsentPc
    BY <1>3, RequestOrigin DEF ConsentBurn, ConsentPc
  <2>2. ~Answer(r)
    BY AnswerTyped DEF Idle, TypeInv, TypeOK, Request
  <2>3. req'[r].ticket = req[r].ticket
    <3>1. Goto(r, "consent-issue")
      BY <2>1, <2>2 DEF ConsentBurn
    <3> QED BY <2>1, <3>1, ConsentGotoTyped DEF ConsentPc, TypeInv, TypeOK, Request
  <2>4. decided' = [decided EXCEPT ![req[r].ticket] = @ \cup {req[r].approved}]
        /\ req[r].approved = TRUE
    <3>1. req[r].approved \in BOOLEAN
      BY <2>1, ConsentTyped
    <3> QED BY <2>1, <2>2, <3>1 DEF ConsentBurn, Approves
  <2> QED BY <2>1, <2>3, <2>4, ConsentTyped DEF TypeInv, TypeOK
<1> QED BY <1>2, <1>3

LEMMA OnlyTheUserKept ==
  ASSUME TypeInv, TypeInv', SingleUseInv, AskedByItsUser, OnlyTheUserSpendsATicket, [Next]_vars
  PROVE  OnlyTheUserSpendsATicket'
<1> SUFFICES ASSUME NEW t \in DOMAIN tickets', TicketKey(t) \in spent'
             PROVE  <<t, tickets'[t].grant.user>> \in seen'
  BY DEF OnlyTheUserSpendsATicket
<1>1. Grows
  BY OnlyGrows
<1>2. t \in TicketId
  BY DEF TypeInv, TypeOK
<1>3. CASE TicketKey(t) \in spent
  BY <1>1, <1>2, <1>3 DEF Grows, SingleUseInv, MarkedIsIssued, OnlyTheUserSpendsATicket
<1>4. CASE TicketKey(t) \notin spent
  <2>1. PICK r \in Req : req[r].pc = "consent-burn" /\ req[r].ticket = t
    BY <1>2, <1>4, MarkOrigin
  <2> QED BY <1>1, <2>1, ConsentTyped DEF Grows, AskedByItsUser, ConsentPc
<1> QED BY <1>3, <1>4

LEMMA DecisionsCountedKept ==
  ASSUME TypeInv, DecisionsCounted, [Next]_vars
  PROVE  DecisionsCounted'
<1>1. CASE Quiet /\ UNCHANGED decided
  BY <1>1 DEF Quiet, DecisionsCounted
<1>2. ASSUME NEW r \in Req, ConsentBurn(r)
      PROVE  DecisionsCounted'
  <2> DEFINE t == req[r].ticket
             approved == req[r].approved
  <2>1. t \in TicketId /\ approved \in BOOLEAN
    BY <1>2, ConsentTyped DEF ConsentBurn, ConsentPc
  <2>2. PICK fresh \in BOOLEAN :
          /\ accepted' = [accepted EXCEPT ![TicketKey(t)] = IF fresh THEN @ + 1 ELSE @]
          /\ decided' = [decided EXCEPT ![t] = IF fresh THEN @ \cup {approved} ELSE @]
    BY <1>2 DEF ConsentBurn
  <2> HIDE DEF t, approved
  <2>3. accepted \in [Key -> Nat] /\ decided \in [TicketId -> SUBSET BOOLEAN]
    BY DEF TypeInv, TypeOK
  <2>4. ASSUME NEW s \in TicketId, s # t
        PROVE  accepted'[TicketKey(s)] = accepted[TicketKey(s)] /\ decided'[s] = decided[s]
    BY <2>1, <2>2, <2>3, <2>4, KeysAreDistinct
  <2>5. /\ accepted'[TicketKey(t)] = IF fresh THEN accepted[TicketKey(t)] + 1
                                              ELSE accepted[TicketKey(t)]
        /\ decided'[t] = IF fresh THEN decided[t] \cup {approved} ELSE decided[t]
        /\ accepted[TicketKey(t)] \in Nat
    BY <2>1, <2>2, <2>3, KeysAreDistinct
  <2>6. /\ accepted'[TicketKey(t)] = 0 => decided'[t] = {}
        /\ accepted'[TicketKey(t)] <= 1 => decided'[t] # {TRUE, FALSE}
    <3>1. CASE ~fresh
      BY <2>1, <2>5, <3>1 DEF DecisionsCounted
    <3>2. CASE fresh
      <4>1. accepted'[TicketKey(t)] # 0
        BY <2>5, <3>2
      <4>2. accepted'[TicketKey(t)] <= 1 => decided'[t] = {approved}
        <5>1. accepted'[TicketKey(t)] <= 1 => accepted[TicketKey(t)] = 0
          BY <2>5, <3>2
        <5>2. accepted[TicketKey(t)] = 0 => decided[t] = {}
          BY <2>1 DEF DecisionsCounted
        <5> QED BY <2>5, <3>2, <5>1, <5>2
      <4> QED BY <2>1, <4>1, <4>2
    <3> QED BY <3>1, <3>2
  <2> QED BY <2>4, <2>6 DEF DecisionsCounted
<1>3. ASSUME NEW r \in Req, TokenBurn(r)
      PROVE  DecisionsCounted'
  <2>1. req[r].code \in CodeId
    BY <1>3, TokenTyped DEF TokenBurn, TokenPc
  <2>2. \A t \in TicketId : accepted'[TicketKey(t)] = accepted[TicketKey(t)]
    BY <1>3, <2>1, KeysAreDistinct DEF TokenBurn, TypeInv, TypeOK
  <2> QED BY <1>3, <2>2 DEF TokenBurn, DecisionsCounted
<1>4. \/ UNCHANGED <<accepted, decided>>
      \/ \E r \in Req : ConsentBurn(r) \/ TokenBurn(r)
  <2>1. ASSUME NEW r \in Req, Arrive(r) \/ Fails(r) \/ StoreThrows(r)
        PROVE  UNCHANGED <<accepted, decided>>
    BY <2>1 DEF Arrive, Authorize, ConsentRead, TokenRead, Fails, StoreThrows
  <2>2. ASSUME NEW r \in Req, Continue(r)
        PROVE  UNCHANGED <<accepted, decided>> \/ ConsentBurn(r) \/ TokenBurn(r)
    BY <2>2 DEF Continue, AuthorizeUser, ConsentUser, ConsentIssue, TokenMint
  <2> QED BY <2>1, <2>2 DEF Next, vars, Tick, SignIn, RegisterClient
<1> QED BY <1>2, <1>3, <1>4 DEF DecisionsCounted

LEMMA CodesTraceKept ==
  ASSUME TypeInv, TypeInv', AskedByItsUser, ApprovalHeld, CodesTrace, [Next]_vars
  PROVE  CodesTrace'
<1> SUFFICES ASSUME NEW c \in DOMAIN codes' PROVE CodeTraces(c)'
  BY DEF CodesTrace
<1>1. Grows /\ DOMAIN tickets \subseteq TicketId
  BY OnlyGrows DEF TypeInv, TypeOK
<1>2. CASE c \in DOMAIN codes
  <2>1. CodeTraces(c) /\ codes'[c] = codes[c]
    BY <1>1, <1>2 DEF CodesTrace, Grows
  <2> QED BY <1>1, <2>1 DEF CodeTraces, Grows
<1>3. CASE c \notin DOMAIN codes
  <2>1. PICK r \in Req :
          \/ /\ codes'[c].grant.offer = req[r].offer
             /\ codes'[c].from = NoTicket
             /\ req[r].offer.client \in Registered \cap PreApproved
          \/ /\ req[r].pc = "consent-issue"
             /\ codes'[c].grant = tickets[req[r].ticket].grant
             /\ codes'[c].from = [ticket |-> {req[r].ticket}]
    BY <1>3, CodeOrigin
  <2>2. CASE codes'[c].from = NoTicket
    <3>1. [ticket |-> {req[r].ticket}] # NoTicket
      <4>1. [ticket |-> {req[r].ticket}].ticket # NoTicket.ticket
        BY DEF NoTicket
      <4> QED BY <4>1
    <3> QED BY <2>1, <2>2, <3>1 DEF CodeTraces
  <2>3. CASE codes'[c].from # NoTicket
    <3> DEFINE t == req[r].ticket
    <3>1. /\ req[r].pc = "consent-issue" /\ t \in DOMAIN tickets
          /\ codes'[c].grant = tickets[t].grant /\ codes'[c].from = [ticket |-> {t}]
      BY <2>1, <2>3, ConsentTyped DEF ConsentPc
    <3>2. TRUE \in decided[t] /\ <<t, tickets[t].grant.user>> \in seen
      BY <3>1 DEF AskedByItsUser, ApprovalHeld
    <3> HIDE DEF t
    <3> QED BY <1>1, <2>3, <3>1, <3>2 DEF CodeTraces, Grows
  <2> QED BY <2>2, <2>3
<1> QED BY <1>2, <1>3

LEMMA NextConsentInv ==
  TypeInv /\ TypeInv' /\ SingleUseInv /\ ConsentInv /\ [Next]_vars => ConsentInv'
BY AskedByItsUserKept, ApprovalHeldKept, OnlyTheUserKept, DecisionsCountedKept, CodesTraceKept
   DEF ConsentInv

LEMMA ConsentHolds == Spec => []ConsentInv
<1>1. Init => ConsentInv
  <2> SUFFICES ASSUME Init PROVE ConsentInv
    OBVIOUS
  <2>1. AskedByItsUser /\ ApprovalHeld
    BY DEF Init, Idle, AskedByItsUser, ApprovalHeld
  <2>2. OnlyTheUserSpendsATicket /\ CodesTrace
    BY DEF Init, OnlyTheUserSpendsATicket, CodesTrace
  <2>3. DecisionsCounted
    BY DEF Init, DecisionsCounted
  <2> QED BY <2>1, <2>2, <2>3 DEF ConsentInv
<1> QED BY <1>1, TypesHold, SingleUseHolds, NextConsentInv, PTL DEF Spec

(***************************************************************************)
(* Whoever posts a ticket, only its user's session uses it up, though      *)
(* sessions change while requests wait.  consent/handler.ts.               *)
(***************************************************************************)
THEOREM SpentByItsUser == Spec => []OnlyTheUserSpendsATicket
BY ConsentHolds, PTL DEF ConsentInv

(***************************************************************************)
(* An unexpired ticket is decided once: of any number of approvals and     *)
(* denials that race for it, one counts, and a code needs an approval.     *)
(* consent/handler.ts.                                                     *)
(***************************************************************************)
THEOREM DecidedOnce == Spec => []DecisionIsFinal
<1>1. TypeInv /\ SingleUseInv /\ ConsentInv => DecisionIsFinal
  <2> SUFFICES ASSUME TypeInv, SingleUseInv, ConsentInv,
                      NEW t \in DOMAIN tickets, tickets[t].exp >= now
               PROVE  /\ decided[t] # {TRUE, FALSE}
                      /\ (\E c \in DOMAIN codes : codes[c].from = [ticket |-> {t}])
                           => decided[t] = {TRUE}
    BY DEF DecisionIsFinal
  <2>1. t \in TicketId /\ tickets[t].exp \in Nat /\ now \in Nat /\ TicketKey(t) \in Key
    BY KeysAreDistinct DEF TypeInv, TypeOK, Ticket
  <2>2. accepted[TicketKey(t)] <= 1
    BY <2>1 DEF SingleUseInv, SingleUseUntilExpiry, TypeInv, TypeOK
  <2>3. decided[t] # {TRUE, FALSE} /\ decided[t] \subseteq BOOLEAN
    BY <2>1, <2>2 DEF ConsentInv, DecisionsCounted, TypeInv, TypeOK
  <2>4. ASSUME NEW c \in DOMAIN codes, codes[c].from = [ticket |-> {t}]
        PROVE  TRUE \in decided[t]
    <3>1. codes[c].from.ticket = {t}
      BY <2>4
    <3>2. codes[c].from # NoTicket
      BY <3>1 DEF NoTicket
    <3>3. PICK s \in DOMAIN tickets : codes[c].from = [ticket |-> {s}] /\ TRUE \in decided[s]
      BY <3>2 DEF ConsentInv, CodesTrace, CodeTraces
    <3>4. codes[c].from.ticket = {s}
      BY <3>3
    <3> QED BY <3>1, <3>3, <3>4
  <2> QED BY <2>3, <2>4
<1> QED BY <1>1, TypesHold, SingleUseHolds, ConsentHolds, PTL
-----------------------------------------------------------------------------
(* Where tokens come from.                                                 *)

(***************************************************************************)
(* A token repeats what its code says, and the request that minted it had  *)
(* authenticated when it arrived, long before the code was compared.       *)
(***************************************************************************)
TokenMatchesCode(k) ==
  LET grant == codes[k.code].grant
  IN /\ k.code \in DOMAIN codes
     /\ k.user = grant.user
     /\ k.client = grant.offer.client /\ k.redirect = grant.offer.redirect
     /\ k.verifier = grant.offer.challenge
     /\ k.resource = grant.offer.resource /\ k.scope = grant.offer.scope
     /\ k.client \in Confidential => k.proved

TokenInv ==
  /\ \A r \in Req : req[r].pc \in TokenPc => (req[r].client \in Confidential => req[r].proved)
  /\ \A k \in tokens : TokenMatchesCode(k)

(* Minting is the only way to a token, and it compares code and request. *)
LEMMA TokenOrigin ==
  ASSUME TypeInv, TokenInv, [Next]_vars, NEW k \in tokens' \ tokens
  PROVE  TokenMatchesCode(k)
<1>1. tokens' # tokens
  OBVIOUS
<1>2. PICK r \in Req : TokenMint(r)
  <2>1. ASSUME NEW r \in Req, Arrive(r) \/ Fails(r) \/ StoreThrows(r)
        PROVE  UNCHANGED tokens
    BY <2>1 DEF Arrive, Authorize, ConsentRead, TokenRead, Fails, StoreThrows
  <2>2. ASSUME NEW r \in Req, Continue(r)
        PROVE  UNCHANGED tokens \/ TokenMint(r)
    BY <2>2 DEF Continue, AuthorizeUser, ConsentUser, ConsentBurn, ConsentIssue, TokenBurn
  <2> QED BY <1>1, <2>1, <2>2 DEF Next, vars, Tick, SignIn, RegisterClient
<1> DEFINE q     == req[r]
           grant == codes[q.code].grant
<1>3. /\ Matches(q, grant.offer)
      /\ k = [code |-> q.code, user |-> grant.user, client |-> q.client,
              resource |-> grant.offer.resource, scope |-> grant.offer.scope,
              redirect |-> q.redirect, verifier |-> q.verifier, proved |-> q.proved]
  BY <1>1, <1>2 DEF TokenMint
<1>4. q.pc \in TokenPc
  BY <1>2 DEF TokenMint, TokenPc
<1>5. q.code \in DOMAIN codes /\ (q.client \in Confidential => q.proved)
  BY <1>4, TokenTyped DEF TokenInv
<1> HIDE DEF q
<1> QED BY <1>3, <1>5 DEF TokenMatchesCode, Matches

LEMMA NextTokenInv == TypeInv /\ TypeInv' /\ TokenInv /\ [Next]_vars => TokenInv'
<1> SUFFICES ASSUME TypeInv, TypeInv', TokenInv, [Next]_vars PROVE TokenInv'
  OBVIOUS
<1>1. ASSUME NEW r \in Req, req'[r].pc \in TokenPc, req'[r].client \in Confidential
      PROVE  req'[r].proved
  <2>1. CASE req'[r] = req[r]
    BY <1>1, <2>1 DEF TokenInv
  <2>2. CASE req'[r] # req[r] /\ req'[r].pc = "token-burn"
    <3>1. PICK c \in CodeId, client \in Client, redirect \in Redirect,
               verifier \in Challenge, origin \in Resource, proved \in BOOLEAN,
               fetched \in BOOLEAN :
            TokenRead(r, c, client, redirect, verifier, origin, proved, fetched)
      BY <2>2, RequestOrigin
    <3>2. req'[r].client = client /\ req'[r].proved = proved
      BY <3>1 DEF TokenRead, TypeInv, TypeOK
    <3>3. client \in Confidential => proved
      BY <3>1, ClientPolicyAssumption DEF TokenRead, Authenticates
    <3> QED BY <1>1, <3>2, <3>3
  <2>3. CASE req'[r] # req[r] /\ TokenBurn(r)
    <3>1. req \in [Req -> Request] /\ req[r].pc \in TokenPc
      BY <2>3 DEF TypeInv, TypeOK, Request, TokenBurn, TokenPc
    <3>2. ~Answer(r)
      BY <1>1, <3>1, AnswerTyped DEF Idle, TokenPc
    <3>3. Goto(r, "token-mint") /\ req[r] \in TokenRequest
      BY <2>3, <3>1, <3>2, KindOfRequest DEF TokenBurn
    <3>4. req'[r] = [req[r] EXCEPT !.pc = "token-mint"]
      BY <3>1, <3>3 DEF Goto
    <3>5. req'[r].client = req[r].client /\ req'[r].proved = req[r].proved
      BY <3>3, <3>4 DEF TokenRequest
    <3> QED BY <1>1, <3>1, <3>5 DEF TokenInv
  <2> QED BY <1>1, <2>1, <2>2, <2>3, RequestOrigin DEF TokenPc
<1>2. ASSUME NEW k \in tokens'
      PROVE  TokenMatchesCode(k)'
  <2>1. TokenMatchesCode(k)
    BY TokenOrigin DEF TokenInv
  <2> QED BY <2>1, OnlyGrows DEF TokenMatchesCode, Grows
<1> QED BY <1>1, <1>2 DEF TokenInv

(***************************************************************************)
(* Every access token goes back to a grant its user gave: along the code,  *)
(* the ticket and the approval in that user's session, or to a client the  *)
(* operator has approved in advance; and only the client it was given to   *)
(* can have fetched it.  token.ts, authcode.ts, consent/handler.ts.        *)
(***************************************************************************)
THEOREM TokensTraceBack == Spec => []TokensTraceToConsent
<1>1. Init => TokenInv
  BY DEF Init, Idle, TokenInv, TokenPc
<1>2. ConsentInv /\ TokenInv => TokensTraceToConsent
  <2> SUFFICES ASSUME ConsentInv, TokenInv, NEW k \in tokens
               PROVE  /\ TokenMatchesCode(k)
                      /\ CodeTraces(k.code)
    BY DEF TokensTraceToConsent, TokenMatchesCode, CodeTraces
  <2>1. TokenMatchesCode(k)
    BY DEF TokenInv
  <2> QED BY <2>1 DEF ConsentInv, CodesTrace, TokenMatchesCode
<1> QED BY <1>1, <1>2, TypesHold, ConsentHolds, NextTokenInv, PTL DEF Spec

-----------------------------------------------------------------------------
(* No approval is lost.                                                    *)

(* After the step that issues, there is a code out of the ticket.          *)
LEMMA IssueDelivers ==
  ASSUME TypeInv, NEW r \in Req, ConsentIssue(r)
  PROVE  \E c \in DOMAIN codes' : codes'[c].from = [ticket |-> {req[r].ticket}]
<1> DEFINE grant == tickets[req[r].ticket].grant
           from  == [ticket |-> {req[r].ticket}]
<1>1. grant \in Grant /\ from \in Origin /\ IssueCode(grant, from)
  BY ConsentTyped DEF ConsentIssue, ConsentPc, Ticket, Origin
<1>2. TypeOK
  BY DEF TypeInv
<1> HIDE DEF grant, from
<1>3. PICK c \in CodeId \ DOMAIN codes :
        /\ DOMAIN codes' = DOMAIN codes \cup {c}
        /\ codes'[c] = [grant |-> grant, exp |-> now + CodeTtl, from |-> from]
  BY <1>1, <1>2, IssueCodeAdds
<1>4. codes'[c].from = from
  BY <1>3
<1> QED BY <1>3, <1>4 DEF from

(* Without faults a request past the burn of its ticket stays there until  *)
(* it has issued the code.                                                 *)
LEMMA StaysUntilIssued ==
  ASSUME TypeInv, [Next]_vars, ~Faults, NEW r \in Req, req[r].pc = "consent-issue"
  PROVE  req'[r] = req[r] \/ ConsentIssue(r)
<1>1. req \in [Req -> Request]
  BY DEF TypeInv, TypeOK, Request
<1>2. CASE UNCHANGED req
  BY <1>2
<1>3. ASSUME NEW s \in Req, Arrive(s) \/ Continue(s)
      PROVE  req'[r] = req[r] \/ ConsentIssue(r)
  <2>1. CASE s # r
    <3>1. Arrive(s) => req'[r] = req[r]
      BY <1>1, <2>1 DEF Arrive, Authorize, ConsentRead, TokenRead
    <3>2. Continue(s) => req'[r] = req[r]
      BY <1>1, <2>1 DEF Continue, AuthorizeUser, ConsentUser, ConsentBurn, ConsentIssue,
           TokenBurn, TokenMint, Answer, Goto
    <3> QED BY <1>3, <3>1, <3>2
  <2>2. CASE s = r
    <3>1. ~Arrive(r)
      BY DEF Arrive, Authorize, ConsentRead, TokenRead, Idle
    <3>2. Continue(r) => ConsentIssue(r)
      BY DEF Continue, AuthorizeUser, ConsentUser, ConsentBurn, TokenBurn, TokenMint
    <3> QED BY <1>3, <2>2, <3>1, <3>2
  <2> QED BY <2>1, <2>2
<1> QED BY <1>2, <1>3 DEF Next, vars, Tick, SignIn, RegisterClient, Fails, StoreThrows

LEMMA NextNoApprovalLost == TypeInv /\ NoApprovalLost /\ [Next]_vars => NoApprovalLost'
<1> SUFFICES ASSUME TypeInv, NoApprovalLost, [Next]_vars, ~Faults,
                    NEW t \in TicketId, TRUE \in decided'[t]
             PROVE  \/ \E c \in DOMAIN codes' : codes'[c].from = [ticket |-> {t}]
                    \/ \E r \in Req : req'[r].pc = "consent-issue" /\ req'[r].ticket = t
  BY DEF NoApprovalLost
<1>1. Grows
  BY OnlyGrows
<1>2. CASE TRUE \in decided[t]
  <2>1. CASE \E c \in DOMAIN codes : codes[c].from = [ticket |-> {t}]
    BY <1>1, <2>1 DEF Grows
  <2>2. ASSUME NEW r \in Req, req[r].pc = "consent-issue", req[r].ticket = t
        PROVE  \/ \E c \in DOMAIN codes' : codes'[c].from = [ticket |-> {t}]
               \/ req'[r].pc = "consent-issue" /\ req'[r].ticket = t
    BY <2>2, StaysUntilIssued, IssueDelivers
  <2> QED BY <1>2, <2>1, <2>2 DEF NoApprovalLost
<1>3. CASE TRUE \notin decided[t]
  <2>1. PICK r \in Req : ConsentBurn(r)
    BY <1>3, WhoWrites DEF AuthorizeUser, ConsentIssue, ConsentUser
  <2>2. req[r].pc \in ConsentPc /\ req[r].ticket \in TicketId /\ req[r].approved \in BOOLEAN
    BY <2>1, ConsentTyped DEF ConsentBurn, ConsentPc
  <2>3. PICK fresh \in BOOLEAN :
          /\ decided' = [decided EXCEPT ![req[r].ticket] =
                           IF fresh THEN @ \cup {req[r].approved} ELSE @]
          /\ IF Approves(fresh, req[r].approved) THEN Goto(r, "consent-issue") ELSE Answer(r)
    BY <2>1 DEF ConsentBurn
  <2>4. req[r].ticket = t /\ fresh /\ req[r].approved
    BY <1>3, <2>2, <2>3 DEF TypeInv, TypeOK
  <2>5. Goto(r, "consent-issue")
    BY <2>3, <2>4 DEF Approves
  <2> QED BY <2>2, <2>4, <2>5, ConsentGotoTyped DEF ConsentPc, TypeInv, TypeOK, Request
<1> QED BY <1>2, <1>3

(***************************************************************************)
(* While the ports answer, an approval is never lost: whatever other       *)
(* requests and the sessions do, the ticket it used up has become a code   *)
(* or is about to.  consent/handler.ts.                                    *)
(***************************************************************************)
THEOREM ApprovalsArrive == Spec => []NoApprovalLost
<1>1. Init => NoApprovalLost
  BY DEF Init, NoApprovalLost
<1> QED BY <1>1, TypesHold, NextNoApprovalLost, PTL DEF Spec
-----------------------------------------------------------------------------
(* A consent is one line.                                                  *)

IssuingFor(r, t) == req[r].pc = "consent-issue" /\ req[r].ticket = t

(***************************************************************************)
(* Why it is one: a request gets to the issue of a code only by a burn     *)
(* that was answered fresh, so of an unexpired ticket that nobody had      *)
(* marked; and until then no other request was there, and no code.         *)
(***************************************************************************)
IssuedOnce(t) ==
  /\ \A r \in Req : IssuingFor(r, t) => TicketKey(t) \in spent /\ CodesOf(t) = {}
  /\ \A r, q \in Req : IssuingFor(r, t) /\ IssuingFor(q, t) => r = q
  /\ CodesOf(t) # {} => TicketKey(t) \in spent
  /\ \A c, d \in CodesOf(t) : c = d

OneIssue == \A t \in DOMAIN tickets : tickets[t].exp >= now => IssuedOnce(t)

LineInv == TypeInv /\ SingleUseInv /\ ConsentInv /\ OneIssue

(***************************************************************************)
(* The steps that issue nothing and let no request pass to the issue:      *)
(* marks may be added, the clock may advance.                              *)
(***************************************************************************)
Settling ==
  /\ UNCHANGED <<tickets, codes>>
  /\ now' \in {now, now + 1}
  /\ spent \subseteq spent'
  /\ \A r \in Req : req'[r].pc = "consent-issue" =>
       req[r].pc = "consent-issue" /\ req'[r].ticket = req[r].ticket

LEMMA SettlingOrNot ==
  ASSUME TypeInv, [Next]_vars
  PROVE  \/ Settling
         \/ \E r \in Req : \/ AuthorizeUser(r) \/ ConsentIssue(r)
                           \/ ConsentBurn(r) /\ Goto(r, "consent-issue")
<1> SUFFICES ASSUME ~\E r \in Req : AuthorizeUser(r) \/ ConsentIssue(r),
                    ~\E r \in Req : ConsentBurn(r) /\ Goto(r, "consent-issue")
             PROVE  Settling
  OBVIOUS
<1>1. UNCHANGED <<tickets, codes>> /\ now' \in {now, now + 1} /\ spent \subseteq spent'
  <2>1. \A r \in Req : ConsentBurn(r) \/ TokenBurn(r) \/ StoreThrows(r) =>
          UNCHANGED <<now, tickets, codes>> /\ spent \subseteq spent'
    BY DEF ConsentBurn, TokenBurn, StoreThrows, Consume, ConsumeThrows
  <2> QED BY <2>1, QuietOrNot DEF Quiet
<1>2. ASSUME NEW r \in Req, req'[r].pc = "consent-issue"
      PROVE  req'[r] = req[r]
  <2> SUFFICES ASSUME req'[r] # req[r] PROVE FALSE
    OBVIOUS
  <2>1. ConsentBurn(r)
    BY <1>2, RequestOrigin
  <2>2. ~Answer(r)
    BY <1>2, AnswerTyped DEF Idle, TypeInv, TypeOK, Request
  <2> QED BY <2>1, <2>2 DEF ConsentBurn
<1> QED BY <1>1, <1>2 DEF Settling

\* What a ticket that is not yet issued has: no code, and no request.
LEMMA NothingBeforeTheTicket ==
  ASSUME TypeInv, ConsentInv, NEW t \in TicketId \ DOMAIN tickets
  PROVE  CodesOf(t) = {} /\ \A r \in Req : ~IssuingFor(r, t)
<1>1. ASSUME NEW c \in DOMAIN codes, codes[c].from = [ticket |-> {t}]
      PROVE  FALSE
  <2>1. codes[c].from.ticket = {t}
    BY <1>1
  <2>2. codes[c].from # NoTicket
    BY <2>1 DEF NoTicket
  <2>3. PICK s \in DOMAIN tickets : codes[c].from = [ticket |-> {s}]
    BY <2>2 DEF ConsentInv, CodesTrace, CodeTraces
  <2>4. codes[c].from.ticket = {s}
    BY <2>3
  <2> QED BY <2>1, <2>3, <2>4
<1> QED BY <1>1, ConsentTyped DEF CodesOf, IssuingFor, ConsentPc

\* A code issued at once, or a ticket, is of no line that has begun.
LEMMA AuthorizeUserAddsNoCode ==
  ASSUME TypeInv, NEW r \in Req, AuthorizeUser(r)
  PROVE  \A t \in TicketId : CodesOf(t)' = CodesOf(t)
<1>1. /\ DOMAIN codes \subseteq DOMAIN codes' /\ \A c \in DOMAIN codes : codes'[c] = codes[c]
  BY AuthorizeUserIssues DEF Issues, Quiet
<1>2. \A c \in DOMAIN codes' \ DOMAIN codes : codes'[c].from = NoTicket
  <2> DEFINE grant == [offer |-> req[r].offer, user |-> session[req[r].browser]]
  <2> SUFFICES ASSUME NEW c \in DOMAIN codes' \ DOMAIN codes PROVE codes'[c].from = NoTicket
    OBVIOUS
  <2>1. codes' # codes
    OBVIOUS
  <2>2. IssueCode(grant, NoTicket) /\ grant \in Grant
    BY <2>1, OfferTyped DEF AuthorizeUser, SignedIn, TypeInv
  <2>3. NoTicket \in Origin
    BY DEF NoTicket, Origin
  <2> HIDE DEF grant
  <2> QED BY <2>2, <2>3, NewCode
<1>3. \A t : [ticket |-> {t}] # NoTicket
  <2> SUFFICES ASSUME NEW t, [ticket |-> {t}] = NoTicket PROVE FALSE
    OBVIOUS
  <2>1. [ticket |-> {t}].ticket = NoTicket.ticket
    OBVIOUS
  <2> QED BY <2>1 DEF NoTicket
<1> QED BY <1>1, <1>2, <1>3 DEF CodesOf

LEMMA ApprovedBurn ==
  ASSUME TypeInv, NEW r \in Req, ConsentBurn(r), Goto(r, "consent-issue")
  PROVE  LET t == req[r].ticket
         IN /\ t \in DOMAIN tickets /\ t \in TicketId
            /\ spent' = spent \cup {TicketKey(t)}
            /\ tickets[t].exp >= now => TicketKey(t) \notin spent
            /\ UNCHANGED <<now, tickets, codes>>
            /\ req'[r].pc = "consent-issue" /\ req'[r].ticket = t
            /\ \A q \in Req \ {r} : req'[q] = req[q]
<1>1. req[r].pc \in ConsentPc
  BY DEF ConsentBurn, ConsentPc
<1>2. /\ req'[r].pc = "consent-issue" /\ req'[r].ticket = req[r].ticket
      /\ \A q \in Req \ {r} : req'[q] = req[q]
  BY <1>1, ConsentGotoTyped DEF ConsentPc, TypeInv, TypeOK, Request
<1>3. PICK t \in DOMAIN tickets :
        t = req[r].ticket /\ t \in TicketId /\ now \in Nat /\ tickets[t].exp \in Nat
  <2>1. req[r].ticket \in DOMAIN tickets /\ req[r].ticket \in TicketId
    BY <1>1, ConsentTyped
  <2>2. now \in Nat /\ \A t \in DOMAIN tickets : tickets[t].exp \in Nat
    BY DEF TypeInv, TypeOK, Ticket
  <2> QED BY <2>1, <2>2
<1>4. ~Answer(r)
  BY <1>2, AnswerTyped DEF Idle, TypeInv, TypeOK, Request
<1>5. PICK fresh \in BOOLEAN :
        /\ Consume(TicketKey(t), tickets[t].exp, fresh)
        /\ Approves(fresh, req[r].approved)
  BY <1>3, <1>4 DEF ConsentBurn
<1>6. /\ spent' = spent \cup {TicketKey(t)}
      /\ tickets[t].exp >= now => TicketKey(t) \notin spent
  BY <1>3, <1>5 DEF Consume, Answers, Approves
<1> QED BY <1>2, <1>3, <1>6 DEF ConsentBurn

LEMMA IssuedCode ==
  ASSUME TypeInv, NEW r \in Req, ConsentIssue(r)
  PROVE  \E c \in CodeId \ DOMAIN codes, t \in DOMAIN tickets :
           /\ IssuingFor(r, t) /\ t \in TicketId
           /\ CodesOf(t)' = CodesOf(t) \cup {c}
           /\ \A s \in TicketId \ {t} : CodesOf(s)' = CodesOf(s)
           /\ codes'[c].exp >= now
           /\ \A d \in DOMAIN codes : d \in DOMAIN codes' /\ codes'[d] = codes[d]
           /\ UNCHANGED <<now, spent, tickets>>
           /\ \A q \in Req \ {r} : req'[q] = req[q]
           /\ req'[r] = Idle
<1> DEFINE grant == tickets[req[r].ticket].grant
           from  == [ticket |-> {req[r].ticket}]
<1>1. PICK t \in DOMAIN tickets : t = req[r].ticket /\ t \in TicketId /\ IssuingFor(r, t)
  BY ConsentTyped DEF ConsentIssue, ConsentPc, IssuingFor
<1>2. grant \in Grant /\ from \in Origin /\ IssueCode(grant, from)
  BY ConsentTyped DEF ConsentIssue, ConsentPc, Ticket, Origin
<1>3. from = [ticket |-> {t}] /\ \A s : s # t => from # [ticket |-> {s}]
  <2>1. from = [ticket |-> {t}] /\ from.ticket = {t}
    BY <1>1
  <2>2. \A s : [ticket |-> {s}].ticket = {s}
    OBVIOUS
  <2> HIDE DEF from
  <2> QED BY <2>1, <2>2
<1> HIDE DEF grant, from
<1>4. PICK c \in CodeId \ DOMAIN codes :
        /\ DOMAIN codes' = DOMAIN codes \cup {c}
        /\ codes'[c] = [grant |-> grant, exp |-> now + CodeTtl, from |-> from]
        /\ \A d \in DOMAIN codes : codes'[d] = codes[d]
  BY <1>2, IssueCodeAdds DEF TypeInv
<1>5. codes'[c].exp = now + CodeTtl /\ codes'[c].from = from
  BY <1>4
<1>6. codes'[c].exp >= now
  BY <1>5, AuthFlowAssumption DEF TypeInv, TypeOK
<1>7. CodesOf(t)' = CodesOf(t) \cup {c} /\ \A s \in TicketId \ {t} : CodesOf(s)' = CodesOf(s)
  BY <1>3, <1>4, <1>5 DEF CodesOf
<1>8. UNCHANGED <<now, spent, tickets>> /\ Answer(r)
  BY DEF ConsentIssue
<1>9. req'[r] = Idle /\ \A q \in Req \ {r} : req'[q] = req[q]
  BY <1>8, AnswerTyped DEF TypeInv, TypeOK, Request
<1> QED BY <1>1, <1>4, <1>6, <1>7, <1>8, <1>9

LEMMA NextOneIssue ==
  ASSUME TypeInv, SingleUseInv, ConsentInv, OneIssue, [Next]_vars
  PROVE  OneIssue'
<1>1. now \in Nat /\ \A t \in DOMAIN tickets : tickets[t].exp \in Nat /\ t \in TicketId
  BY DEF TypeInv, TypeOK, Ticket
<1>2. CASE Settling
  <2> SUFFICES ASSUME NEW t \in DOMAIN tickets, tickets[t].exp >= now' PROVE IssuedOnce(t)'
    BY <1>2 DEF OneIssue, Settling
  <2>1. tickets[t].exp >= now
    BY <1>1, <1>2 DEF Settling
  <2>2. IssuedOnce(t) /\ CodesOf(t)' = CodesOf(t)
    BY <1>2, <2>1 DEF OneIssue, Settling, CodesOf
  <2>3. \A r \in Req : IssuingFor(r, t)' => IssuingFor(r, t)
    BY <1>2 DEF Settling, IssuingFor
  <2> QED BY <1>2, <2>2, <2>3 DEF Settling, IssuedOnce
<1>3. ASSUME NEW r \in Req, AuthorizeUser(r) PROVE OneIssue'
  <2>1. UNCHANGED <<now, spent>> /\ Answer(r)
    BY <1>3 DEF AuthorizeUser
  <2>2. \A q \in Req, t \in TicketId : IssuingFor(q, t)' => IssuingFor(q, t)
    BY <2>1, AnswerTyped DEF IssuingFor, Idle, TypeInv, TypeOK, Request
  <2>3. \A t \in TicketId : CodesOf(t)' = CodesOf(t)
    BY <1>3, AuthorizeUserAddsNoCode
  <2>4. /\ DOMAIN tickets' \subseteq TicketId
        /\ \A t \in DOMAIN tickets : tickets'[t] = tickets[t]
    BY <1>3, AuthorizeUserIssues DEF Issues, Quiet, TypeInv, TypeOK
  <2> SUFFICES ASSUME NEW t \in DOMAIN tickets', tickets'[t].exp >= now' PROVE IssuedOnce(t)'
    BY DEF OneIssue
  <2>5. CASE t \in DOMAIN tickets
    <3>1. IssuedOnce(t)
      BY <2>1, <2>4, <2>5 DEF OneIssue
    <3> QED BY <2>1, <2>2, <2>3, <2>4, <3>1 DEF IssuedOnce
  <2>6. CASE t \notin DOMAIN tickets
    <3>1. t \in TicketId /\ CodesOf(t) = {} /\ \A q \in Req : ~IssuingFor(q, t)
      BY <2>4, <2>6, NothingBeforeTheTicket
    <3>2. CodesOf(t)' = {} /\ \A q \in Req : ~IssuingFor(q, t)'
      BY <2>2, <2>3, <3>1
    <3> QED BY <3>2 DEF IssuedOnce
  <2> QED BY <2>5, <2>6
<1>4. ASSUME NEW r \in Req, ConsentBurn(r), Goto(r, "consent-issue") PROVE OneIssue'
  <2>1. PICK t \in DOMAIN tickets :
          /\ spent' = spent \cup {TicketKey(t)}
          /\ tickets[t].exp >= now => TicketKey(t) \notin spent
          /\ UNCHANGED <<now, tickets, codes>>
          /\ req'[r].pc = "consent-issue" /\ req'[r].ticket = t
          /\ \A q \in Req \ {r} : req'[q] = req[q]
    BY <1>4, ApprovedBurn
  <2> SUFFICES ASSUME NEW s \in DOMAIN tickets, tickets[s].exp >= now PROVE IssuedOnce(s)'
    BY <2>1 DEF OneIssue
  <2>2. IssuedOnce(s) /\ CodesOf(s)' = CodesOf(s)
    BY <2>1 DEF OneIssue, CodesOf
  <2>3. \A q \in Req \ {r} : IssuingFor(q, s)' <=> IssuingFor(q, s)
    BY <2>1 DEF IssuingFor
  <2>4. CASE s = t
    <3>1. TicketKey(s) \notin spent /\ TicketKey(s) \in spent'
      BY <2>1, <2>4
    <3>2. CodesOf(s) = {} /\ \A q \in Req : ~IssuingFor(q, s)
      BY <2>2, <3>1 DEF IssuedOnce
    <3> QED BY <2>2, <2>3, <3>1, <3>2 DEF IssuedOnce
  <2>5. CASE s # t
    <3>1. ~IssuingFor(r, s)'
      BY <2>1, <2>5 DEF IssuingFor
    <3> QED BY <2>1, <2>2, <2>3, <3>1 DEF IssuedOnce
  <2> QED BY <2>4, <2>5
<1>5. ASSUME NEW r \in Req, ConsentIssue(r) PROVE OneIssue'
  <2>1. PICK c \in CodeId \ DOMAIN codes, t \in DOMAIN tickets :
          /\ IssuingFor(r, t) /\ t \in TicketId
          /\ CodesOf(t)' = CodesOf(t) \cup {c}
          /\ \A s \in TicketId \ {t} : CodesOf(s)' = CodesOf(s)
          /\ UNCHANGED <<now, spent, tickets>>
          /\ \A q \in Req \ {r} : req'[q] = req[q]
          /\ req'[r] = Idle
    BY <1>5, IssuedCode
  <2> SUFFICES ASSUME NEW s \in DOMAIN tickets, tickets[s].exp >= now PROVE IssuedOnce(s)'
    BY <2>1 DEF OneIssue
  <2>2. IssuedOnce(s)
    BY DEF OneIssue
  <2>3. \A q \in Req : IssuingFor(q, s)' => q # r /\ IssuingFor(q, s)
    BY <2>1 DEF IssuingFor, Idle
  <2>4. CASE s = t
    <3>1. TicketKey(s) \in spent /\ CodesOf(s) = {} /\ \A q \in Req \ {r} : ~IssuingFor(q, s)
      BY <2>1, <2>2, <2>4 DEF IssuedOnce
    <3> QED BY <2>1, <2>3, <2>4, <3>1 DEF IssuedOnce
  <2>5. CASE s # t
    <3>1. CodesOf(s)' = CodesOf(s)
      BY <1>1, <2>1, <2>5
    <3> QED BY <2>1, <2>2, <2>3, <3>1 DEF IssuedOnce
  <2> QED BY <2>4, <2>5
<1> QED BY <1>2, <1>3, <1>4, <1>5, SettlingOrNot
LEMMA OneIssueHolds == Spec => []OneIssue
<1>1. Init => OneIssue
  BY DEF Init, OneIssue
<1> QED BY <1>1, TypesHold, SingleUseHolds, ConsentHolds, NextOneIssue, PTL DEF Spec

\* Where the line of a ticket is, and what works for it.
LEMMA LineCases ==
  ASSUME NEW t \in TicketId
  PROVE  /\ t \notin DOMAIN tickets => ConsentLine[t] = Consents!Unissued
         /\ t \in DOMAIN tickets =>
              /\ ConsentLine[t] # Consents!Unissued
              /\ \A k : WorksFor(t) = {k} => ConsentLine[t] = Consents!Live(k)
              /\ WorksFor(t) = {} => ConsentLine[t] =
                   IF BeingIssued(t) THEN Consents!Between ELSE Consents!Ended
<1>1. t \notin DOMAIN tickets => WorksFor(t) = {}
  BY DEF WorksFor
<1> QED BY <1>1
        DEF ConsentLine, Consents!Unissued, Consents!Live, Consents!Between, Consents!Ended

LEMMA LineCasesNext ==
  ASSUME NEW t \in TicketId, t \in DOMAIN tickets'
  PROVE  /\ \A k : WorksFor(t)' = {k} => ConsentLine'[t] = Consents!Live(k)
         /\ WorksFor(t)' = {} => ConsentLine'[t] =
              IF BeingIssued(t)' THEN Consents!Between ELSE Consents!Ended
BY DEF ConsentLine, Consents!Live, Consents!Between, Consents!Ended

LEMMA SameLine ==
  ASSUME NEW t \in TicketId,
         t \in DOMAIN tickets' <=> t \in DOMAIN tickets,
         t \in DOMAIN tickets =>
           WorksFor(t)' = WorksFor(t) /\ (BeingIssued(t)' <=> BeingIssued(t))
  PROVE  ConsentLine'[t] = ConsentLine[t]
<1>1. t \notin DOMAIN tickets => WorksFor(t) = {} /\ WorksFor(t)' = {}
  BY DEF WorksFor
<1> QED BY <1>1 DEF ConsentLine

LEMMA LinesAre ==
  /\ ConsentLine = [s \in TicketId |-> ConsentLine[s]]
  /\ ConsentLine' = [s \in TicketId |-> ConsentLine'[s]]
BY DEF ConsentLine

LEMMA OneLineMoves ==
  ASSUME NEW t \in TicketId, NEW x, ConsentLine'[t] = x,
         \A s \in TicketId \ {t} : ConsentLine'[s] = ConsentLine[s]
  PROVE  ConsentLine' = [ConsentLine EXCEPT ![t] = x]
BY LinesAre

LEMMA NoLineMoves ==
  ASSUME \A t \in TicketId : ConsentLine'[t] = ConsentLine[t]
  PROVE  UNCHANGED ConsentLine
BY LinesAre

LEMMA WhatWorks ==
  ASSUME NEW t \in DOMAIN tickets
  PROVE  /\ ~(tickets[t].exp >= now) => WorksFor(t) = {} /\ ~BeingIssued(t)
         /\ tickets[t].exp >= now => \A k :
              k \in WorksFor(t) <=>
                /\ k \notin spent
                /\ \/ k = TicketKey(t)
                   \/ \E c \in CodesOf(t) : codes[c].exp >= now /\ k = CodeKey(c)
BY DEF WorksFor, BeingIssued

LEMMA WhatWorksNext ==
  ASSUME NEW t \in DOMAIN tickets'
  PROVE  /\ ~(tickets'[t].exp >= now') => WorksFor(t)' = {} /\ ~BeingIssued(t)'
         /\ tickets'[t].exp >= now' => \A k :
              k \in WorksFor(t)' <=>
                /\ k \notin spent'
                /\ \/ k = TicketKey(t)
                   \/ \E c \in CodesOf(t)' : codes'[c].exp >= now' /\ k = CodeKey(c)
BY DEF WorksFor, BeingIssued

\* One credential works at a time, and none while the next is being issued.
LEMMA OneWorks ==
  ASSUME LineInv, NEW t \in DOMAIN tickets, NEW k \in WorksFor(t)
  PROVE  WorksFor(t) = {k} /\ ~BeingIssued(t) /\ k \in Key /\ tickets[t].exp >= now
<1>1. tickets[t].exp >= now
  BY WhatWorks
<1>2. IssuedOnce(t) /\ t \in TicketId /\ CodesOf(t) \subseteq CodeId
  BY <1>1 DEF LineInv, OneIssue, TypeInv, TypeOK, CodesOf
<1>3. CASE CodesOf(t) = {}
  <2>1. \A j \in WorksFor(t) : j = TicketKey(t) /\ TicketKey(t) \notin spent
    BY <1>1, <1>3, WhatWorks
  <2> QED BY <1>1, <1>2, <2>1, KeysAreDistinct DEF IssuedOnce, IssuingFor, BeingIssued
<1>4. CASE CodesOf(t) # {}
  <2>1. PICK c \in CodesOf(t) : \A d \in CodesOf(t) : d = c
    BY <1>2, <1>4 DEF IssuedOnce
  <2>2. \A j \in WorksFor(t) : j = CodeKey(c)
    BY <1>1, <1>2, <1>4, <2>1, WhatWorks DEF IssuedOnce
  <2> QED BY <1>1, <1>2, <1>4, <2>1, <2>2, KeysAreDistinct DEF IssuedOnce, IssuingFor, BeingIssued
<1> QED BY <1>3, <1>4

\* A settling step ends lines, by the clock or by a mark, and moves none otherwise.
LEMMA SettlingEndsLines ==
  ASSUME LineInv, Settling
  PROVE  [Consents!Next]_ConsentLine
<1>1. now \in Nat /\ (\A t \in DOMAIN tickets : tickets[t].exp \in Nat)
      /\ \A c \in DOMAIN codes : codes[c].exp \in Nat
  BY DEF LineInv, TypeInv, TypeOK, Ticket, Code
<1>2. ASSUME NEW t \in TicketId
      PROVE  \/ ConsentLine'[t] = ConsentLine[t]
             \/ t \in DOMAIN tickets /\ ConsentLine'[t] = Consents!Ended
  <2>1. CASE t \notin DOMAIN tickets
    BY <2>1, SameLine DEF Settling
  <2>2. CASE t \in DOMAIN tickets
    <3>1. t \in DOMAIN tickets' /\ tickets'[t] = tickets[t] /\ CodesOf(t)' = CodesOf(t)
      BY <2>2 DEF Settling, CodesOf
    <3>2. tickets[t].exp >= now' => tickets[t].exp >= now
      BY <1>1, <2>2 DEF Settling
    <3>3. WorksFor(t)' \subseteq WorksFor(t)
      <4>1. CASE ~(tickets[t].exp >= now')
        BY <2>2, <3>1, <4>1, WhatWorksNext
      <4>2. CASE tickets[t].exp >= now'
        <5>1. \A c \in CodesOf(t) : codes'[c].exp >= now' => codes[c].exp >= now
          BY <1>1 DEF Settling, CodesOf
        <5>2. \A k \in WorksFor(t)' :
                /\ k \notin spent'
                /\ \/ k = TicketKey(t)
                   \/ \E c \in CodesOf(t) : codes'[c].exp >= now' /\ k = CodeKey(c)
          BY <2>2, <3>1, <4>2, WhatWorksNext
        <5>3. \A k \in WorksFor(t)' :
                /\ k \notin spent
                /\ \/ k = TicketKey(t)
                   \/ \E c \in CodesOf(t) : codes[c].exp >= now /\ k = CodeKey(c)
          BY <5>1, <5>2 DEF Settling
        <5> QED BY <2>2, <3>2, <4>2, <5>3, WhatWorks
      <4> QED BY <4>1, <4>2
    <3>4. BeingIssued(t)' => BeingIssued(t)
      BY <3>1, <3>2 DEF BeingIssued, Settling
    <3>5. CASE WorksFor(t)' # {}
      <4>1. WorksFor(t)' = WorksFor(t) /\ ~BeingIssued(t)
        BY <2>2, <3>3, <3>5, OneWorks
      <4> QED BY <2>2, <3>1, <3>4, <4>1, SameLine
    <3>6. CASE WorksFor(t)' = {} /\ BeingIssued(t)'
      <4>1. WorksFor(t) = {}
        BY <2>2, <3>4, <3>6, OneWorks
      <4> QED BY <2>2, <3>1, <3>4, <3>6, <4>1, SameLine
    <3>7. CASE WorksFor(t)' = {} /\ ~BeingIssued(t)'
      BY <2>2, <3>1, <3>7, LineCasesNext
    <3> QED BY <3>5, <3>6, <3>7
  <2> QED BY <2>1, <2>2
<1> DEFINE L == {t \in TicketId : ConsentLine'[t] # ConsentLine[t]}
<1>3. \A t \in L : ConsentLine[t] # Consents!Unissued
  BY <1>2, LineCases
<1>4. \A t \in TicketId : ConsentLine'[t] = IF t \in L THEN Consents!Ended ELSE ConsentLine[t]
  BY <1>2
<1> HIDE DEF L
<1>5. ConsentLine' = [t \in TicketId |-> IF t \in L THEN Consents!Ended ELSE ConsentLine[t]]
  BY <1>4, LinesAre
<1>6. L \in SUBSET TicketId
  BY DEF L
<1>7. Consents!End(L)
  BY <1>3, <1>5 DEF Consents!End
<1> QED BY <1>6, <1>7 DEF Consents!Next

\* A line that a step leaves alone: its codes and their marks, and its requests.
LEMMA LineLeftAlone ==
  ASSUME NEW t \in TicketId, now' = now,
         t \in DOMAIN tickets' <=> t \in DOMAIN tickets,
         t \in DOMAIN tickets => tickets'[t] = tickets[t],
         CodesOf(t)' = CodesOf(t), \A c \in CodesOf(t) : codes'[c] = codes[c],
         TicketKey(t) \in spent' <=> TicketKey(t) \in spent,
         \A c \in CodesOf(t) : CodeKey(c) \in spent' <=> CodeKey(c) \in spent,
         \A q \in Req : IssuingFor(q, t)' <=> IssuingFor(q, t)
  PROVE  ConsentLine'[t] = ConsentLine[t]
<1>1. CASE t \notin DOMAIN tickets
  BY <1>1, SameLine
<1>2. CASE t \in DOMAIN tickets
  <2>1. BeingIssued(t)' <=> BeingIssued(t)
    BY <1>2 DEF BeingIssued, IssuingFor
  <2>2. WorksFor(t)' = WorksFor(t)
    <3>1. CASE ~(tickets[t].exp >= now)
      BY <1>2, <3>1, WhatWorks, WhatWorksNext
    <3>2. CASE tickets[t].exp >= now
      <4>1. \A k : k \in WorksFor(t) <=>
                /\ k \notin spent
                /\ \/ k = TicketKey(t)
                   \/ \E c \in CodesOf(t) : codes[c].exp >= now /\ k = CodeKey(c)
        BY <1>2, <3>2, WhatWorks
      <4>2. \A k : k \in WorksFor(t)' <=>
                /\ k \notin spent'
                /\ \/ k = TicketKey(t)
                   \/ \E c \in CodesOf(t) : codes[c].exp >= now /\ k = CodeKey(c)
        BY <1>2, <3>2, WhatWorksNext
      <4>3. \A k : k \in WorksFor(t)' <=> k \in WorksFor(t)
        BY <4>1, <4>2
      <4>4. \A k : k \in WorksFor(t)' => k \in WorksFor(t)
        BY <4>3
      <4> QED BY <4>3, <4>4
    <3> QED BY <3>1, <3>2
  <2> QED BY <1>2, <2>1, <2>2, SameLine
<1> QED BY <1>1, <1>2

LEMMA AuthorizeUserBeginsALine ==
  ASSUME LineInv, NEW r \in Req, AuthorizeUser(r)
  PROVE  [Consents!Next]_ConsentLine
<1>1. req[r].pc = "authorize" /\ Answer(r) /\ UNCHANGED <<now, spent>>
  BY DEF AuthorizeUser
<1>2. TypeOK /\ TypeInv /\ ConsentInv
  BY DEF LineInv, TypeInv
<1>3. \A t \in TicketId : CodesOf(t)' = CodesOf(t)
  BY <1>2, AuthorizeUserAddsNoCode
<1>4. \A c \in DOMAIN codes : codes'[c] = codes[c]
  BY <1>2, AuthorizeUserIssues DEF Issues, Quiet
<1>5. \A q \in Req, t \in TicketId : IssuingFor(q, t)' <=> IssuingFor(q, t)
  BY <1>1, <1>2, AnswerTyped DEF IssuingFor, Idle, TypeOK, Request
<1>6. ASSUME NEW t \in TicketId, t \in DOMAIN tickets' <=> t \in DOMAIN tickets,
             t \in DOMAIN tickets => tickets'[t] = tickets[t]
      PROVE  ConsentLine'[t] = ConsentLine[t]
  <2>1. \A c \in CodesOf(t) : codes'[c] = codes[c]
    BY <1>4 DEF CodesOf
  <2> QED BY <1>1, <1>3, <1>5, <1>6, <2>1, LineLeftAlone
<1>7. CASE UNCHANGED tickets
  BY <1>6, <1>7, NoLineMoves
<1>8. CASE tickets' # tickets
  <2> DEFINE grant == [offer |-> req[r].offer, user |-> session[req[r].browser]]
  <2>1. IssueTicket(grant) /\ grant \in Grant
    BY <1>1, <1>2, <1>8, OfferTyped DEF AuthorizeUser, SignedIn
  <2> HIDE DEF grant
  <2>2. PICK t \in TicketId \ DOMAIN tickets :
          /\ DOMAIN tickets' = DOMAIN tickets \cup {t}
          /\ tickets'[t] = [grant |-> grant, exp |-> now + TicketTtl]
          /\ \A s \in DOMAIN tickets : tickets'[s] = tickets[s]
    BY <1>2, <2>1, IssueTicketAdds
  <2>3. tickets'[t].exp >= now'
    <3>1. tickets'[t].exp = now + TicketTtl /\ now' = now
      BY <1>1, <2>2
    <3> QED BY <1>2, <3>1, AuthFlowAssumption DEF TypeOK
  <2>4. TicketKey(t) \notin spent' /\ CodesOf(t)' = {}
    BY <1>1, <1>2, <1>3, <2>2, NothingBeforeTheTicket DEF LineInv, SingleUseInv, MarkedIsIssued
  <2>5. \A k : k \in WorksFor(t)' <=> k = TicketKey(t)
    BY <2>2, <2>3, <2>4, WhatWorksNext
  <2>6. WorksFor(t)' = {TicketKey(t)}
    BY <2>5
  <2>7. ConsentLine'[t] = Consents!Live(TicketKey(t)) /\ ConsentLine[t] = Consents!Unissued
    BY <2>2, <2>6, LineCases, LineCasesNext
  <2>8. ConsentLine' = [ConsentLine EXCEPT ![t] = Consents!Live(TicketKey(t))]
    BY <1>6, <2>2, <2>7, OneLineMoves
  <2>9. Consents!Begin(t)
    BY <2>7, <2>8, KeysAreDistinct DEF Consents!Begin
  <2> QED BY <2>9 DEF Consents!Next
<1> QED BY <1>7, <1>8

LEMMA BurnSpendsALine ==
  ASSUME LineInv, NEW r \in Req, ConsentBurn(r), Goto(r, "consent-issue")
  PROVE  [Consents!Next]_ConsentLine
<1>1. req[r].pc = "consent-burn" /\ TypeInv
  BY DEF ConsentBurn, LineInv
<1>2. PICK t \in TicketId :
        /\ t \in DOMAIN tickets /\ t = req[r].ticket
        /\ spent' = spent \cup {TicketKey(t)}
        /\ tickets[t].exp >= now => TicketKey(t) \notin spent
        /\ UNCHANGED <<now, tickets, codes>>
        /\ req'[r].pc = "consent-issue" /\ req'[r].ticket = t
        /\ \A q \in Req \ {r} : req'[q] = req[q]
  BY <1>1, ApprovedBurn
<1>3. \A s \in TicketId : CodesOf(s)' = CodesOf(s) /\ CodesOf(s) \subseteq CodeId
  BY <1>1, <1>2 DEF CodesOf, TypeInv, TypeOK
<1>4. ASSUME NEW s \in TicketId \ {t}
      PROVE  ConsentLine'[s] = ConsentLine[s]
  <2>1. \A q \in Req : IssuingFor(q, s)' <=> IssuingFor(q, s)
    BY <1>1, <1>2 DEF IssuingFor
  <2>2. TicketKey(s) # TicketKey(t) /\ \A c \in CodesOf(s) : CodeKey(c) # TicketKey(t)
    BY <1>3, KeysAreDistinct
  <2>3. /\ TicketKey(s) \in spent' <=> TicketKey(s) \in spent
        /\ \A c \in CodesOf(s) : CodeKey(c) \in spent' <=> CodeKey(c) \in spent
    BY <1>2, <2>2
  <2> QED BY <1>2, <1>3, <2>1, <2>3, LineLeftAlone
<1>5. CASE tickets[t].exp >= now
  <2>1. TicketKey(t) \in WorksFor(t)
    BY <1>2, <1>5, WhatWorks
  <2>2. WorksFor(t) = {TicketKey(t)}
    BY <1>2, <2>1, OneWorks
  <2>3. CodesOf(t) = {}
    BY <1>2, <1>5 DEF LineInv, OneIssue, IssuedOnce
  <2>4. ConsentLine[t].at = "live"
    <3>1. ConsentLine[t] = Consents!Live(TicketKey(t))
      BY <1>2, <2>2, LineCases
    <3> QED BY <3>1 DEF Consents!Live
  <2>5. WorksFor(t)' = {} /\ BeingIssued(t)'
    <3>1. t \in DOMAIN tickets' /\ tickets'[t].exp >= now' /\ CodesOf(t)' = {}
      BY <1>2, <1>3, <1>5, <2>3
    <3>2. \A k : k \notin WorksFor(t)'
      BY <1>2, <3>1, WhatWorksNext
    <3> QED BY <1>2, <3>1, <3>2 DEF BeingIssued
  <2>6. ConsentLine'[t] = Consents!Between
    BY <1>2, <2>5, LineCasesNext
  <2>7. ConsentLine' = [ConsentLine EXCEPT ![t] = Consents!Between]
    BY <1>4, <2>6, OneLineMoves
  <2> QED BY <2>4, <2>7 DEF Consents!Next, Consents!Spend
<1>6. CASE ~(tickets[t].exp >= now)
  <2>1. /\ WorksFor(t) = {} /\ ~BeingIssued(t)
        /\ WorksFor(t)' = {} /\ ~BeingIssued(t)'
    BY <1>2, <1>6, WhatWorks, WhatWorksNext
  <2>2. ConsentLine'[t] = ConsentLine[t]
    BY <1>2, <2>1, SameLine
  <2> QED BY <1>4, <2>2, NoLineMoves
<1> QED BY <1>5, <1>6

LEMMA IssueReplacesInALine ==
  ASSUME LineInv, NEW r \in Req, ConsentIssue(r)
  PROVE  [Consents!Next]_ConsentLine
<1>1. TypeInv
  BY DEF LineInv
<1>2. PICK c \in CodeId \ DOMAIN codes, t \in DOMAIN tickets :
        /\ IssuingFor(r, t) /\ t \in TicketId
        /\ CodesOf(t)' = CodesOf(t) \cup {c}
        /\ \A s \in TicketId \ {t} : CodesOf(s)' = CodesOf(s)
        /\ codes'[c].exp >= now
        /\ \A d \in DOMAIN codes : d \in DOMAIN codes' /\ codes'[d] = codes[d]
        /\ UNCHANGED <<now, spent, tickets>>
        /\ \A q \in Req \ {r} : req'[q] = req[q]
        /\ req'[r] = Idle
  BY <1>1, IssuedCode
<1>3. ASSUME NEW s \in TicketId \ {t}
      PROVE  ConsentLine'[s] = ConsentLine[s]
  <2>1. \A q \in Req : IssuingFor(q, s)' <=> IssuingFor(q, s)
    BY <1>2 DEF IssuingFor, Idle
  <2>2. \A d \in CodesOf(s) : codes'[d] = codes[d]
    BY <1>2 DEF CodesOf
  <2> QED BY <1>2, <2>1, <2>2, LineLeftAlone
<1>4. CASE tickets[t].exp >= now
  <2>1. TicketKey(t) \in spent /\ CodesOf(t) = {}
    BY <1>2, <1>4 DEF LineInv, OneIssue, IssuedOnce
  <2>2. WorksFor(t) = {} /\ BeingIssued(t)
    <3>1. \A k : k \notin WorksFor(t)
      BY <1>4, <2>1, WhatWorks
    <3> QED BY <1>2, <1>4, <3>1 DEF BeingIssued, IssuingFor
  <2>3. ConsentLine[t] = Consents!Between
    BY <1>2, <2>2, LineCases
  <2>4. CodeKey(c) \notin spent' /\ CodesOf(t)' = {c}
    BY <1>2, <2>1 DEF LineInv, SingleUseInv, MarkedIsIssued
  <2>5. \A k : k \in WorksFor(t)' <=> k = CodeKey(c)
    <3>1. t \in DOMAIN tickets' /\ tickets'[t].exp >= now' /\ TicketKey(t) \in spent'
          /\ codes'[c].exp >= now'
      BY <1>2, <1>4, <2>1
    <3> QED BY <2>4, <3>1, WhatWorksNext
  <2>6. WorksFor(t)' = {CodeKey(c)}
    BY <2>5
  <2>7. ConsentLine'[t] = Consents!Live(CodeKey(c))
    BY <1>2, <2>6, LineCasesNext
  <2>8. ConsentLine' = [ConsentLine EXCEPT ![t] = Consents!Live(CodeKey(c))]
    BY <1>2, <1>3, <2>7, OneLineMoves
  <2>9. Consents!Replace(t)
    BY <2>3, <2>8, KeysAreDistinct DEF Consents!Replace
  <2> QED BY <1>2, <2>9 DEF Consents!Next
<1>5. CASE ~(tickets[t].exp >= now)
  <2>1. /\ WorksFor(t) = {} /\ ~BeingIssued(t)
        /\ WorksFor(t)' = {} /\ ~BeingIssued(t)'
    BY <1>2, <1>5, WhatWorks, WhatWorksNext
  <2>2. ConsentLine'[t] = ConsentLine[t]
    BY <1>2, <2>1, SameLine
  <2> QED BY <1>3, <2>2, NoLineMoves
<1> QED BY <1>4, <1>5

LEMMA InitUnissued == Init => Consents!Init
<1> SUFFICES ASSUME Init PROVE Consents!Init
  OBVIOUS
<1>1. DOMAIN tickets = {}
  BY DEF Init
<1>2. \A t \in TicketId : ConsentLine[t] = Consents!Unissued
  BY <1>1, LineCases
<1> QED BY <1>2, LinesAre DEF Consents!Init

(***************************************************************************)
(* A consent is one line, from the ticket over the one request that issues *)
(* its code to the one code, and when it has ended it never comes back,    *)
(* while the ticket is unexpired: /authorize, /consent and /token          *)
(* implement CredentialLine, for any number of requests that race.         *)
(***************************************************************************)
THEOREM OneLinePerConsent == Spec => ConsentIsOneLine
<1>1. LineInv /\ [Next]_vars => [Consents!Next]_ConsentLine
  <2>1. LineInv /\ [Next]_vars =>
          \/ Settling
          \/ \E r \in Req : \/ AuthorizeUser(r) \/ ConsentIssue(r)
                            \/ ConsentBurn(r) /\ Goto(r, "consent-issue")
    BY SettlingOrNot DEF LineInv
  <2> QED BY <2>1, SettlingEndsLines, AuthorizeUserBeginsALine, BurnSpendsALine,
             IssueReplacesInALine
<1>2. TypeInv /\ SingleUseInv /\ ConsentInv /\ OneIssue => LineInv
  BY DEF LineInv
<1> QED BY <1>1, <1>2, InitUnissued, TypesHold, SingleUseHolds, ConsentHolds, OneIssueHolds, PTL
        DEF Spec, ConsentIsOneLine, Consents!Spec

=============================================================================
