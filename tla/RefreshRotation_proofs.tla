----------------------- MODULE RefreshRotation_proofs -----------------------
(***************************************************************************)
(* Rotation and revocation for any number of requests, users, clients and  *)
(* refresh tokens, chains of any length, any lifetime, and any store that  *)
(* keeps the contract of SingleUse.                                        *)
(***************************************************************************)
EXTENDS RefreshRotation, FiniteSetTheorems, TLAPS

-----------------------------------------------------------------------------
(* Requests. *)

Request == {Idle} \cup RotateRequest \cup RevokeRequest

RotatePc == {"active", "burn", "mint"}

LEMMA KindOfRequest ==
  ASSUME NEW q \in Request
  PROVE  /\ q.pc \in RotatePc => q \in RotateRequest
         /\ q.pc = "revoke" => q \in RevokeRequest
         /\ q # Idle => q.pc \in RotatePc \cup {"revoke"}
BY DEF Request, Idle, RotateRequest, RevokeRequest, RotatePc

(***************************************************************************)
(* The token of a request was issued, to the client of the request, with   *)
(* the scopes it asks for: that is what the checks before the first await  *)
(* establish, and no later step alters a token.                            *)
(***************************************************************************)
InFlight ==
  \A r \in Req :
    /\ req[r] # Idle => /\ req[r].token \in DOMAIN refresh
                        /\ req[r].client = refresh[req[r].token].client
    /\ req[r].pc \in RotatePc => req[r].scopes \subseteq refresh[req[r].token].scopes

\* Every rotation under way finds a jti for its successor.
JtiEnough == Cardinality(Rotating) <= Cardinality(TokenId \ DOMAIN refresh)

TypeInv == TypeOK /\ InFlight /\ JtiEnough

LEMMA RotatingFinite ==
  /\ IsFiniteSet(Rotating) /\ Cardinality(Rotating) \in Nat
  /\ IsFiniteSet(TokenId \ DOMAIN refresh) /\ Cardinality(TokenId \ DOMAIN refresh) \in Nat
BY RefreshRotationAssumption, FS_Subset, FS_CardinalityType DEF Rotating

LEMMA RotatingShrinks ==
  ASSUME Rotating' \subseteq Rotating
  PROVE  /\ Cardinality(Rotating') \in Nat
         /\ Cardinality(Rotating') <= Cardinality(Rotating)
BY RotatingFinite, FS_Subset, FS_CardinalityType

LEMMA AnswerTyped ==
  ASSUME TypeOK, NEW r \in Req, Answer(r)
  PROVE  /\ req' \in [Req -> Request]
         /\ req'[r] = Idle
         /\ \A s \in Req \ {r} : req'[s] = req[s]
         /\ Rotating' = Rotating \ {r}
<1>1. req' \in [Req -> Request] /\ req'[r] = Idle /\ \A s \in Req \ {r} : req'[s] = req[s]
  BY DEF Answer, Request, TypeOK
<1>2. Idle.pc \notin RotatePc
  BY DEF Idle, RotatePc
<1> QED BY <1>1, <1>2 DEF Rotating, RotatePc

LEMMA GotoTyped ==
  ASSUME TypeOK, NEW r \in Req, req[r].pc \in RotatePc, NEW pc \in RotatePc, Goto(r, pc)
  PROVE  /\ req' \in [Req -> Request]
         /\ req'[r] = [req[r] EXCEPT !.pc = pc]
         /\ req[r] \in RotateRequest /\ req'[r] \in RotateRequest
         /\ req'[r].pc = pc /\ req'[r].token = req[r].token
         /\ req'[r].client = req[r].client /\ req'[r].scopes = req[r].scopes
         /\ \A s \in Req \ {r} : req'[s] = req[s]
         /\ Rotating' = Rotating
<1>1. req[r] \in RotateRequest
  BY KindOfRequest DEF TypeOK, Request
<1>2. [req[r] EXCEPT !.pc = pc] \in RotateRequest
  BY <1>1 DEF RotateRequest, RotatePc
<1>3. /\ [req[r] EXCEPT !.pc = pc].pc = pc
      /\ [req[r] EXCEPT !.pc = pc].token = req[r].token
      /\ [req[r] EXCEPT !.pc = pc].client = req[r].client
      /\ [req[r] EXCEPT !.pc = pc].scopes = req[r].scopes
  BY <1>1 DEF RotateRequest
<1>4. /\ req' \in [Req -> Request]
      /\ req'[r] = [req[r] EXCEPT !.pc = pc]
      /\ \A s \in Req \ {r} : req'[s] = req[s]
  BY <1>2 DEF Goto, Request, TypeOK
<1>5. Rotating' = Rotating
  BY <1>3, <1>4 DEF Rotating, RotatePc
<1> QED BY <1>1, <1>2, <1>3, <1>4, <1>5

LEMMA TokenTyped ==
  ASSUME TypeInv, NEW r \in Req, req[r] # Idle
  PROVE  /\ req[r].token \in DOMAIN refresh
         /\ req[r].token \in TokenId
         /\ refresh[req[r].token] \in Payload
         /\ req[r].client = refresh[req[r].token].client
         /\ JtiKey(req[r].token) \in Key
BY DEF TypeInv, InFlight, TypeOK, Key, JtiKey

-----------------------------------------------------------------------------
(* Signing a token adds it under a new jti, and alters no other.           *)

Signs(t, p) ==
  /\ t \in TokenId \ DOMAIN refresh
  /\ DOMAIN refresh' = DOMAIN refresh \cup {t}
  /\ refresh'[t] = p
  /\ \A s \in DOMAIN refresh : refresh'[s] = refresh[s]

LEMMA PutSigns ==
  ASSUME TypeOK, Cardinality(TokenId \ DOMAIN refresh) > 0,
         NEW p \in Payload, refresh' = Put(refresh, FreshJti, p)
  PROVE  /\ Signs(FreshJti, p)
         /\ refresh' \in [DOMAIN refresh' -> Payload]
         /\ Cardinality(TokenId \ DOMAIN refresh') = Cardinality(TokenId \ DOMAIN refresh) - 1
<1>1. TokenId \ DOMAIN refresh # {}
  BY FS_EmptySet
<1>2. FreshJti \in TokenId \ DOMAIN refresh
  BY <1>1 DEF FreshJti
<1> DEFINE t == FreshJti
<1>3. refresh' = Put(refresh, t, p) /\ t \in TokenId \ DOMAIN refresh
  BY <1>2
<1> HIDE DEF t
<1>4. Signs(t, p) /\ refresh' \in [DOMAIN refresh' -> Payload]
  BY <1>3 DEF Signs, Put, TypeOK
<1>5. TokenId \ DOMAIN refresh' = (TokenId \ DOMAIN refresh) \ {t}
  BY <1>4 DEF Signs
<1>6. Cardinality((TokenId \ DOMAIN refresh) \ {t}) = Cardinality(TokenId \ DOMAIN refresh) - 1
  BY <1>3, RotatingFinite, FS_RemoveElement
<1> QED BY <1>4, <1>5, <1>6 DEF t

LEMMA IssueSigns ==
  ASSUME TypeInv, NEW u \in User, NEW c \in Client, NEW res \in Resource,
         NEW scopes \in SUBSET ScopeName, IssueGrant(u, c, res, scopes)
  PROVE  /\ FirstToken(FreshJti, u, c, res, scopes) \in Payload
         /\ Signs(FreshJti, FirstToken(FreshJti, u, c, res, scopes))
         /\ refresh' \in [DOMAIN refresh' -> Payload]
         /\ Cardinality(Rotating) <= Cardinality(TokenId \ DOMAIN refresh')
<1> DEFINE p == FirstToken(FreshJti, u, c, res, scopes)
<1>1. Cardinality(TokenId \ DOMAIN refresh) > Cardinality(Rotating)
  BY DEF IssueGrant, JtiLeft
<1>2. FreshJti \in TokenId
  BY <1>1, RotatingFinite, FS_EmptySet DEF FreshJti
<1>3. p \in Payload
  BY <1>2, RefreshRotationAssumption DEF FirstToken, Payload, TypeInv, TypeOK
<1>4. refresh' = Put(refresh, FreshJti, p)
  BY DEF IssueGrant
<1> HIDE DEF p
<1>5. TypeOK /\ Cardinality(TokenId \ DOMAIN refresh) > 0
  BY <1>1, RotatingFinite DEF TypeInv
<1>6. /\ Signs(FreshJti, p)
      /\ refresh' \in [DOMAIN refresh' -> Payload]
      /\ Cardinality(TokenId \ DOMAIN refresh') = Cardinality(TokenId \ DOMAIN refresh) - 1
  BY <1>3, <1>4, <1>5, PutSigns
<1> QED BY <1>1, <1>3, <1>6, RotatingFinite DEF p

LEMMA MintSigns ==
  ASSUME TypeInv, NEW r \in Req, RotateMint(r)
  PROVE  /\ Successor(r) \in Payload
         /\ Signs(FreshJti, Successor(r))
         /\ refresh' \in [DOMAIN refresh' -> Payload]
         /\ Cardinality(Rotating') <= Cardinality(TokenId \ DOMAIN refresh')
<1>1. r \in Rotating /\ req[r] # Idle
  BY DEF RotateMint, Rotating, Idle
<1>2. Cardinality(Rotating \ {r}) = Cardinality(Rotating) - 1 /\ Cardinality(Rotating) > 0
  BY <1>1, RotatingFinite, FS_RemoveElement, FS_EmptySet
<1>3. Rotating' = Rotating \ {r}
  BY AnswerTyped DEF RotateMint, TypeInv
<1>4. Cardinality(TokenId \ DOMAIN refresh) > 0
  BY <1>2, RotatingFinite DEF TypeInv, JtiEnough
<1> DEFINE p == Successor(r)
<1>5. p \in Payload
  BY <1>1, TokenTyped DEF Successor, Payload
<1>6. refresh' = Put(refresh, FreshJti, p)
  BY DEF RotateMint, Mints
<1> HIDE DEF p
<1>7. /\ Signs(FreshJti, p)
      /\ refresh' \in [DOMAIN refresh' -> Payload]
      /\ Cardinality(TokenId \ DOMAIN refresh') = Cardinality(TokenId \ DOMAIN refresh) - 1
  BY <1>4, <1>5, <1>6, PutSigns DEF TypeInv
<1> QED BY <1>2, <1>3, <1>5, <1>7, RotatingFinite DEF TypeInv, JtiEnough, p

-----------------------------------------------------------------------------
(* Types are inductive, together with InFlight and JtiEnough.              *)

LEMMA InitTypeInv == Init => TypeInv
<1> SUFFICES ASSUME Init PROVE TypeInv
  OBVIOUS
<1>1. TypeOK
  BY RefreshRotationAssumption DEF Init, TypeOK
<1>2. InFlight /\ Rotating = {}
  BY DEF Init, InFlight, Rotating, Idle, RotatePc
<1>3. JtiEnough
  BY <1>2, RotatingFinite, FS_EmptySet DEF JtiEnough
<1> QED BY <1>1, <1>2, <1>3 DEF TypeInv

(***************************************************************************)
(* What the steps do to the requests: nothing, end one, or advance one.    *)
(* Tokens are never altered meanwhile.                                     *)
(***************************************************************************)
TokensStay == \A t \in DOMAIN refresh : t \in DOMAIN refresh' /\ refresh'[t] = refresh[t]

LEMMA SignsStay ==
  ASSUME NEW t, NEW p, Signs(t, p)
  PROVE  TokensStay
BY DEF Signs, TokensStay

LEMMA InFlightAnswer ==
  ASSUME TypeInv, NEW r \in Req, Answer(r), TokensStay
  PROVE  InFlight'
BY AnswerTyped DEF TypeInv, InFlight, TokensStay, Idle, RotatePc

LEMMA InFlightGoto ==
  ASSUME TypeInv, NEW r \in Req, req[r].pc \in RotatePc, NEW pc \in RotatePc, Goto(r, pc),
         TokensStay
  PROVE  InFlight'
<1>1. req[r] # Idle
  BY DEF Idle, RotatePc
<1>2. /\ req'[r].pc = pc /\ req'[r].token = req[r].token
      /\ req'[r].client = req[r].client /\ req'[r].scopes = req[r].scopes
      /\ \A s \in Req \ {r} : req'[s] = req[s]
  BY GotoTyped DEF TypeInv
<1>3. \A s \in Req : req'[s] # Idle => req[s] # Idle /\ req'[s].token = req[s].token
                                     /\ req'[s].client = req[s].client
  BY <1>1, <1>2
<1>4. \A s \in Req : req'[s].pc \in RotatePc =>
        req[s].pc \in RotatePc /\ req'[s].token = req[s].token /\ req'[s].scopes = req[s].scopes
  BY <1>2
<1>5. \A s \in Req : req[s].pc \in RotatePc => req[s] # Idle
  BY DEF Idle, RotatePc
<1> QED BY <1>3, <1>4, <1>5 DEF TypeInv, InFlight, TokensStay

LEMMA NextTypeInv == TypeInv /\ [Next]_vars => TypeInv'
<1> SUFFICES ASSUME TypeInv, [Next]_vars PROVE TypeInv'
  OBVIOUS
<1>1. CASE Tick
  BY <1>1, RefreshRotationAssumption
     DEF Tick, history, TypeInv, TypeOK, InFlight, JtiEnough, Rotating
<1>2. ASSUME NEW u \in User, SetActive(u) PROVE TypeInv'
  <2>1. PastTheCheck(u) \subseteq Req /\ RotatedFor(u) \subseteq TokenId
    BY DEF PastTheCheck, RotatedFor, TypeInv, TypeOK
  <2>2. Cardinality(PastTheCheck(u)) \in Nat /\ Cardinality(RotatedFor(u)) \in Nat
    BY <2>1, RefreshRotationAssumption, FS_Subset, FS_CardinalityType
  <2>3. allowed' \in [User -> Nat]
    BY <1>2, <2>2 DEF SetActive, TypeInv, TypeOK
  <2> QED BY <1>2, <2>3 DEF SetActive, TypeInv, TypeOK, InFlight, JtiEnough, Rotating
<1>3. ASSUME NEW u \in User, NEW c \in Client, NEW res \in Resource,
             NEW scopes \in SUBSET ScopeName, IssueGrant(u, c, res, scopes)
      PROVE  TypeInv'
  <2>1. /\ FirstToken(FreshJti, u, c, res, scopes) \in Payload
        /\ Signs(FreshJti, FirstToken(FreshJti, u, c, res, scopes))
        /\ refresh' \in [DOMAIN refresh' -> Payload]
        /\ Cardinality(Rotating) <= Cardinality(TokenId \ DOMAIN refresh')
    BY <1>3, IssueSigns
  <2>2. UNCHANGED <<now, spent, active, req, accepted, revoked, failed, allowed>>
    BY <1>3 DEF IssueGrant, history
  <2>3. access' \subseteq Access
    BY <1>3, <2>1 DEF IssueGrant, AccessFor, Access, Payload, FirstToken, TypeInv, TypeOK
  <2>4. InFlight'
    <3>1. TokensStay
      BY <2>1, SignsStay
    <3>2. \A r \in Req : req[r].pc \in RotatePc => req[r] # Idle
      BY DEF Idle, RotatePc
    <3> QED BY <2>2, <3>1, <3>2 DEF TokensStay, TypeInv, InFlight
  <2>5. JtiEnough'
    BY <2>1, <2>2 DEF JtiEnough, Rotating
  <2>6. DOMAIN refresh' \subseteq TokenId
    BY <2>1 DEF Signs, TypeInv, TypeOK
  <2> QED BY <2>1, <2>2, <2>3, <2>4, <2>5, <2>6 DEF TypeInv, TypeOK
<1>4. ASSUME NEW r \in Req, NEW t \in TokenId, NEW client \in Client, NEW res \in Resource,
             NEW wanted \in SUBSET ScopeName, RotateRead(r, t, client, res, wanted)
      PROVE  TypeInv'
  <2> DEFINE new == [pc |-> "active", token |-> t, client |-> client,
                     scopes |-> NarrowedScopes(refresh[t].scopes, wanted)]
  <2>1. t \in DOMAIN refresh /\ refresh[t] \in Payload
    BY <1>4 DEF RotateRead, Readable, TypeInv, TypeOK
  <2>2. /\ new \in RotateRequest /\ new.pc = "active" /\ new.token = t /\ new.client = client
        /\ new.scopes \subseteq refresh[t].scopes
    BY <1>4, <2>1 DEF RotateRead, RotateRequest, NarrowedScopes, Payload
  <2>3. /\ req' = [req EXCEPT ![r] = new] /\ req[r] = Idle /\ client = refresh[t].client
        /\ Cardinality(TokenId \ DOMAIN refresh) > Cardinality(Rotating)
        /\ UNCHANGED <<now, spent, active, refresh, access, accepted, revoked, failed, allowed>>
    BY <1>4 DEF RotateRead, JtiLeft, OwnedBy
  <2> HIDE DEF new
  <2>4. Rotating' = Rotating \cup {r}
    BY <2>2, <2>3 DEF Rotating, TypeInv, TypeOK
  <2>5. Cardinality(Rotating \cup {r}) <= Cardinality(Rotating) + 1
    <3>1. IsFiniteSet(Rotating) /\ Cardinality(Rotating) \in Nat
      BY RotatingFinite
    <3>2. Cardinality(Rotating \cup {r})
            = IF r \in Rotating THEN Cardinality(Rotating) ELSE Cardinality(Rotating) + 1
      BY <3>1, FS_AddElement
    <3> QED BY <3>1, <3>2
  <2>6. JtiEnough'
    <3>1. Cardinality(Rotating \cup {r}) \in Nat
      BY RotatingFinite, FS_AddElement, FS_CardinalityType
    <3>2. Cardinality(Rotating') <= Cardinality(TokenId \ DOMAIN refresh)
      BY <2>3, <2>4, <2>5, <3>1, RotatingFinite
    <3> QED BY <2>3, <3>2 DEF JtiEnough
  <2>7. InFlight'
    BY <2>1, <2>2, <2>3 DEF InFlight, TypeInv, TypeOK
  <2> QED BY <2>2, <2>3, <2>6, <2>7 DEF TypeInv, TypeOK
<1>5. ASSUME NEW r \in Req, NEW t \in TokenId, NEW client \in Client, RevokeRead(r, t, client)
      PROVE  TypeInv'
  <2> DEFINE new == [pc |-> "revoke", token |-> t, client |-> client]
  <2>1. new \in RevokeRequest /\ new.pc = "revoke" /\ new.token = t /\ new.client = client
    BY DEF RevokeRequest
  <2>2. /\ req' = [req EXCEPT ![r] = new] /\ req[r] = Idle /\ client = refresh[t].client
        /\ t \in DOMAIN refresh
        /\ UNCHANGED <<now, spent, active, refresh, access, accepted, revoked, failed, allowed>>
    BY <1>5 DEF RevokeRead, Readable, OwnedBy
  <2> HIDE DEF new
  <2>3. Rotating' = Rotating
    BY <2>1, <2>2 DEF Rotating, TypeInv, TypeOK, Idle
  <2>4. InFlight'
    BY <2>1, <2>2 DEF InFlight, TypeInv, TypeOK, RotatePc
  <2> QED BY <2>1, <2>2, <2>3, <2>4 DEF TypeInv, TypeOK, JtiEnough
<1>6. ASSUME NEW r \in Req, RotateActive(r) PROVE TypeInv'
  <2>1. /\ req[r].pc = "active" /\ (Goto(r, "burn") \/ Answer(r))
        /\ UNCHANGED <<now, spent, active, refresh, access, accepted, revoked, failed, allowed>>
    BY <1>6 DEF RotateActive, history
  <2>2. TokensStay
    BY <2>1 DEF TokensStay
  <2>3. req' \in [Req -> Request] /\ Rotating' \subseteq Rotating /\ InFlight'
    <3>1. CASE Answer(r)
      BY <2>2, <3>1, AnswerTyped, InFlightAnswer DEF TypeInv
    <3>2. CASE Goto(r, "burn")
      BY <2>1, <2>2, <3>2, GotoTyped, InFlightGoto DEF TypeInv, RotatePc
    <3> QED BY <2>1, <3>1, <3>2
  <2>4. JtiEnough'
    BY <2>1, <2>3, RotatingShrinks, RotatingFinite DEF JtiEnough, TypeInv
  <2> QED BY <2>1, <2>3, <2>4 DEF TypeInv, TypeOK, Request
<1>7. ASSUME NEW r \in Req, RotateBurn(r) PROVE TypeInv'
  <2>1. /\ req[r].pc = "burn" /\ (Goto(r, "mint") \/ Answer(r))
        /\ UNCHANGED <<now, active, refresh, access, revoked, failed, allowed>>
    BY <1>7 DEF RotateBurn
  <2>2. TokensStay
    BY <2>1 DEF TokensStay
  <2>3. req' \in [Req -> Request] /\ Rotating' \subseteq Rotating /\ InFlight'
    <3>1. CASE Answer(r)
      BY <2>2, <3>1, AnswerTyped, InFlightAnswer DEF TypeInv
    <3>2. CASE Goto(r, "mint")
      BY <2>1, <2>2, <3>2, GotoTyped, InFlightGoto DEF TypeInv, RotatePc
    <3> QED BY <2>1, <3>1, <3>2
  <2>4. JtiEnough'
    BY <2>1, <2>3, RotatingShrinks, RotatingFinite DEF JtiEnough, TypeInv
  <2>5. req[r].token \in TokenId /\ JtiKey(req[r].token) \in Key
    BY <2>1, TokenTyped DEF Idle
  <2>6. spent' \subseteq Key /\ accepted' \in [TokenId -> Nat]
    BY <1>7, <2>5 DEF RotateBurn, BurnRefresh, Consume, TypeInv, TypeOK
  <2> QED BY <2>1, <2>3, <2>4, <2>6 DEF TypeInv, TypeOK, Request
<1>8. ASSUME NEW r \in Req, RotateMint(r) PROVE TypeInv'
  <2>1. /\ req[r] # Idle /\ req[r].pc \in RotatePc /\ Answer(r)
        /\ UNCHANGED <<now, spent, active, accepted, revoked, failed, allowed>>
    BY <1>8 DEF RotateMint, Idle, RotatePc, history
  <2>2. /\ Successor(r) \in Payload /\ Signs(FreshJti, Successor(r))
        /\ refresh' \in [DOMAIN refresh' -> Payload]
        /\ Cardinality(Rotating') <= Cardinality(TokenId \ DOMAIN refresh')
    BY <1>8, MintSigns
  <2>3. DOMAIN refresh' \subseteq TokenId
    BY <2>2 DEF Signs, TypeInv, TypeOK
  <2>4. req' \in [Req -> Request] /\ InFlight'
    BY <2>1, <2>2, SignsStay, AnswerTyped, InFlightAnswer DEF TypeInv
  <2>5. req[r] \in RotateRequest /\ refresh[req[r].token] \in Payload
    BY <2>1, TokenTyped, KindOfRequest DEF TypeInv, TypeOK, Request
  <2>7. AccessFor(refresh[req[r].token], req[r].client, req[r].scopes) \in Access
    BY <2>5 DEF AccessFor, Access, Payload, RotateRequest
  <2>8. access' \subseteq Access
    BY <1>8, <2>7 DEF RotateMint, Mints, TypeInv, TypeOK
  <2> QED BY <2>1, <2>2, <2>3, <2>4, <2>8 DEF TypeInv, TypeOK, Request, JtiEnough
<1>9. ASSUME NEW r \in Req, RevokeBurn(r) PROVE TypeInv'
  <2>1. /\ req[r].pc = "revoke" /\ Answer(r)
        /\ UNCHANGED <<now, active, refresh, access, accepted, failed, allowed>>
    BY <1>9 DEF RevokeBurn
  <2>2. req[r].token \in TokenId /\ JtiKey(req[r].token) \in Key
    BY <2>1, TokenTyped DEF Idle
  <2>3. spent' \subseteq Key /\ revoked' \subseteq TokenId
    BY <1>9, <2>2 DEF RevokeBurn, BurnRefresh, Consume, TypeInv, TypeOK
  <2>4. req' \in [Req -> Request] /\ Rotating' \subseteq Rotating /\ InFlight'
    BY <2>1, AnswerTyped, InFlightAnswer DEF TypeInv, TokensStay
  <2>5. JtiEnough'
    BY <2>1, <2>4, RotatingShrinks, RotatingFinite DEF JtiEnough, TypeInv
  <2> QED BY <2>1, <2>3, <2>4, <2>5 DEF TypeInv, TypeOK, Request
<1>10. ASSUME NEW r \in Req, Fails(r) PROVE TypeInv'
  <2>1. /\ Answer(r)
        /\ UNCHANGED <<now, spent, active, refresh, access, accepted, revoked, allowed>>
    BY <1>10 DEF Fails
  <2>2. failed' \in [TokenId -> Nat]
    <3>1. req[r].token \in TokenId
      BY <1>10, TokenTyped DEF Fails
    <3> QED BY <1>10, <3>1 DEF Fails, TypeInv, TypeOK
  <2>3. req' \in [Req -> Request] /\ Rotating' \subseteq Rotating /\ InFlight'
    BY <2>1, AnswerTyped, InFlightAnswer DEF TypeInv, TokensStay
  <2>4. JtiEnough'
    BY <2>1, <2>3, RotatingShrinks, RotatingFinite DEF JtiEnough, TypeInv
  <2> QED BY <2>1, <2>2, <2>3, <2>4 DEF TypeInv, TypeOK, Request
<1>11. ASSUME NEW r \in Req, StoreThrows(r) PROVE TypeInv'
  <2>1. /\ Answer(r) /\ req[r] # Idle
        /\ UNCHANGED <<now, active, refresh, access, accepted, revoked, failed, allowed>>
    BY <1>11 DEF StoreThrows, history, Idle
  <2>2. spent' \subseteq Key
    BY <1>11, <2>1, TokenTyped DEF StoreThrows, ConsumeThrows, TypeInv, TypeOK
  <2>3. req' \in [Req -> Request] /\ Rotating' \subseteq Rotating /\ InFlight'
    BY <2>1, AnswerTyped, InFlightAnswer DEF TypeInv, TokensStay
  <2>4. JtiEnough'
    BY <2>1, <2>3, RotatingShrinks, RotatingFinite DEF JtiEnough, TypeInv
  <2> QED BY <2>1, <2>2, <2>3, <2>4 DEF TypeInv, TypeOK, Request
<1>12. CASE UNCHANGED vars
  BY <1>12 DEF vars, TypeInv, TypeOK, InFlight, JtiEnough, Rotating
<1> QED
  BY <1>1, <1>2, <1>3, <1>4, <1>5, <1>6, <1>7, <1>8, <1>9, <1>10, <1>11, <1>12
     DEF Next, Arrive, Continue

(* Types: in every reachable state, for every choice of the constants.     *)
THEOREM TypeCorrect == Spec => []TypeOK
<1>1. TypeInv => TypeOK
  BY DEF TypeInv
<1> QED BY InitTypeInv, NextTypeInv, <1>1, PTL DEF Spec

-----------------------------------------------------------------------------
(* The grant.                                                              *)

(***************************************************************************)
(* A grant does not fork: of all the refresh tokens that descend from one  *)
(* code exchange, at most one can still be used.  refresh.ts rotates by    *)
(* burning the old token before it signs the next.                         *)
(***************************************************************************)
OneUsableTokenPerGrant ==
  \A t, s \in DOMAIN refresh :
    /\ refresh[t].root = refresh[s].root
    /\ Usable(t) /\ Usable(s)
    => t = s

(***************************************************************************)
(* Why it does not fork: among the tokens of one grant and the rotations   *)
(* of it that have burned a token but not yet signed the next, at most one *)
(* is alive.  A burn that is answered fresh turns the one usable token     *)
(* into such a rotation, and the mint turns that into the next token.  All *)
(* tokens of a grant expire together, so past the expiry nothing is left   *)
(* to claim.                                                               *)
(***************************************************************************)
Minting(r) == req[r].pc = "mint"

Root(r) == refresh[req[r].token].root

OneLine ==
  /\ OneUsableTokenPerGrant
  /\ \A r \in Req, t \in DOMAIN refresh : Minting(r) /\ refresh[t].root = Root(r) => ~Usable(t)
  /\ \A r, q \in Req : Minting(r) /\ Minting(q) /\ Root(r) = Root(q)
                         /\ refresh[req[r].token].exp >= now => r = q

MarkedIsIssued == \A t \in TokenId : JtiKey(t) \in spent => t \in DOMAIN refresh

RevokedIsMarked == \A t \in revoked : JtiKey(t) \in spent

GrantInv == RotationPreservesTheGrant /\ OneLine /\ MarkedIsIssued

LEMMA KeysAreDistinct == \A t, s : JtiKey(t) = JtiKey(s) => t = s
BY DEF JtiKey

\* What a token shares with the first of its grant.
LEMMA GrantFields ==
  ASSUME TypeOK, RotationPreservesTheGrant, NEW t \in DOMAIN refresh
  PROVE  LET g == refresh[refresh[t].root]
         IN /\ refresh[t].root \in DOMAIN refresh
            /\ refresh[t].user = g.user /\ refresh[t].client = g.client
            /\ refresh[t].audience = g.audience /\ refresh[t].scopes = g.scopes
            /\ refresh[t].exp = g.exp /\ refresh[t].root = g.root
            /\ g \in Payload /\ refresh[t] \in Payload
<1> DEFINE p == refresh[t]
           g == refresh[p.root]
<1>1. p.root \in DOMAIN refresh /\ p = [g EXCEPT !.from = p.from]
  BY DEF RotationPreservesTheGrant
<1>2. p \in Payload /\ g \in Payload
  BY <1>1 DEF TypeOK
<1> HIDE DEF p, g
<1>3. /\ [g EXCEPT !.from = p.from].user = g.user
      /\ [g EXCEPT !.from = p.from].client = g.client
      /\ [g EXCEPT !.from = p.from].audience = g.audience
      /\ [g EXCEPT !.from = p.from].scopes = g.scopes
      /\ [g EXCEPT !.from = p.from].exp = g.exp
      /\ [g EXCEPT !.from = p.from].root = g.root
  BY <1>2 DEF Payload
<1> QED BY <1>1, <1>2, <1>3 DEF p, g

(***************************************************************************)
(* The steps that sign nothing and let no rotation pass to the mint: marks *)
(* may be added, the clock may advance.                                    *)
(***************************************************************************)
Quiet ==
  /\ UNCHANGED <<refresh, access>>
  /\ now' \in {now, now + 1}
  /\ spent \subseteq spent'
  /\ \A t \in TokenId : JtiKey(t) \in spent' => JtiKey(t) \in spent \/ t \in DOMAIN refresh
  /\ \A r \in Req : Minting(r)' => Minting(r) /\ req'[r].token = req[r].token

LEMMA QuietKeepsGrant ==
  ASSUME TypeInv, GrantInv, Quiet
  PROVE  GrantInv'
<1>1. RotationPreservesTheGrant' /\ MarkedIsIssued'
  BY DEF GrantInv, RotationPreservesTheGrant, MarkedIsIssued, Quiet
<1>2. now \in Nat /\ \A t \in DOMAIN refresh : refresh[t].exp \in Nat
  BY DEF TypeInv, TypeOK, Payload
<1>3. \A t \in DOMAIN refresh : Usable(t)' => Usable(t)
  BY <1>2 DEF Usable, Quiet
<1>4. \A r \in Req : Minting(r)' => Root(r)' = Root(r) /\ req[r].token \in DOMAIN refresh
  BY DEF Quiet, Root, Minting, TypeInv, InFlight, Idle
<1>5. OneUsableTokenPerGrant'
  BY <1>3 DEF GrantInv, OneLine, OneUsableTokenPerGrant, Quiet
<1>6. \A r \in Req, t \in DOMAIN refresh' :
        Minting(r)' /\ refresh'[t].root = Root(r)' => ~Usable(t)'
  BY <1>3, <1>4 DEF GrantInv, OneLine, Quiet
<1>7. \A r, q \in Req : Minting(r)' /\ Minting(q)' /\ Root(r)' = Root(q)'
                        /\ refresh'[req'[r].token].exp >= now' => r = q
  BY <1>2, <1>4 DEF GrantInv, OneLine, Quiet
<1> QED BY <1>1, <1>5, <1>6, <1>7 DEF GrantInv, OneLine

\* A consume marks the key of an issued token.
LEMMA AnswerIsQuiet ==
  ASSUME TypeInv, NEW r \in Req, Answer(r), UNCHANGED <<now, refresh, access>>,
         \/ UNCHANGED spent
         \/ req[r] # Idle /\ spent' = spent \cup {JtiKey(req[r].token)}
  PROVE  Quiet
<1>1. \A s \in Req : Minting(s)' => Minting(s) /\ req'[s].token = req[s].token
  BY AnswerTyped DEF Minting, Idle, TypeInv
<1>2. \A t \in TokenId : JtiKey(t) \in spent' => JtiKey(t) \in spent \/ t \in DOMAIN refresh
  BY TokenTyped, KeysAreDistinct
<1> QED BY <1>1, <1>2 DEF Quiet

LEMMA QuietOrNot ==
  ASSUME TypeInv, [Next]_vars
  PROVE  \/ Quiet
         \/ \E u \in User, c \in Client, res \in Resource, scopes \in SUBSET ScopeName :
              IssueGrant(u, c, res, scopes)
         \/ \E r \in Req : RotateMint(r) \/ (RotateBurn(r) /\ Goto(r, "mint"))
<1>1. CASE Tick
  BY <1>1 DEF Tick, Quiet, Minting
<1>2. ASSUME NEW u \in User, SetActive(u) PROVE Quiet
  BY <1>2 DEF SetActive, Quiet, Minting
<1>3. ASSUME NEW r \in Req, NEW t \in TokenId, NEW client \in Client, NEW res \in Resource,
             NEW wanted \in SUBSET ScopeName, RotateRead(r, t, client, res, wanted)
      PROVE  Quiet
  BY <1>3 DEF RotateRead, Quiet, Minting, TypeInv, TypeOK
<1>4. ASSUME NEW r \in Req, NEW t \in TokenId, NEW client \in Client, RevokeRead(r, t, client)
      PROVE  Quiet
  BY <1>4 DEF RevokeRead, Quiet, Minting, TypeInv, TypeOK
<1>5. ASSUME NEW r \in Req, RotateActive(r) PROVE Quiet
  <2>1. CASE Answer(r)
    BY <1>5, <2>1, AnswerIsQuiet DEF RotateActive
  <2>2. CASE Goto(r, "burn")
    BY <1>5, <2>2, GotoTyped DEF RotateActive, RotatePc, Quiet, Minting, TypeInv
  <2> QED BY <1>5, <2>1, <2>2 DEF RotateActive
<1>6. ASSUME NEW r \in Req, RotateBurn(r) PROVE Quiet \/ Goto(r, "mint")
  <2>1. /\ req[r] # Idle /\ (Answer(r) \/ Goto(r, "mint"))
        /\ UNCHANGED <<now, refresh, access>>
        /\ spent' = spent \cup {JtiKey(req[r].token)}
    BY <1>6 DEF RotateBurn, BurnRefresh, Consume, Idle
  <2> QED BY <2>1, AnswerIsQuiet
<1>7. ASSUME NEW r \in Req, RevokeBurn(r) PROVE Quiet
  <2>1. /\ req[r] # Idle /\ Answer(r) /\ UNCHANGED <<now, refresh, access>>
        /\ spent' = spent \cup {JtiKey(req[r].token)}
    BY <1>7 DEF RevokeBurn, BurnRefresh, Consume, Idle
  <2> QED BY <2>1, AnswerIsQuiet
<1>8. ASSUME NEW r \in Req, Fails(r) PROVE Quiet
  BY <1>8, AnswerIsQuiet DEF Fails
<1>9. ASSUME NEW r \in Req, StoreThrows(r) PROVE Quiet
  BY <1>9, AnswerIsQuiet DEF StoreThrows, ConsumeThrows, Idle
<1>10. CASE UNCHANGED vars
  BY <1>10 DEF vars, Quiet, Minting
<1> QED BY <1>1, <1>2, <1>3, <1>4, <1>5, <1>6, <1>7, <1>8, <1>9, <1>10 DEF Next, Arrive, Continue

-----------------------------------------------------------------------------
(* A token is signed: the first of a grant, or a successor.                *)

(* What was true of the issued tokens stays so.                            *)
LEMMA SignsKeepsOld ==
  ASSUME TypeOK, RotationPreservesTheGrant, NEW t, NEW p, Signs(t, p), UNCHANGED <<now, spent>>
  PROVE  \A s \in DOMAIN refresh :
           /\ s \in DOMAIN refresh' /\ refresh'[s] = refresh[s] /\ s # t
           /\ refresh[s].root \in DOMAIN refresh
           /\ refresh'[refresh[s].root] = refresh[refresh[s].root]
           /\ Usable(s)' <=> Usable(s)
BY DEF Signs, Usable, RotationPreservesTheGrant

LEMMA IssueKeepsGrant ==
  ASSUME TypeInv, GrantInv, NEW u \in User, NEW c \in Client, NEW res \in Resource,
         NEW scopes \in SUBSET ScopeName, IssueGrant(u, c, res, scopes)
  PROVE  GrantInv'
<1> DEFINE t == FreshJti
           p == FirstToken(t, u, c, res, scopes)
           a == AccessFor(p, c, scopes)
<1>1. p \in Payload /\ Signs(t, p)
  BY IssueSigns
<1>2. /\ UNCHANGED <<now, spent, req>>
      /\ access' = access \cup {a}
  BY DEF IssueGrant
<1>3. p.root = t /\ p = [p EXCEPT !.from = p.from]
  BY <1>1 DEF FirstToken, Payload
<1>4. /\ a.root = t /\ a.user = p.user /\ a.client = p.client /\ a.audience = p.audience
      /\ a.scopes \subseteq p.scopes
  BY <1>1 DEF AccessFor, FirstToken
<1> HIDE DEF t, p, a
<1>5. \A s \in DOMAIN refresh :
        /\ s \in DOMAIN refresh' /\ refresh'[s] = refresh[s] /\ s # t
        /\ refresh[s].root \in DOMAIN refresh
        /\ refresh'[refresh[s].root] = refresh[refresh[s].root]
        /\ Usable(s)' <=> Usable(s)
  BY <1>1, <1>2, SignsKeepsOld DEF TypeInv, GrantInv
<1>6. RotationPreservesTheGrant'
  <2>1. \A s \in DOMAIN refresh' :
          /\ refresh'[s].root \in DOMAIN refresh'
          /\ refresh'[s] = [refresh'[refresh'[s].root] EXCEPT !.from = refresh'[s].from]
    BY <1>1, <1>3, <1>5 DEF Signs, GrantInv, RotationPreservesTheGrant
  <2>2. \A b \in access' :
          /\ b.root \in DOMAIN refresh'
          /\ LET g == refresh'[b.root]
             IN /\ b.user = g.user /\ b.client = g.client /\ b.audience = g.audience
                /\ b.scopes \subseteq g.scopes
    BY <1>1, <1>2, <1>4, <1>5 DEF Signs, GrantInv, RotationPreservesTheGrant
  <2> QED BY <2>1, <2>2 DEF RotationPreservesTheGrant
<1>7. MarkedIsIssued'
  BY <1>1, <1>2 DEF GrantInv, MarkedIsIssued, Signs
<1>8. \A r \in Req :
        Minting(r) => req[r].token \in DOMAIN refresh /\ Root(r)' = Root(r) /\ Root(r) # t
  BY <1>2, <1>5 DEF TypeInv, InFlight, Minting, Root, Idle
<1>9. OneUsableTokenPerGrant'
  BY <1>1, <1>3, <1>5 DEF GrantInv, OneLine, OneUsableTokenPerGrant, Signs
<1>10. \A r \in Req, s \in DOMAIN refresh' :
         Minting(r)' /\ refresh'[s].root = Root(r)' => ~Usable(s)'
  BY <1>1, <1>2, <1>3, <1>5, <1>8 DEF GrantInv, OneLine, Signs, Minting
<1>11. \A r, q \in Req : Minting(r)' /\ Minting(q)' /\ Root(r)' = Root(q)'
                         /\ refresh'[req'[r].token].exp >= now' => r = q
  BY <1>2, <1>5, <1>8 DEF GrantInv, OneLine, Minting
<1> QED BY <1>6, <1>7, <1>9, <1>10, <1>11 DEF GrantInv, OneLine

LEMMA MintKeepsGrant ==
  ASSUME TypeInv, GrantInv, NEW r \in Req, RotateMint(r)
  PROVE  GrantInv'
<1> DEFINE t == FreshJti
           p == Successor(r)
           old == req[r].token
           a == AccessFor(refresh[old], req[r].client, req[r].scopes)
<1>1. p \in Payload /\ Signs(t, p)
  BY MintSigns
<1>2. /\ UNCHANGED <<now, spent>>
      /\ access' = access \cup {a}
      /\ Minting(r) /\ Answer(r)
  BY DEF RotateMint, Mints, Minting
<1>3. req[r] # Idle /\ req[r].pc \in RotatePc
  BY <1>2 DEF Minting, Idle, RotatePc
<1>4. /\ old \in DOMAIN refresh /\ refresh[old] \in Payload
      /\ req[r].client = refresh[old].client /\ req[r].scopes \subseteq refresh[old].scopes
  BY <1>3, TokenTyped DEF TypeInv, InFlight
<1>5. p = [refresh[old] EXCEPT !.from = {old}]
  BY DEF Successor
<1>6. /\ a.root = refresh[old].root /\ a.user = refresh[old].user
      /\ a.client = refresh[old].client /\ a.audience = refresh[old].audience
      /\ a.scopes \subseteq refresh[old].scopes
  BY <1>4 DEF AccessFor
<1> HIDE DEF t, p, a
<1>7. p.root = refresh[old].root /\ p.exp = refresh[old].exp /\ p.from = {old}
  BY <1>4, <1>5 DEF Payload
<1>8. \A s \in DOMAIN refresh :
        /\ s \in DOMAIN refresh' /\ refresh'[s] = refresh[s] /\ s # t
        /\ refresh[s].root \in DOMAIN refresh
        /\ refresh'[refresh[s].root] = refresh[refresh[s].root]
        /\ Usable(s)' <=> Usable(s)
  BY <1>1, <1>2, SignsKeepsOld DEF TypeInv, GrantInv
<1>9. RotationPreservesTheGrant'
  <2> DEFINE g == refresh[refresh[old].root]
  <2>1. /\ g \in Payload /\ refresh[old] = [g EXCEPT !.from = refresh[old].from]
        /\ refresh[old].user = g.user /\ refresh[old].client = g.client
        /\ refresh[old].audience = g.audience /\ refresh[old].scopes = g.scopes
    BY <1>4, GrantFields DEF TypeInv, GrantInv, RotationPreservesTheGrant
  <2>2. p = [g EXCEPT !.from = p.from]
    <3> DEFINE o == refresh[old]
    <3>1. o \in Payload /\ g \in Payload /\ o = [g EXCEPT !.from = o.from]
          /\ p = [o EXCEPT !.from = {old}] /\ p.from = {old}
      BY <1>4, <1>5, <1>7, <2>1
    <3> HIDE DEF g, o
    <3> QED BY <3>1 DEF Payload
  <2>3. refresh'[p.root] = g
    BY <1>4, <1>7, <1>8
  <2> HIDE DEF g
  <2>4. \A s \in DOMAIN refresh' :
          /\ refresh'[s].root \in DOMAIN refresh'
          /\ refresh'[s] = [refresh'[refresh'[s].root] EXCEPT !.from = refresh'[s].from]
    <3>1. \A s \in DOMAIN refresh :
            /\ refresh'[s].root \in DOMAIN refresh'
            /\ refresh'[s] = [refresh'[refresh'[s].root] EXCEPT !.from = refresh'[s].from]
      BY <1>8 DEF GrantInv, RotationPreservesTheGrant
    <3>2. refresh'[t] = p /\ p.root \in DOMAIN refresh'
      BY <1>1, <1>4, <1>7, <1>8 DEF Signs
    <3>3. /\ refresh'[t].root \in DOMAIN refresh'
          /\ refresh'[t] = [refresh'[refresh'[t].root] EXCEPT !.from = refresh'[t].from]
      BY <2>2, <2>3, <3>2
    <3> QED BY <1>1, <3>1, <3>3 DEF Signs
  <2>5. \A b \in access' :
          /\ b.root \in DOMAIN refresh'
          /\ LET h == refresh'[b.root]
             IN /\ b.user = h.user /\ b.client = h.client /\ b.audience = h.audience
                /\ b.scopes \subseteq h.scopes
    <3>1. \A b \in access :
            /\ b.root \in DOMAIN refresh'
            /\ LET h == refresh'[b.root]
               IN /\ b.user = h.user /\ b.client = h.client /\ b.audience = h.audience
                  /\ b.scopes \subseteq h.scopes
      BY <1>8 DEF GrantInv, RotationPreservesTheGrant
    <3>2. a.root \in DOMAIN refresh' /\ refresh'[a.root] = g
      BY <1>4, <1>6, <1>7, <1>8, <2>3
    <3> QED BY <1>2, <1>6, <2>1, <3>1, <3>2
  <2> QED BY <2>4, <2>5 DEF RotationPreservesTheGrant
<1>10. MarkedIsIssued'
  BY <1>1, <1>2 DEF GrantInv, MarkedIsIssued, Signs
<1>11. \A q \in Req : Minting(q)' =>
         /\ q # r /\ Minting(q) /\ req'[q].token = req[q].token
         /\ req[q].token \in DOMAIN refresh /\ Root(q)' = Root(q)
  BY <1>2, <1>8, AnswerTyped DEF TypeInv, InFlight, Minting, Root, Idle
<1>12. refresh[old].root = Root(r)
  BY DEF Root
<1>13. OneUsableTokenPerGrant'
  BY <1>1, <1>2, <1>7, <1>8, <1>12 DEF GrantInv, OneLine, OneUsableTokenPerGrant, Signs
<1>14. \A q \in Req, s \in DOMAIN refresh' :
         Minting(q)' /\ refresh'[s].root = Root(q)' => ~Usable(s)'
  <2> SUFFICES ASSUME NEW q \in Req, NEW s \in DOMAIN refresh',
                      Minting(q)', refresh'[s].root = Root(q)'
               PROVE  ~Usable(s)'
    OBVIOUS
  <2>1. CASE s \in DOMAIN refresh
    BY <2>1, <1>8, <1>11 DEF GrantInv, OneLine
  <2>2. CASE s = t
    <3>1. refresh'[s] = p /\ Root(q) = Root(r) /\ q # r /\ Minting(q)
      BY <2>2, <1>1, <1>7, <1>11, <1>12 DEF Signs
    <3>2. ~(refresh[old].exp >= now)
      BY <3>1, <1>2 DEF GrantInv, OneLine
    <3> QED BY <3>1, <3>2, <1>2, <1>7 DEF Usable
  <2> QED BY <2>1, <2>2, <1>1 DEF Signs
<1>15. \A s, q \in Req : Minting(s)' /\ Minting(q)' /\ Root(s)' = Root(q)'
                         /\ refresh'[req'[s].token].exp >= now' => s = q
  BY <1>2, <1>8, <1>11 DEF GrantInv, OneLine
<1> QED BY <1>9, <1>10, <1>13, <1>14, <1>15 DEF GrantInv, OneLine

(***************************************************************************)
(* The burn that lets a rotation through: of an unexpired token it was the *)
(* first, by the contract of the store, so that token was the usable one.  *)
(***************************************************************************)
LEMMA BurnKeepsGrant ==
  ASSUME TypeInv, GrantInv, NEW r \in Req, RotateBurn(r), Goto(r, "mint")
  PROVE  GrantInv'
<1>1. req[r].pc = "burn" /\ req[r] # Idle
  BY DEF RotateBurn, Idle
<1>2. PICK t \in DOMAIN refresh : t = req[r].token /\ t \in TokenId /\ now \in Nat
  <2>1. req[r].token \in DOMAIN refresh /\ req[r].token \in TokenId
    BY <1>1, TokenTyped
  <2>2. now \in Nat
    BY DEF TypeInv, TypeOK
  <2> QED BY <2>1, <2>2
<1>3. /\ req'[r].pc = "mint" /\ req'[r].token = t
      /\ \A q \in Req \ {r} : req'[q] = req[q]
  BY <1>1, <1>2, GotoTyped DEF TypeInv, RotatePc
<1>4. PICK fresh \in BOOLEAN :
        /\ BurnRefresh(t, fresh)
        /\ IF Burned(fresh) THEN Goto(r, "mint") ELSE Answer(r)
  BY <1>2 DEF RotateBurn
<1>5. fresh
  BY <1>3, <1>4, AnswerTyped DEF Burned, Idle, TypeInv
<1>6. /\ spent' = spent \cup {JtiKey(t)}
      /\ refresh[t].exp >= now => JtiKey(t) \notin spent
      /\ UNCHANGED <<now, refresh, access>>
  <2>1. refresh[t].exp \in Nat
    BY <1>2 DEF TypeInv, TypeOK, Payload
  <2> QED BY <1>2, <1>4, <1>5, <2>1 DEF BurnRefresh, Consume, Answers, RotateBurn
<1>7. RotationPreservesTheGrant' /\ MarkedIsIssued'
  BY <1>2, <1>6, KeysAreDistinct DEF GrantInv, RotationPreservesTheGrant, MarkedIsIssued
<1>8. \A s \in DOMAIN refresh : (Usable(s)' => Usable(s)) /\ ~Usable(t)'
  BY <1>6 DEF Usable
<1>9. OneUsableTokenPerGrant'
  BY <1>6, <1>8 DEF GrantInv, OneLine, OneUsableTokenPerGrant
<1>10. \A s, q \in DOMAIN refresh :
         refresh[s].root = refresh[q].root => refresh[s].exp = refresh[q].exp
  BY GrantFields DEF TypeInv, GrantInv
<1>11. \A s \in DOMAIN refresh : refresh[s].root = refresh[t].root => ~Usable(s)'
  <2> SUFFICES ASSUME NEW s \in DOMAIN refresh, refresh[s].root = refresh[t].root, Usable(s)'
               PROVE  FALSE
    OBVIOUS
  <2>1. Usable(s) /\ refresh[s].exp >= now /\ s # t
    BY <1>6, <1>8 DEF Usable
  <2>2. Usable(t)
    BY <1>2, <1>6, <1>10, <2>1 DEF Usable
  <2> QED BY <1>2, <2>1, <2>2 DEF GrantInv, OneLine, OneUsableTokenPerGrant
<1>12. \A q \in Req \ {r} : Minting(q)' =>
         Minting(q) /\ Root(q)' = Root(q) /\ req'[q].token = req[q].token
         /\ req[q].token \in DOMAIN refresh
  BY <1>3, <1>6 DEF Minting, Root, TypeInv, InFlight, Idle
<1>13. Root(r)' = refresh[t].root
  BY <1>3, <1>6 DEF Root
<1>14. \A q \in Req, s \in DOMAIN refresh' :
         Minting(q)' /\ refresh'[s].root = Root(q)' => ~Usable(s)'
  BY <1>6, <1>8, <1>11, <1>12, <1>13 DEF GrantInv, OneLine
<1>15. \A q \in Req \ {r} : Minting(q)' /\ Root(q)' = Root(r)' => ~(refresh[t].exp >= now)
  <2> SUFFICES ASSUME NEW q \in Req \ {r}, Minting(q)', Root(q)' = Root(r)', refresh[t].exp >= now
               PROVE  FALSE
    OBVIOUS
  <2>1. Usable(t)
    BY <1>6 DEF Usable
  <2>2. ~Usable(t)
    BY <1>2, <1>12, <1>13 DEF GrantInv, OneLine
  <2> QED BY <2>1, <2>2
<1>16. \A s, q \in Req : Minting(s)' /\ Minting(q)' /\ Root(s)' = Root(q)'
                         /\ refresh'[req'[s].token].exp >= now' => s = q
  <2> SUFFICES ASSUME NEW s \in Req, NEW q \in Req, Minting(s)', Minting(q)', s # q,
                      Root(s)' = Root(q)', refresh[req'[s].token].exp >= now
               PROVE  FALSE
    BY <1>6
  <2>1. CASE s # r /\ q # r
    BY <2>1, <1>12 DEF GrantInv, OneLine
  <2>2. CASE s = r
    BY <2>2, <1>3, <1>15
  <2>3. CASE q = r
    BY <2>3, <1>2, <1>3, <1>10, <1>12, <1>13, <1>15 DEF Root
  <2> QED BY <2>1, <2>2, <2>3
<1> QED BY <1>7, <1>9, <1>14, <1>16 DEF GrantInv, OneLine

LEMMA InitGrantInv == Init => GrantInv
BY DEF Init, GrantInv, RotationPreservesTheGrant, OneLine, OneUsableTokenPerGrant,
       MarkedIsIssued, Minting, Idle

LEMMA NextGrantInv == TypeInv /\ GrantInv /\ [Next]_vars => GrantInv'
BY QuietOrNot, QuietKeepsGrant, IssueKeepsGrant, MintKeepsGrant, BurnKeepsGrant

(***************************************************************************)
(* However long the chain, every token of a grant carries the user,        *)
(* client, audience, scopes and expiry of the code exchange, and no access *)
(* token minted along it reaches further (rotateRefresh).                  *)
(***************************************************************************)
THEOREM GrantPreserved == Spec => []RotationPreservesTheGrant
<1>1. GrantInv => RotationPreservesTheGrant
  BY DEF GrantInv
<1> QED BY InitTypeInv, NextTypeInv, InitGrantInv, NextGrantInv, <1>1, PTL DEF Spec

(***************************************************************************)
(* A grant has at most one usable refresh token, whatever rotations,       *)
(* revocations, failures and crashes interleave: it never forks.           *)
(***************************************************************************)
THEOREM NoFork == Spec => []OneUsableTokenPerGrant
<1>1. GrantInv => OneUsableTokenPerGrant
  BY DEF GrantInv, OneLine
<1> QED BY InitTypeInv, NextTypeInv, InitGrantInv, NextGrantInv, <1>1, PTL DEF Spec

-----------------------------------------------------------------------------
(* Revocation, and who may spend a token.                                  *)

(***************************************************************************)
(* A token answered 200 for is marked, and marks stay.                     *)
(***************************************************************************)
LEMMA NextRevokedIsMarked ==
  TypeInv /\ RevokedIsMarked /\ [Next]_vars => RevokedIsMarked'
<1> SUFFICES ASSUME TypeInv, RevokedIsMarked, [Next]_vars PROVE RevokedIsMarked'
  OBVIOUS
<1>1. ASSUME NEW r \in Req, RevokeBurn(r) PROVE RevokedIsMarked'
  BY <1>1 DEF RevokeBurn, BurnRefresh, Consume, RevokedIsMarked
<1>2. ASSUME NEW r \in Req, RotateBurn(r) PROVE RevokedIsMarked'
  BY <1>2 DEF RotateBurn, BurnRefresh, Consume, RevokedIsMarked
<1>3. ASSUME NEW r \in Req, StoreThrows(r) PROVE RevokedIsMarked'
  BY <1>3 DEF StoreThrows, ConsumeThrows, RevokedIsMarked, history
<1>4. CASE UNCHANGED <<revoked, spent>>
  BY <1>4 DEF RevokedIsMarked
<1> QED BY <1>1, <1>2, <1>3, <1>4
        DEF Next, Arrive, Continue, vars, Tick, SetActive, IssueGrant, RotateRead, RotateActive,
            RotateMint, RevokeRead, Fails, history

(***************************************************************************)
(* After the 200 of /revoke no rotation of an unexpired token is accepted, *)
(* also not one that was past all its checks before.                       *)
(***************************************************************************)
THEOREM RevokedStaysDead == Spec => RevokedTokenIsDead
<1>1. Init => RevokedIsMarked
  BY DEF Init, RevokedIsMarked
<1>2. TypeInv /\ RevokedIsMarked /\ [Next]_vars =>
        [\A t \in revoked : refresh[t].exp >= now => accepted'[t] = accepted[t]]_vars
  <2> SUFFICES ASSUME TypeInv, RevokedIsMarked, [Next]_vars,
                      NEW t \in revoked, refresh[t].exp >= now
               PROVE  accepted'[t] = accepted[t]
    OBVIOUS
  <2>1. ASSUME NEW r \in Req, RotateBurn(r) PROVE accepted'[t] = accepted[t]
    <3>1. PICK fresh \in BOOLEAN :
            /\ BurnRefresh(req[r].token, fresh)
            /\ accepted' = [accepted EXCEPT ![req[r].token] = IF fresh THEN @ + 1 ELSE @]
      BY <2>1 DEF RotateBurn
    <3>2. CASE req[r].token # t
      BY <3>1, <3>2 DEF TypeInv, TypeOK
    <3>3. CASE req[r].token = t
      <4>1. req[r] # Idle
        BY <2>1 DEF RotateBurn, Idle
      <4>2. refresh[t].exp \in Nat /\ now \in Nat
        BY <3>3, <4>1, TokenTyped DEF TypeInv, TypeOK, Payload
      <4>3. ~fresh
        BY <3>1, <3>3, <4>2 DEF BurnRefresh, Consume, Answers, RevokedIsMarked
      <4> QED BY <3>1, <3>3, <4>3 DEF TypeInv, TypeOK
    <3> QED BY <3>2, <3>3
  <2>2. CASE UNCHANGED accepted
    BY <2>2
  <2> QED BY <2>1, <2>2
          DEF Next, Arrive, Continue, vars, Tick, SetActive, IssueGrant, RotateRead, RotateActive,
              RotateMint, RevokeRead, RevokeBurn, Fails, StoreThrows, history
<1> QED BY InitTypeInv, NextTypeInv, <1>1, NextRevokedIsMarked, <1>2, PTL
        DEF Spec, RevokedTokenIsDead

(***************************************************************************)
(* Only a request of the client it was issued to spends a token: a foreign *)
(* client that holds it cannot use it up.                                  *)
(***************************************************************************)
THEOREM OnlyTheHolderSpends == Spec => OnlyItsClientSpendsAToken
<1>1. TypeInv /\ [Next]_vars =>
        [\A t \in DOMAIN refresh :
           JtiKey(t) \in spent' \ spent
             => \E r \in Req : /\ req[r] # Idle /\ req'[r] # req[r]
                               /\ req[r].token = t /\ req[r].client = refresh[t].client]_vars
  <2> SUFFICES ASSUME TypeInv, [Next]_vars, NEW t \in DOMAIN refresh, JtiKey(t) \in spent' \ spent
               PROVE  \E r \in Req : /\ req[r] # Idle /\ req'[r] # req[r]
                                     /\ req[r].token = t /\ req[r].client = refresh[t].client
    OBVIOUS
  <2>1. PICK r \in Req : RotateBurn(r) \/ RevokeBurn(r) \/ StoreThrows(r)
    BY DEF Next, Arrive, Continue, vars, Tick, SetActive, IssueGrant, RotateRead, RotateActive,
           RotateMint, RevokeRead, Fails
  <2>2. req[r] # Idle /\ spent' \subseteq spent \cup {JtiKey(req[r].token)}
    BY <2>1 DEF RotateBurn, RevokeBurn, StoreThrows, BurnRefresh, Consume, ConsumeThrows, Idle
  <2>3. req[r].token = t /\ req[r].client = refresh[t].client
    BY <2>2, KeysAreDistinct, TokenTyped
  <2>4. req'[r] # req[r]
    <3>1. CASE Answer(r)
      BY <2>2, <3>1, AnswerTyped DEF TypeInv
    <3>2. CASE RotateBurn(r) /\ Goto(r, "mint")
      BY <3>2, GotoTyped DEF RotateBurn, RotatePc, TypeInv
    <3> QED BY <2>1, <3>1, <3>2 DEF RotateBurn, RevokeBurn, StoreThrows
  <2> QED BY <2>2, <2>3, <2>4
<1> QED BY InitTypeInv, NextTypeInv, <1>1, PTL DEF Spec, OnlyItsClientSpendsAToken
-----------------------------------------------------------------------------
(* The books: every acceptance of a token is a successor, a rotation that  *)
(* has still to sign one, or a failure; and a removed user gets no more    *)
(* than the rotations past the user check.  Both count, so the lemmas      *)
(* below say how each kind of step changes the sets that are counted.      *)

Successors(t) == {s \in DOMAIN refresh : refresh[s].from = {t}}
MintingOf(t) == {r \in Req : req[r].pc = "mint" /\ req[r].token = t}

Balanced ==
  \A t \in TokenId :
    accepted[t] = Cardinality(Successors(t)) + Cardinality(MintingOf(t)) + failed[t]

LEMMA CountedFinite ==
  ASSUME TypeInv, NEW t, NEW u
  PROVE  /\ IsFiniteSet(Successors(t)) /\ Cardinality(Successors(t)) \in Nat
         /\ IsFiniteSet(MintingOf(t)) /\ Cardinality(MintingOf(t)) \in Nat
         /\ IsFiniteSet(PastTheCheck(u)) /\ Cardinality(PastTheCheck(u)) \in Nat
<1>1. Successors(t) \subseteq TokenId /\ MintingOf(t) \subseteq Req /\ PastTheCheck(u) \subseteq Req
  BY DEF Successors, MintingOf, PastTheCheck, TypeInv, TypeOK
<1> QED BY <1>1, RefreshRotationAssumption, FS_Subset, FS_CardinalityType

\* A request that ends leaves the sets of requests, and alters no other.
LEMMA AnswerCounts ==
  ASSUME TypeInv, NEW r \in Req, Answer(r), TokensStay
  PROVE  /\ \A t : MintingOf(t)' = MintingOf(t) \ {r}
         /\ \A u : PastTheCheck(u)' = PastTheCheck(u) \ {r}
<1>1. req'[r] = Idle /\ \A s \in Req \ {r} : req'[s] = req[s]
  BY AnswerTyped DEF TypeInv
<1>2. Idle.pc = "idle"
  BY DEF Idle
<1>3. \A s \in Req : req[s].pc \in {"burn", "mint"} => req[s].token \in DOMAIN refresh
  BY DEF TypeInv, InFlight, Idle
<1>4. \A s \in Req \ {r} : req[s].pc \in {"burn", "mint"} =>
        refresh'[req'[s].token] = refresh[req[s].token]
  BY <1>1, <1>3 DEF TokensStay
<1>5. \A t : MintingOf(t)' = MintingOf(t) \ {r}
  BY <1>1, <1>2 DEF MintingOf
<1>6. \A u : PastTheCheck(u)' = PastTheCheck(u) \ {r}
  BY <1>1, <1>2, <1>4 DEF PastTheCheck
<1> QED BY <1>5, <1>6

\* A rotation that passes the user check, or burns its token.
LEMMA GotoCounts ==
  ASSUME TypeInv, NEW r \in Req, req[r].pc \in RotatePc, NEW pc \in {"burn", "mint"},
         Goto(r, pc), UNCHANGED refresh
  PROVE  /\ \A t : MintingOf(t)' = (MintingOf(t) \ {r})
                     \cup {s \in {r} : pc = "mint" /\ req[r].token = t}
         /\ \A u : PastTheCheck(u)' = PastTheCheck(u)
                     \cup {s \in {r} : refresh[req[r].token].user = u}
<1>1. /\ req'[r].pc = pc /\ req'[r].token = req[r].token
      /\ \A s \in Req \ {r} : req'[s] = req[s]
  BY GotoTyped DEF TypeInv, RotatePc
<1>2. \A t : MintingOf(t)' = (MintingOf(t) \ {r})
                     \cup {s \in {r} : pc = "mint" /\ req[r].token = t}
  BY <1>1 DEF MintingOf
<1>3. \A u : PastTheCheck(u)' = PastTheCheck(u)
                     \cup {s \in {r} : refresh[req[r].token].user = u}
  BY <1>1 DEF PastTheCheck
<1> QED BY <1>2, <1>3

\* A request that starts is not past any check.
LEMMA StartCounts ==
  ASSUME TypeInv, NEW r \in Req, NEW new, req' = [req EXCEPT ![r] = new], req[r] = Idle,
         new.pc \in {"active", "revoke"}, UNCHANGED refresh
  PROVE  /\ \A t : MintingOf(t)' = MintingOf(t)
         /\ \A u : PastTheCheck(u)' = PastTheCheck(u)
<1>1. req'[r] = new /\ \A s \in Req \ {r} : req'[s] = req[s]
  BY DEF TypeInv, TypeOK
<1>2. req[r].pc = "idle"
  BY DEF Idle
<1>3. \A t : MintingOf(t)' = MintingOf(t)
  BY <1>1, <1>2 DEF MintingOf
<1>4. \A u : PastTheCheck(u)' = PastTheCheck(u)
  BY <1>1, <1>2 DEF PastTheCheck
<1> QED BY <1>3, <1>4

\* The first token of a grant succeeds none.
LEMMA IssueCounts ==
  ASSUME TypeInv, NEW u \in User, NEW c \in Client, NEW res \in Resource,
         NEW scopes \in SUBSET ScopeName, IssueGrant(u, c, res, scopes)
  PROVE  /\ \A t : Successors(t)' = Successors(t)
         /\ \A t : MintingOf(t)' = MintingOf(t)
         /\ \A v : PastTheCheck(v)' = PastTheCheck(v)
<1> DEFINE p == FirstToken(FreshJti, u, c, res, scopes)
<1>1. Signs(FreshJti, p) /\ req' = req
  BY IssueSigns DEF IssueGrant
<1>2. p.from = {}
  BY DEF FirstToken
<1> HIDE DEF p
<1>3. \A t : Successors(t)' = Successors(t)
  BY <1>1, <1>2 DEF Signs, Successors
<1>4. \A s \in Req : req[s].pc \in {"burn", "mint"} =>
        req[s].token \in DOMAIN refresh /\ refresh'[req[s].token] = refresh[req[s].token]
  BY <1>1 DEF TypeInv, InFlight, Idle, Signs
<1>5. \A v : PastTheCheck(v)' = PastTheCheck(v)
  BY <1>1, <1>4 DEF PastTheCheck
<1> QED BY <1>1, <1>3, <1>5 DEF MintingOf

\* The mint turns the rotation into a successor of its token.
LEMMA MintCounts ==
  ASSUME TypeInv, NEW r \in Req, RotateMint(r)
  PROVE  /\ FreshJti \notin DOMAIN refresh
         /\ \A t : Successors(t)' = IF t = req[r].token THEN Successors(t) \cup {FreshJti}
                                                        ELSE Successors(t)
         /\ \A t : MintingOf(t)' = MintingOf(t) \ {r}
         /\ \A u : PastTheCheck(u)' = PastTheCheck(u) \ {r}
<1> DEFINE p == Successor(r)
           old == req[r].token
<1>1. Signs(FreshJti, p) /\ Answer(r) /\ req[r] # Idle
  <2>1. Signs(FreshJti, p)
    BY MintSigns
  <2>2. Answer(r) /\ req[r] # Idle
    BY DEF RotateMint, Idle
  <2> QED BY <2>1, <2>2
<1>2. p.from = {old}
  BY <1>1, TokenTyped DEF Successor, Payload
<1> HIDE DEF p
<1>3. \A t : Successors(t)' = IF t = old THEN Successors(t) \cup {FreshJti} ELSE Successors(t)
  <2> HIDE DEF old
  <2>1. \A t : ({old} = {t}) <=> (t = old)
    OBVIOUS
  <2> QED BY <1>1, <1>2, <2>1 DEF Signs, Successors
<1>4. TokensStay
  BY <1>1, SignsStay
<1> QED BY <1>1, <1>3, <1>4, AnswerCounts DEF Signs
-----------------------------------------------------------------------------
(* What the rest of the steps have in common: no count changes but by a    *)
(* request that ends before its token is burned, or that revokes.          *)
Uncounted ==
  /\ UNCHANGED <<accepted, failed>>
  /\ \A t : Successors(t)' = Successors(t)
  /\ \A t : MintingOf(t)' = MintingOf(t)

LEMMA UncountedKeepsBalance == Balanced /\ Uncounted => Balanced'
BY DEF Balanced, Uncounted

\* A request that ends, and was not about to mint.
LEMMA AnswerUncounted ==
  ASSUME TypeInv, NEW r \in Req, Answer(r), req[r].pc # "mint",
         UNCHANGED <<accepted, failed, refresh>>
  PROVE  Uncounted
<1>1. TokensStay
  BY DEF TokensStay
<1>2. \A t : r \notin MintingOf(t)
  BY DEF MintingOf
<1>3. \A t : MintingOf(t)' = MintingOf(t)
  BY <1>1, <1>2, AnswerCounts
<1> QED BY <1>3 DEF Uncounted, Successors

LEMMA BurnBalanced ==
  ASSUME TypeInv, Balanced, NEW r \in Req, RotateBurn(r)
  PROVE  Balanced'
<1> DEFINE old == req[r].token
<1>1. req[r].pc = "burn" /\ req[r] # Idle /\ UNCHANGED <<refresh, failed>>
  BY DEF RotateBurn, Idle
<1>2. old \in TokenId
  BY <1>1, TokenTyped
<1>3. PICK fresh \in BOOLEAN :
        /\ accepted' = [accepted EXCEPT ![old] = IF fresh THEN @ + 1 ELSE @]
        /\ IF Burned(fresh) THEN Goto(r, "mint") ELSE Answer(r)
  BY DEF RotateBurn
<1>4. accepted \in [TokenId -> Nat]
  BY DEF TypeInv, TypeOK
<1>5. CASE ~fresh
  <2>1. UNCHANGED accepted /\ Answer(r)
    BY <1>3, <1>4, <1>5 DEF Burned
  <2> QED BY <1>1, <2>1, AnswerUncounted, UncountedKeepsBalance
<1>6. CASE fresh
  <2>1. /\ \A t \in TokenId : accepted'[t] = IF t = old THEN accepted[t] + 1 ELSE accepted[t]
        /\ Goto(r, "mint")
    BY <1>2, <1>3, <1>4, <1>6 DEF Burned
  <2>2. \A t : MintingOf(t)' = (MintingOf(t) \ {r}) \cup {s \in {r} : old = t}
    BY <1>1, <2>1, GotoCounts DEF RotatePc
  <2>3. \A t : r \notin MintingOf(t)
    BY <1>1 DEF MintingOf
  <2>4. \A t : Successors(t)' = Successors(t)
    BY <1>1 DEF Successors
  <2> SUFFICES ASSUME NEW t \in TokenId
               PROVE  accepted'[t] = Cardinality(Successors(t)') + Cardinality(MintingOf(t)')
                                       + failed'[t]
    BY DEF Balanced
  <2>5. accepted[t] = Cardinality(Successors(t)) + Cardinality(MintingOf(t)) + failed[t]
    BY DEF Balanced
  <2>6. CASE t # old
    <3>1. MintingOf(t)' = MintingOf(t)
      BY <2>2, <2>3, <2>6
    <3> QED BY <1>1, <2>1, <2>4, <2>5, <2>6, <3>1
  <2>7. CASE t = old
    <3>1. MintingOf(t)' = MintingOf(t) \cup {r}
      BY <2>2, <2>3, <2>7
    <3>2. IsFiniteSet(MintingOf(t)) /\ Cardinality(MintingOf(t)) \in Nat
          /\ Cardinality(Successors(t)) \in Nat
      BY CountedFinite
    <3>3. Cardinality(MintingOf(t) \cup {r}) = Cardinality(MintingOf(t)) + 1
      BY <2>3, <3>2, FS_AddElement
    <3>4. failed[t] \in Nat /\ accepted[t] \in Nat
      BY DEF TypeInv, TypeOK
    <3> QED BY <1>1, <2>1, <2>4, <2>5, <2>7, <3>1, <3>2, <3>3, <3>4
  <2> QED BY <2>6, <2>7
<1> QED BY <1>5, <1>6

LEMMA MintBalanced ==
  ASSUME TypeInv, Balanced, NEW r \in Req, RotateMint(r)
  PROVE  Balanced'
<1> DEFINE old == req[r].token
           new == FreshJti
<1>1. req[r].pc = "mint" /\ UNCHANGED <<accepted, failed>>
  BY DEF RotateMint, history
<1>2. /\ new \notin DOMAIN refresh
      /\ \A t : Successors(t)' = IF t = old THEN Successors(t) \cup {new} ELSE Successors(t)
      /\ \A t : MintingOf(t)' = MintingOf(t) \ {r}
  BY MintCounts
<1> HIDE DEF new
<1> SUFFICES ASSUME NEW t \in TokenId
             PROVE  accepted[t] = Cardinality(Successors(t)') + Cardinality(MintingOf(t)') + failed[t]
  BY <1>1 DEF Balanced
<1>3. accepted[t] = Cardinality(Successors(t)) + Cardinality(MintingOf(t)) + failed[t]
  BY DEF Balanced
<1>4. CASE t # old
  <2>1. r \notin MintingOf(t)
    BY <1>4 DEF MintingOf
  <2>2. MintingOf(t)' = MintingOf(t) /\ Successors(t)' = Successors(t)
    BY <1>2, <1>4, <2>1
  <2> QED BY <1>3, <2>2
<1>5. CASE t = old
  <2>1. r \in MintingOf(t) /\ new \notin Successors(t)
    BY <1>1, <1>2, <1>5 DEF MintingOf, Successors
  <2>2. /\ IsFiniteSet(MintingOf(t)) /\ Cardinality(MintingOf(t)) \in Nat
        /\ IsFiniteSet(Successors(t)) /\ Cardinality(Successors(t)) \in Nat
    BY CountedFinite
  <2>3. Cardinality(MintingOf(t) \ {r}) = Cardinality(MintingOf(t)) - 1
    BY <2>1, <2>2, FS_RemoveElement
  <2>4. Cardinality(Successors(t) \cup {new}) = Cardinality(Successors(t)) + 1
    BY <2>1, <2>2, FS_AddElement
  <2>5. failed[t] \in Nat
    BY DEF TypeInv, TypeOK
  <2>6. MintingOf(t)' = MintingOf(t) \ {r} /\ Successors(t)' = Successors(t) \cup {new}
    BY <1>2, <1>5
  <2> QED BY <1>3, <2>2, <2>3, <2>4, <2>5, <2>6
<1> QED BY <1>4, <1>5

LEMMA FailsBalanced ==
  ASSUME TypeInv, Balanced, NEW r \in Req, Fails(r)
  PROVE  Balanced'
<1> DEFINE old == req[r].token
<1>1. req[r] # Idle /\ Answer(r) /\ UNCHANGED <<accepted, refresh>>
  BY DEF Fails
<1>2. CASE req[r].pc # "mint"
  BY <1>1, <1>2, AnswerUncounted, UncountedKeepsBalance DEF Fails
<1>3. CASE req[r].pc = "mint"
  <2>1. failed' = [failed EXCEPT ![old] = @ + 1]
    BY <1>3 DEF Fails
  <2>2. old \in TokenId
    BY <1>1, TokenTyped
  <2>3. \A t \in TokenId : failed'[t] = IF t = old THEN failed[t] + 1 ELSE failed[t]
    BY <2>1, <2>2 DEF TypeInv, TypeOK
  <2>4. \A t : MintingOf(t)' = MintingOf(t) \ {r} /\ Successors(t)' = Successors(t)
    BY <1>1, AnswerCounts DEF TokensStay, Successors
  <2> SUFFICES ASSUME NEW t \in TokenId
               PROVE  accepted[t] = Cardinality(Successors(t)') + Cardinality(MintingOf(t)')
                                      + failed'[t]
    BY <1>1 DEF Balanced
  <2>5. accepted[t] = Cardinality(Successors(t)) + Cardinality(MintingOf(t)) + failed[t]
    BY DEF Balanced
  <2>6. CASE t # old
    <3>1. r \notin MintingOf(t)
      BY <2>6 DEF MintingOf
    <3>2. MintingOf(t)' = MintingOf(t)
      BY <2>4, <3>1
    <3> QED BY <2>3, <2>4, <2>5, <2>6, <3>2
  <2>7. CASE t = old
    <3>1. r \in MintingOf(t)
      BY <1>3, <2>7 DEF MintingOf
    <3>2. /\ IsFiniteSet(MintingOf(t)) /\ Cardinality(MintingOf(t)) \in Nat
          /\ Cardinality(Successors(t)) \in Nat
      BY CountedFinite
    <3>3. Cardinality(MintingOf(t) \ {r}) = Cardinality(MintingOf(t)) - 1
      BY <3>1, <3>2, FS_RemoveElement
    <3>4. failed[t] \in Nat
      BY DEF TypeInv, TypeOK
    <3>5. /\ failed'[t] = failed[t] + 1
          /\ MintingOf(t)' = MintingOf(t) \ {r} /\ Successors(t)' = Successors(t)
      BY <2>3, <2>4, <2>7
    <3> QED BY <2>5, <3>2, <3>3, <3>4, <3>5
  <2> QED BY <2>6, <2>7
<1> QED BY <1>2, <1>3

LEMMA NextBalanced == TypeInv /\ Balanced /\ [Next]_vars => Balanced'
<1> SUFFICES ASSUME TypeInv, Balanced, [Next]_vars PROVE Balanced'
  OBVIOUS
<1>1. CASE Tick
  BY <1>1, UncountedKeepsBalance DEF Tick, history, Uncounted, Successors, MintingOf
<1>2. ASSUME NEW u \in User, SetActive(u) PROVE Uncounted
  BY <1>2 DEF SetActive, Uncounted, Successors, MintingOf
<1>3. ASSUME NEW u \in User, NEW c \in Client, NEW res \in Resource,
             NEW scopes \in SUBSET ScopeName, IssueGrant(u, c, res, scopes)
      PROVE  Uncounted
  BY <1>3, IssueCounts DEF Uncounted, IssueGrant, history
<1>4. ASSUME NEW r \in Req, NEW t \in TokenId, NEW client \in Client, NEW res \in Resource,
             NEW wanted \in SUBSET ScopeName, RotateRead(r, t, client, res, wanted)
      PROVE  Uncounted
  <2> DEFINE new == [pc |-> "active", token |-> t, client |-> client,
                     scopes |-> NarrowedScopes(refresh[t].scopes, wanted)]
  <2>1. new.pc = "active" /\ req' = [req EXCEPT ![r] = new] /\ req[r] = Idle
        /\ UNCHANGED <<refresh, accepted, failed>>
    BY <1>4 DEF RotateRead
  <2> HIDE DEF new
  <2> QED BY <2>1, StartCounts DEF Uncounted, Successors
<1>5. ASSUME NEW r \in Req, NEW t \in TokenId, NEW client \in Client, RevokeRead(r, t, client)
      PROVE  Uncounted
  <2> DEFINE new == [pc |-> "revoke", token |-> t, client |-> client]
  <2>1. new.pc = "revoke" /\ req' = [req EXCEPT ![r] = new] /\ req[r] = Idle
        /\ UNCHANGED <<refresh, accepted, failed>>
    BY <1>5 DEF RevokeRead
  <2> HIDE DEF new
  <2> QED BY <2>1, StartCounts DEF Uncounted, Successors
<1>6. ASSUME NEW r \in Req, RotateActive(r) PROVE Uncounted
  <2>1. /\ req[r].pc = "active" /\ (Goto(r, "burn") \/ Answer(r))
        /\ UNCHANGED <<refresh, accepted, failed>>
    BY <1>6 DEF RotateActive, history
  <2>2. CASE Answer(r)
    BY <2>1, <2>2, AnswerUncounted
  <2>3. CASE Goto(r, "burn")
    <3>1. \A t : r \notin MintingOf(t)
      BY <2>1 DEF MintingOf
    <3>2. \A t : MintingOf(t)' = (MintingOf(t) \ {r})
                     \cup {s \in {r} : "burn" = "mint" /\ req[r].token = t}
      BY <2>1, <2>3, GotoCounts DEF RotatePc
    <3>3. \A t : MintingOf(t)' = MintingOf(t)
      BY <3>1, <3>2
    <3> QED BY <2>1, <3>3 DEF Uncounted, Successors
  <2> QED BY <2>1, <2>2, <2>3
<1>7. ASSUME NEW r \in Req, RevokeBurn(r) PROVE Uncounted
  BY <1>7, AnswerUncounted DEF RevokeBurn
<1>8. ASSUME NEW r \in Req, StoreThrows(r) PROVE Uncounted
  BY <1>8, AnswerUncounted DEF StoreThrows, history
<1>9. CASE UNCHANGED vars
  BY <1>9, UncountedKeepsBalance DEF vars, Uncounted, Successors, MintingOf
<1> QED
  BY <1>1, <1>2, <1>3, <1>4, <1>5, <1>6, <1>7, <1>8, <1>9, UncountedKeepsBalance,
     BurnBalanced, MintBalanced, FailsBalanced DEF Next, Arrive, Continue

LEMMA InitBalanced == Init => Balanced
<1> SUFFICES ASSUME Init, NEW t \in TokenId
             PROVE  accepted[t] = Cardinality(Successors(t)) + Cardinality(MintingOf(t)) + failed[t]
  BY DEF Balanced
<1>1. Successors(t) = {} /\ MintingOf(t) = {}
  BY DEF Init, Successors, MintingOf, Idle
<1> QED BY <1>1, FS_EmptySet DEF Init

(***************************************************************************)
(* Every acceptance of a refresh token has its one successor, or the       *)
(* rotation is still to sign it or broke: nobody is logged out for         *)
(* nothing, nor served twice.                                              *)
(***************************************************************************)
THEOREM EveryAcceptanceIsReplaced == Spec => []AcceptedTokenIsReplaced
<1>1. Balanced => AcceptedTokenIsReplaced
  BY DEF Balanced, AcceptedTokenIsReplaced, Successors, MintingOf
<1> QED BY InitTypeInv, NextTypeInv, InitBalanced, NextBalanced, <1>1, PTL DEF Spec
-----------------------------------------------------------------------------
(***************************************************************************)
(* While a user is removed, the tokens rotated for them and the rotations  *)
(* of theirs that are past the user check are together no more than at the *)
(* removal: nobody passes that check any more, and a mint turns one        *)
(* rotation into one token.                                                *)
(***************************************************************************)
Owed ==
  \A u \in User :
    u \notin active =>
      Cardinality(RotatedFor(u)) + Cardinality(PastTheCheck(u)) <= allowed[u]

LEMMA RotatedFinite ==
  ASSUME TypeInv, NEW u
  PROVE  IsFiniteSet(RotatedFor(u)) /\ Cardinality(RotatedFor(u)) \in Nat
<1>1. RotatedFor(u) \subseteq TokenId
  BY DEF RotatedFor, TypeInv, TypeOK
<1> QED BY <1>1, RefreshRotationAssumption, FS_Subset, FS_CardinalityType

\* The first token of a grant came out of no rotation.
LEMMA IssueRotatesNone ==
  ASSUME TypeInv, NEW u \in User, NEW c \in Client, NEW res \in Resource,
         NEW scopes \in SUBSET ScopeName, IssueGrant(u, c, res, scopes)
  PROVE  \A v : RotatedFor(v)' = RotatedFor(v)
<1> DEFINE p == FirstToken(FreshJti, u, c, res, scopes)
<1>1. Signs(FreshJti, p)
  BY IssueSigns
<1>2. p.from = {}
  BY DEF FirstToken
<1> HIDE DEF p
<1> QED BY <1>1, <1>2 DEF Signs, RotatedFor

\* The mint adds one, for the user of its token.
LEMMA MintRotatesOne ==
  ASSUME TypeInv, NEW r \in Req, RotateMint(r)
  PROVE  \A v : RotatedFor(v)' = IF v = refresh[req[r].token].user
                                 THEN RotatedFor(v) \cup {FreshJti} ELSE RotatedFor(v)
<1> DEFINE p == Successor(r)
           u == refresh[req[r].token].user
<1>1. Signs(FreshJti, p) /\ req[r] # Idle
  <2>1. req[r] # Idle
    BY DEF RotateMint, Idle
  <2> QED BY <2>1, MintSigns
<1>2. p.from # {} /\ p.user = u
  BY <1>1, TokenTyped DEF Successor, Payload
<1> HIDE DEF p, u
<1>3. \A v : RotatedFor(v)' = IF v = u THEN RotatedFor(v) \cup {FreshJti} ELSE RotatedFor(v)
  BY <1>1, <1>2 DEF Signs, RotatedFor
<1> QED BY <1>3 DEF u

\* The steps that let nobody removed pass the check, and mint nothing.
NobodyPasses ==
  /\ UNCHANGED <<allowed, active>>
  /\ \A u \in User : u \notin active => PastTheCheck(u)' \subseteq PastTheCheck(u)
  /\ \A u \in User : RotatedFor(u)' = RotatedFor(u)

LEMMA NobodyPassesKeepsOwed ==
  ASSUME TypeInv, Owed, NobodyPasses
  PROVE  Owed'
<1> SUFFICES ASSUME NEW u \in User, u \notin active
             PROVE  Cardinality(RotatedFor(u)) + Cardinality(PastTheCheck(u)') <= allowed[u]
  BY DEF Owed, NobodyPasses
<1>1. PastTheCheck(u)' \subseteq PastTheCheck(u)
  BY DEF NobodyPasses
<1>2. IsFiniteSet(PastTheCheck(u)) /\ Cardinality(PastTheCheck(u)) \in Nat
  BY CountedFinite
<1>3. /\ Cardinality(PastTheCheck(u)') \in Nat
      /\ Cardinality(PastTheCheck(u)') <= Cardinality(PastTheCheck(u))
  BY <1>1, <1>2, FS_Subset, FS_CardinalityType
<1>4. /\ allowed[u] \in Nat /\ Cardinality(RotatedFor(u)) \in Nat
      /\ Cardinality(RotatedFor(u)) + Cardinality(PastTheCheck(u)) <= allowed[u]
  BY RotatedFinite DEF Owed, TypeInv, TypeOK
<1> QED BY <1>2, <1>3, <1>4

LEMMA AnswerPassesNobody ==
  ASSUME TypeInv, NEW r \in Req, Answer(r), UNCHANGED <<allowed, active, refresh>>
  PROVE  NobodyPasses
<1>1. TokensStay
  BY DEF TokensStay
<1> QED BY <1>1, AnswerCounts DEF NobodyPasses, RotatedFor

LEMMA SetActiveOwed ==
  ASSUME TypeInv, Owed, NEW u \in User, SetActive(u)
  PROVE  Owed'
<1> DEFINE n == Cardinality(RotatedFor(u)) + Cardinality(PastTheCheck(u))
<1>1. \A v : PastTheCheck(v)' = PastTheCheck(v) /\ RotatedFor(v)' = RotatedFor(v)
  BY DEF SetActive, PastTheCheck, RotatedFor
<1>2. n \in Nat
  BY CountedFinite, RotatedFinite
<1>3. \A v \in User :
        allowed'[v] = IF v = u THEN (IF u \in active THEN n ELSE 0) ELSE allowed[v]
  BY DEF SetActive, TypeInv, TypeOK
<1>4. \A v \in User : v # u => (v \in active' <=> v \in active)
  BY DEF SetActive
<1>5. u \in active' <=> u \notin active
  BY DEF SetActive
<1> SUFFICES ASSUME NEW v \in User, v \notin active'
             PROVE  Cardinality(RotatedFor(v)') + Cardinality(PastTheCheck(v)') <= allowed'[v]
  BY DEF Owed
<1>6. CASE v = u
  <2>1. allowed'[v] = n
    BY <1>3, <1>5, <1>6
  <2>2. Cardinality(RotatedFor(v)') + Cardinality(PastTheCheck(v)') = n
    BY <1>1, <1>6
  <2> HIDE DEF n
  <2> QED BY <1>2, <2>1, <2>2
<1>7. CASE v # u
  <2>1. allowed'[v] = allowed[v] /\ v \notin active
    BY <1>3, <1>4, <1>7
  <2> QED BY <1>1, <2>1 DEF Owed
<1> QED BY <1>6, <1>7

LEMMA MintOwed ==
  ASSUME TypeInv, Owed, NEW r \in Req, RotateMint(r)
  PROVE  Owed'
<1> DEFINE u == refresh[req[r].token].user
<1>1. req[r].pc = "mint" /\ UNCHANGED <<active, allowed>>
  BY DEF RotateMint, history
<1>2. r \in PastTheCheck(u)
  BY <1>1 DEF PastTheCheck
<1>3. \A v : RotatedFor(v)' = IF v = u THEN RotatedFor(v) \cup {FreshJti} ELSE RotatedFor(v)
  BY MintRotatesOne
<1> HIDE DEF u
<1>4. \A v : PastTheCheck(v)' = PastTheCheck(v) \ {r}
  BY MintCounts
<1>5. FreshJti \notin DOMAIN refresh
  BY MintCounts
<1> SUFFICES ASSUME NEW v \in User, v \notin active
             PROVE  Cardinality(RotatedFor(v)') + Cardinality(PastTheCheck(v)') <= allowed[v]
  BY <1>1 DEF Owed
<1>6. /\ IsFiniteSet(PastTheCheck(v)) /\ Cardinality(PastTheCheck(v)) \in Nat
      /\ IsFiniteSet(RotatedFor(v)) /\ Cardinality(RotatedFor(v)) \in Nat
      /\ allowed[v] \in Nat
      /\ Cardinality(RotatedFor(v)) + Cardinality(PastTheCheck(v)) <= allowed[v]
  BY CountedFinite, RotatedFinite DEF Owed, TypeInv, TypeOK
<1>7. CASE v = u
  <2>1. Cardinality(PastTheCheck(v)') = Cardinality(PastTheCheck(v)) - 1
    <3>1. r \in PastTheCheck(v) /\ PastTheCheck(v)' = PastTheCheck(v) \ {r}
      BY <1>2, <1>4, <1>7
    <3> QED BY <1>6, <3>1, FS_RemoveElement
  <2>2. Cardinality(RotatedFor(v)') = Cardinality(RotatedFor(v)) + 1
    <3>1. FreshJti \notin RotatedFor(v) /\ RotatedFor(v)' = RotatedFor(v) \cup {FreshJti}
      BY <1>3, <1>5, <1>7 DEF RotatedFor
    <3> QED BY <1>6, <3>1, FS_AddElement
  <2> QED BY <1>6, <2>1, <2>2
<1>8. CASE v # u
  <2>1. RotatedFor(v)' = RotatedFor(v) /\ PastTheCheck(v)' = PastTheCheck(v) \ {r}
    BY <1>3, <1>4, <1>8
  <2>2. /\ Cardinality(PastTheCheck(v) \ {r}) \in Nat
        /\ Cardinality(PastTheCheck(v) \ {r}) <= Cardinality(PastTheCheck(v))
    <3>1. PastTheCheck(v) \ {r} \subseteq PastTheCheck(v)
      OBVIOUS
    <3> QED BY <1>6, <3>1, FS_Subset, FS_CardinalityType
  <2> QED BY <1>6, <2>1, <2>2
<1> QED BY <1>7, <1>8

LEMMA NextOwed == TypeInv /\ Owed /\ [Next]_vars => Owed'
<1> SUFFICES ASSUME TypeInv, Owed, [Next]_vars PROVE Owed'
  OBVIOUS
<1>1. CASE Tick
  BY <1>1, NobodyPassesKeepsOwed DEF Tick, history, NobodyPasses, PastTheCheck, RotatedFor
<1>2. ASSUME NEW u \in User, NEW c \in Client, NEW res \in Resource,
             NEW scopes \in SUBSET ScopeName, IssueGrant(u, c, res, scopes)
      PROVE  NobodyPasses
  BY <1>2, IssueCounts, IssueRotatesNone DEF NobodyPasses, IssueGrant, history
<1>3. ASSUME NEW r \in Req, NEW t \in TokenId, NEW client \in Client, NEW res \in Resource,
             NEW wanted \in SUBSET ScopeName, RotateRead(r, t, client, res, wanted)
      PROVE  NobodyPasses
  <2> DEFINE new == [pc |-> "active", token |-> t, client |-> client,
                     scopes |-> NarrowedScopes(refresh[t].scopes, wanted)]
  <2>1. new.pc = "active" /\ req' = [req EXCEPT ![r] = new] /\ req[r] = Idle
        /\ UNCHANGED <<refresh, allowed, active>>
    BY <1>3 DEF RotateRead
  <2> HIDE DEF new
  <2> QED BY <2>1, StartCounts DEF NobodyPasses, RotatedFor
<1>4. ASSUME NEW r \in Req, NEW t \in TokenId, NEW client \in Client, RevokeRead(r, t, client)
      PROVE  NobodyPasses
  <2> DEFINE new == [pc |-> "revoke", token |-> t, client |-> client]
  <2>1. new.pc = "revoke" /\ req' = [req EXCEPT ![r] = new] /\ req[r] = Idle
        /\ UNCHANGED <<refresh, allowed, active>>
    BY <1>4 DEF RevokeRead
  <2> HIDE DEF new
  <2> QED BY <2>1, StartCounts DEF NobodyPasses, RotatedFor
<1>5. ASSUME NEW r \in Req, RotateActive(r) PROVE NobodyPasses
  <2> DEFINE u == refresh[req[r].token].user
  <2>1. /\ req[r].pc = "active" /\ (Answer(r) \/ (u \in active /\ Goto(r, "burn")))
        /\ UNCHANGED <<refresh, allowed, active>>
    BY <1>5 DEF RotateActive, history, IsActive
  <2>2. CASE Answer(r)
    BY <2>1, <2>2, AnswerPassesNobody
  <2>3. CASE u \in active /\ Goto(r, "burn")
    <3>1. \A v : PastTheCheck(v)' = PastTheCheck(v) \cup {s \in {r} : u = v}
      BY <2>1, <2>3, GotoCounts DEF RotatePc
    <3> QED BY <2>1, <2>3, <3>1 DEF NobodyPasses, RotatedFor
  <2> QED BY <2>1, <2>2, <2>3
<1>6. ASSUME NEW r \in Req, RotateBurn(r) PROVE NobodyPasses
  <2> DEFINE u == refresh[req[r].token].user
  <2>1. /\ req[r].pc = "burn" /\ (Answer(r) \/ Goto(r, "mint"))
        /\ UNCHANGED <<refresh, allowed, active>>
    BY <1>6 DEF RotateBurn
  <2>2. CASE Answer(r)
    BY <2>1, <2>2, AnswerPassesNobody
  <2>3. CASE Goto(r, "mint")
    <3>1. \A v : PastTheCheck(v)' = PastTheCheck(v) \cup {s \in {r} : u = v}
      BY <2>1, <2>3, GotoCounts DEF RotatePc
    <3>2. r \in PastTheCheck(u)
      BY <2>1 DEF PastTheCheck
    <3> QED BY <2>1, <3>1, <3>2 DEF NobodyPasses, RotatedFor
  <2> QED BY <2>1, <2>2, <2>3
<1>7. ASSUME NEW r \in Req, RevokeBurn(r) PROVE NobodyPasses
  BY <1>7, AnswerPassesNobody DEF RevokeBurn
<1>8. ASSUME NEW r \in Req, Fails(r) PROVE NobodyPasses
  BY <1>8, AnswerPassesNobody DEF Fails
<1>9. ASSUME NEW r \in Req, StoreThrows(r) PROVE NobodyPasses
  BY <1>9, AnswerPassesNobody DEF StoreThrows, history
<1>10. CASE UNCHANGED vars
  BY <1>10, NobodyPassesKeepsOwed DEF vars, NobodyPasses, PastTheCheck, RotatedFor
<1> QED
  BY <1>1, <1>2, <1>3, <1>4, <1>5, <1>6, <1>7, <1>8, <1>9, <1>10, NobodyPassesKeepsOwed,
     SetActiveOwed, MintOwed DEF Next, Arrive, Continue

LEMMA InitOwed == Init => Owed
<1> SUFFICES ASSUME Init, NEW u \in User
             PROVE  Cardinality(RotatedFor(u)) + Cardinality(PastTheCheck(u)) <= allowed[u]
  BY DEF Owed
<1>1. PastTheCheck(u) = {} /\ RotatedFor(u) = {} /\ allowed[u] = 0
  BY DEF Init, PastTheCheck, RotatedFor, Idle
<1> QED BY <1>1, FS_EmptySet

(***************************************************************************)
(* While a user is removed, no refresh token is rotated for them but by    *)
(* the rotations that were past the user check at the removal, in old      *)
(* grants as in grants begun by a code redeemed since, however long the    *)
(* clock runs and whatever failures come between.                          *)
(***************************************************************************)
THEOREM RemovedUserGetsNoMore == Spec => []RemovedUserRunsOut
<1>1. TypeInv /\ Owed => RemovedUserRunsOut
  <2> SUFFICES ASSUME TypeInv, Owed, NEW u \in User, u \notin active
               PROVE  Cardinality(RotatedFor(u)) <= allowed[u]
    BY DEF RemovedUserRunsOut
  <2>1. Cardinality(RotatedFor(u)) + Cardinality(PastTheCheck(u)) <= allowed[u]
    BY DEF Owed
  <2>2. /\ Cardinality(RotatedFor(u)) \in Nat /\ Cardinality(PastTheCheck(u)) \in Nat
        /\ allowed[u] \in Nat
    BY CountedFinite, RotatedFinite DEF TypeInv, TypeOK
  <2> QED BY <2>1, <2>2
<1> QED BY InitTypeInv, NextTypeInv, InitOwed, NextOwed, <1>1, PTL DEF Spec
-----------------------------------------------------------------------------
(* A grant is one line: every step of the server is a step of the abstract *)
(* line of each grant, or leaves it where it is.                           *)

Issued(g) == g \in DOMAIN refresh /\ refresh[g].root = g

\* Where the line of a grant is, and what keeps it there.
LEMMA LineCases ==
  ASSUME NEW g \in TokenId
  PROVE  /\ ~Issued(g) /\ UsableOf(g) = {} => GrantLine[g] = Grants!Unissued
         /\ \A x : Issued(g) /\ UsableOf(g) = {x} => GrantLine[g] = Grants!Live(x)
         /\ Issued(g) /\ UsableOf(g) = {} =>
              GrantLine[g] = IF UnderRotation(g) THEN Grants!Between ELSE Grants!Ended
         /\ Issued(g) => GrantLine[g] # Grants!Unissued
BY DEF GrantLine, Issued, Grants!Unissued, Grants!Live, Grants!Between, Grants!Ended

LEMMA LineCasesNext ==
  ASSUME NEW g \in TokenId
  PROVE  /\ \A x : Issued(g)' /\ UsableOf(g)' = {x} => GrantLine'[g] = Grants!Live(x)
         /\ Issued(g)' /\ UsableOf(g)' = {} =>
              GrantLine'[g] = IF UnderRotation(g)' THEN Grants!Between ELSE Grants!Ended
BY DEF GrantLine, Issued, Grants!Live, Grants!Between, Grants!Ended

LEMMA SameLine ==
  ASSUME NEW g \in TokenId, Issued(g)' <=> Issued(g), UsableOf(g)' = UsableOf(g),
         UnderRotation(g)' <=> UnderRotation(g)
  PROVE  GrantLine'[g] = GrantLine[g]
BY DEF GrantLine, Issued

\* A step that moves one line and leaves the others.
LEMMA OneLineMoves ==
  ASSUME NEW g \in TokenId, NEW x, GrantLine'[g] = x,
         \A h \in TokenId \ {g} : GrantLine'[h] = GrantLine[h]
  PROVE  GrantLine' = [GrantLine EXCEPT ![g] = x]
<1>1. GrantLine = [h \in TokenId |-> GrantLine[h]] /\ GrantLine' = [h \in TokenId |-> GrantLine'[h]]
  BY DEF GrantLine
<1> QED BY <1>1

LEMMA NoLineMoves ==
  ASSUME \A g \in TokenId : GrantLine'[g] = GrantLine[g]
  PROVE  [Grants!Next]_GrantLine
<1>1. GrantLine = [h \in TokenId |-> GrantLine[h]] /\ GrantLine' = [h \in TokenId |-> GrantLine'[h]]
  BY DEF GrantLine
<1> QED BY <1>1

LEMMA LineFacts ==
  ASSUME TypeInv, GrantInv, NEW g \in TokenId
  PROVE  /\ UsableOf(g) # {} => Issued(g) /\ ~UnderRotation(g)
         /\ \A t \in UsableOf(g) : UsableOf(g) = {t} /\ t \in TokenId /\ refresh[g].exp >= now
         /\ UnderRotation(g) => Issued(g)
<1>1. \A t \in DOMAIN refresh :
        /\ refresh[t].root \in DOMAIN refresh /\ refresh[refresh[t].root].root = refresh[t].root
        /\ refresh[refresh[t].root].exp = refresh[t].exp
  BY GrantFields DEF TypeInv, GrantInv
<1>2. \A t \in UsableOf(g) :
        /\ t \in DOMAIN refresh /\ refresh[t].root = g /\ Usable(t) /\ t \in TokenId
  BY DEF UsableOf, TypeInv, TypeOK
<1>3. \A t \in UsableOf(g) : Issued(g) /\ refresh[g].exp >= now
  BY <1>1, <1>2 DEF Issued, Usable
<1>4. \A t \in UsableOf(g) : UsableOf(g) = {t}
  BY <1>2 DEF UsableOf, GrantInv, OneLine, OneUsableTokenPerGrant
<1>5. \A t \in UsableOf(g) : ~UnderRotation(g)
  BY <1>2 DEF UnderRotation, GrantInv, OneLine, Minting, Root
<1>6. UnderRotation(g) => Issued(g)
  <2>1. ASSUME NEW r \in Req, req[r].pc = "mint", refresh[req[r].token].root = g
        PROVE  Issued(g)
    <3>1. req[r].token \in DOMAIN refresh
      BY <2>1, TokenTyped DEF Idle
    <3> QED BY <1>1, <2>1, <3>1 DEF Issued
  <2> QED BY <2>1 DEF UnderRotation
<1> QED BY <1>2, <1>3, <1>4, <1>5, <1>6

\* A quiet step ends lines, by the clock or by a mark, and moves none otherwise.
LEMMA QuietEndsLines ==
  ASSUME TypeInv, GrantInv, Quiet
  PROVE  [Grants!Next]_GrantLine
<1>1. now \in Nat /\ \A t \in DOMAIN refresh : refresh[t].exp \in Nat
  BY DEF TypeInv, TypeOK, Payload
<1>2. ASSUME NEW g \in TokenId
      PROVE  GrantLine'[g] = GrantLine[g] \/ (Issued(g) /\ GrantLine'[g] = Grants!Ended)
  <2>1. Issued(g)' <=> Issued(g)
    BY DEF Issued, Quiet
  <2>2. UsableOf(g)' \subseteq UsableOf(g)
    BY <1>1 DEF UsableOf, Usable, Quiet
  <2>3. Issued(g) /\ UnderRotation(g)' => UnderRotation(g)
    BY <1>1 DEF UnderRotation, Issued, Quiet, Minting
  <2>4. CASE UsableOf(g)' # {}
    <3>1. UsableOf(g)' = UsableOf(g) /\ Issued(g) /\ ~UnderRotation(g)
      BY <2>2, <2>4, LineFacts
    <3> QED BY <2>1, <2>3, <3>1, SameLine
  <2>5. CASE UsableOf(g)' = {} /\ Issued(g)
    <3>1. CASE UnderRotation(g)'
      <4>1. UsableOf(g) = {}
        BY <2>3, <2>5, <3>1, LineFacts
      <4> QED BY <2>1, <2>3, <2>5, <3>1, <4>1, SameLine
    <3>2. CASE ~UnderRotation(g)'
      BY <2>1, <2>5, <3>2, LineCasesNext
    <3> QED BY <3>1, <3>2
  <2>6. CASE ~Issued(g)
    <3>1. UsableOf(g) = {} /\ UsableOf(g)' = {}
      BY <2>2, <2>6, LineFacts
    <3> QED BY <2>1, <2>6, <3>1 DEF GrantLine, Issued
  <2> QED BY <2>4, <2>5, <2>6
<1> DEFINE L == {g \in TokenId : GrantLine'[g] # GrantLine[g]}
<1>3. \A g \in L : GrantLine[g] # Grants!Unissued
  BY <1>2, LineCases
<1>4. \A g \in TokenId : GrantLine'[g] = IF g \in L THEN Grants!Ended ELSE GrantLine[g]
  BY <1>2
<1>5. GrantLine' = [g \in TokenId |-> GrantLine'[g]]
  BY DEF GrantLine
<1> HIDE DEF L
<1>6. GrantLine' = [g \in TokenId |-> IF g \in L THEN Grants!Ended ELSE GrantLine[g]]
  BY <1>4, <1>5
<1>7. L \in SUBSET TokenId
  BY DEF L
<1>8. Grants!End(L)
  BY <1>3, <1>6 DEF Grants!End
<1> QED BY <1>7, <1>8 DEF Grants!Next

LEMMA IssueBeginsALine ==
  ASSUME TypeInv, GrantInv, NEW u \in User, NEW c \in Client, NEW res \in Resource,
         NEW scopes \in SUBSET ScopeName, IssueGrant(u, c, res, scopes)
  PROVE  [Grants!Next]_GrantLine
<1> DEFINE p == FirstToken(FreshJti, u, c, res, scopes)
<1>0. p \in Payload /\ Signs(FreshJti, p)
  BY IssueSigns
<1>1. PICK t \in TokenId : t = FreshJti /\ p \in Payload /\ Signs(t, p)
  BY <1>0 DEF Signs
<1>2. UNCHANGED <<now, spent, req>>
  BY DEF IssueGrant
<1>3. p.root = t /\ p.exp >= now
  <2>1. now \in Nat /\ Lifetime \in Nat
    BY RefreshRotationAssumption DEF TypeInv, TypeOK
  <2> QED BY <1>1, <2>1 DEF FirstToken
<1> HIDE DEF p
<1>4. \A s \in DOMAIN refresh :
        /\ s \in DOMAIN refresh' /\ refresh'[s] = refresh[s] /\ s # t
        /\ refresh[s].root \in DOMAIN refresh
        /\ refresh'[refresh[s].root] = refresh[refresh[s].root]
        /\ Usable(s)' <=> Usable(s)
  BY <1>1, <1>2, SignsKeepsOld DEF TypeInv, GrantInv
<1>5. t \in TokenId /\ t \notin DOMAIN refresh /\ refresh'[t] = p
      /\ DOMAIN refresh' = DOMAIN refresh \cup {t}
  BY <1>1 DEF Signs
<1>6. Usable(t)'
  BY <1>2, <1>3, <1>5 DEF Usable, GrantInv, MarkedIsIssued
<1>7. UsableOf(t)' = {t} /\ Issued(t)' /\ ~Issued(t)
  BY <1>3, <1>4, <1>5, <1>6 DEF UsableOf, Issued
<1>8. GrantLine[t] = Grants!Unissued
  BY <1>5, <1>7, LineCases, LineFacts
<1>9. GrantLine'[t] = Grants!Live(t)
  BY <1>5, <1>7, LineCasesNext
<1>10. \A g \in TokenId \ {t} : GrantLine'[g] = GrantLine[g]
  <2> SUFFICES ASSUME NEW g \in TokenId \ {t} PROVE GrantLine'[g] = GrantLine[g]
    OBVIOUS
  <2>1. Issued(g)' <=> Issued(g)
    BY <1>4, <1>5 DEF Issued
  <2>2. UsableOf(g)' = UsableOf(g)
    BY <1>3, <1>4, <1>5 DEF UsableOf
  <2>3. \A r \in Req : req[r].pc = "mint" => req[r].token \in DOMAIN refresh
    BY TokenTyped DEF Idle
  <2>4. Issued(g) => (UnderRotation(g)' <=> UnderRotation(g))
    BY <1>2, <1>4, <2>3 DEF UnderRotation, Issued
  <2>5. CASE Issued(g)
    BY <2>1, <2>2, <2>4, <2>5, SameLine
  <2>6. CASE ~Issued(g)
    BY <2>1, <2>2, <2>6 DEF GrantLine, Issued
  <2> QED BY <2>5, <2>6
<1>11. GrantLine' = [GrantLine EXCEPT ![t] = Grants!Live(t)]
  BY <1>5, <1>9, <1>10, OneLineMoves
<1>12. Grants!Begin(t)
  BY <1>5, <1>8, <1>11 DEF Grants!Begin
<1> QED BY <1>5, <1>12 DEF Grants!Next
\* The requests that the step of r leaves alone rotate what they rotated.
LEMMA OthersRotateOn ==
  ASSUME TypeInv, NEW r \in Req, req[r] # Idle, NEW g \in TokenId, Issued(g), Root(r) # g,
         now' = now, TokensStay, \A q \in Req \ {r} : req'[q] = req[q],
         Minting(r)' => Root(r)' # g
  PROVE  UnderRotation(g)' <=> UnderRotation(g)
<1>1. \A q \in Req : req[q].pc = "mint" => req[q].token \in DOMAIN refresh
  BY TokenTyped DEF Idle
<1>2. \A q \in Req \ {r} : req'[q].pc = "mint" <=> req[q].pc = "mint"
  OBVIOUS
<1>3. \A q \in Req \ {r} : req[q].pc = "mint" =>
        refresh'[req'[q].token].root = refresh[req[q].token].root
  BY <1>1 DEF TokensStay
<1>4. refresh'[g] = refresh[g]
  BY DEF TokensStay, Issued
<1> QED BY <1>2, <1>3, <1>4 DEF UnderRotation, Minting, Root

LEMMA BurnSpendsALine ==
  ASSUME TypeInv, GrantInv, NEW r \in Req, RotateBurn(r), Goto(r, "mint")
  PROVE  [Grants!Next]_GrantLine
<1>1. req[r].pc = "burn" /\ req[r] # Idle
  BY DEF RotateBurn, Idle
<1>2. PICK t \in DOMAIN refresh : t = req[r].token /\ t \in TokenId /\ now \in Nat
  <2>1. req[r].token \in DOMAIN refresh /\ req[r].token \in TokenId
    BY <1>1, TokenTyped
  <2>2. now \in Nat
    BY DEF TypeInv, TypeOK
  <2> QED BY <2>1, <2>2
<1>3. /\ req'[r].pc = "mint" /\ req'[r].token = t
      /\ \A q \in Req \ {r} : req'[q] = req[q]
  BY <1>1, <1>2, GotoTyped DEF TypeInv, RotatePc
<1>4. PICK fresh \in BOOLEAN :
        /\ BurnRefresh(t, fresh)
        /\ IF Burned(fresh) THEN Goto(r, "mint") ELSE Answer(r)
  BY <1>2 DEF RotateBurn
<1>5. fresh
  BY <1>3, <1>4, AnswerTyped DEF Burned, Idle, TypeInv
<1>6. /\ spent' = spent \cup {JtiKey(t)}
      /\ refresh[t].exp >= now => JtiKey(t) \notin spent
      /\ UNCHANGED <<now, refresh, access>>
  <2>1. refresh[t].exp \in Nat
    BY <1>2 DEF TypeInv, TypeOK, Payload
  <2> QED BY <1>2, <1>4, <1>5, <2>1 DEF BurnRefresh, Consume, Answers, RotateBurn
<1>7. PICK g \in TokenId :
        /\ g = refresh[t].root /\ Issued(g) /\ refresh[g].exp = refresh[t].exp
        /\ \A s \in DOMAIN refresh : refresh[s].root = g => refresh[s].exp = refresh[t].exp
  <2>1. refresh[t].root \in DOMAIN refresh /\ refresh[t].root \in TokenId
    BY <1>2, GrantFields DEF TypeInv, GrantInv, TypeOK
  <2>2. Issued(refresh[t].root) /\ refresh[refresh[t].root].exp = refresh[t].exp
    BY <1>2, <2>1, GrantFields DEF TypeInv, GrantInv, Issued
  <2>3. \A s \in DOMAIN refresh :
          refresh[s].root = refresh[t].root => refresh[s].exp = refresh[t].exp
    BY <1>2, GrantFields DEF TypeInv, GrantInv
  <2> QED BY <2>1, <2>2, <2>3
<1>8. Issued(g)' /\ Minting(r)' /\ Root(r)' = g /\ Root(r) = g
  BY <1>2, <1>3, <1>6, <1>7 DEF Issued, Minting, Root
<1>9. UsableOf(g)' = {}
  <2>1. GrantInv'
    BY BurnKeepsGrant
  <2>2. \A s \in DOMAIN refresh' : Minting(r)' /\ refresh'[s].root = Root(r)' => ~Usable(s)'
    BY <2>1 DEF GrantInv, OneLine
  <2> QED BY <1>8, <2>2 DEF UsableOf
<1>10. ASSUME NEW h \in TokenId \ {g} PROVE GrantLine'[h] = GrantLine[h]
  <2>1. Issued(h)' <=> Issued(h)
    BY <1>6 DEF Issued
  <2>2. \A s \in DOMAIN refresh : refresh[s].root = h => s # t
    BY <1>7
  <2>3. \A s \in DOMAIN refresh : refresh[s].root = h => (Usable(s)' <=> Usable(s))
    BY <1>6, <2>2, KeysAreDistinct DEF Usable
  <2>4. UsableOf(h)' = UsableOf(h)
    BY <1>6, <2>3 DEF UsableOf
  <2>5. CASE Issued(h)
    <3>1. UnderRotation(h)' <=> UnderRotation(h)
      BY <1>1, <1>3, <1>6, <1>8, <2>5, OthersRotateOn DEF TokensStay
    <3> QED BY <2>1, <2>4, <3>1, SameLine
  <2>6. CASE ~Issued(h)
    BY <2>1, <2>4, <2>6 DEF GrantLine, Issued
  <2> QED BY <2>5, <2>6
<1>11. CASE refresh[t].exp >= now
  <2>1. t \in UsableOf(g)
    BY <1>6, <1>7, <1>11 DEF UsableOf, Usable
  <2>2. UsableOf(g) = {t}
    BY <2>1, LineFacts
  <2>3. GrantLine[g].at = "live"
    <3>1. GrantLine[g] = Grants!Live(t)
      BY <1>7, <2>2, LineCases
    <3> QED BY <3>1 DEF Grants!Live
  <2>4. UnderRotation(g)'
    BY <1>6, <1>7, <1>8, <1>11 DEF UnderRotation, Minting, Root
  <2>5. GrantLine'[g] = Grants!Between
    BY <1>8, <1>9, <2>4, LineCasesNext
  <2>6. GrantLine' = [GrantLine EXCEPT ![g] = Grants!Between]
    BY <1>10, <2>5, OneLineMoves
  <2> QED BY <2>3, <2>6 DEF Grants!Next, Grants!Spend
<1>12. CASE ~(refresh[t].exp >= now)
  <2>1. UsableOf(g) = {}
    BY <1>7, <1>12 DEF UsableOf, Usable
  <2>2. ~UnderRotation(g) /\ ~UnderRotation(g)'
    BY <1>6, <1>7, <1>12 DEF UnderRotation
  <2>3. GrantLine'[g] = GrantLine[g]
    BY <1>7, <1>8, <1>9, <2>1, <2>2, SameLine
  <2>4. \A h \in TokenId : GrantLine'[h] = GrantLine[h]
    BY <1>10, <2>3
  <2> QED BY <2>4, NoLineMoves
<1> QED BY <1>11, <1>12

LEMMA MintReplacesALine ==
  ASSUME TypeInv, GrantInv, NEW r \in Req, RotateMint(r)
  PROVE  [Grants!Next]_GrantLine
<1>1. req[r].pc = "mint" /\ req[r] # Idle /\ Answer(r) /\ UNCHANGED <<now, spent>>
  BY DEF RotateMint, Idle
<1>2. PICK old \in DOMAIN refresh :
        old = req[r].token /\ old \in TokenId /\ refresh[old] \in Payload
  BY <1>1, TokenTyped
<1> DEFINE p == Successor(r)
<1>3. p.root = refresh[old].root /\ p.exp = refresh[old].exp
  BY <1>2 DEF Successor, Payload
<1>4. p \in Payload /\ Signs(FreshJti, p)
  BY MintSigns
<1> HIDE DEF p
<1>5. PICK t \in TokenId :
        /\ t \notin DOMAIN refresh /\ refresh'[t] = p /\ DOMAIN refresh' = DOMAIN refresh \cup {t}
        /\ Signs(t, p)
  BY <1>4 DEF Signs
<1>6. \A s \in DOMAIN refresh :
        /\ s \in DOMAIN refresh' /\ refresh'[s] = refresh[s] /\ s # t
        /\ refresh[s].root \in DOMAIN refresh
        /\ refresh'[refresh[s].root] = refresh[refresh[s].root]
        /\ Usable(s)' <=> Usable(s)
  BY <1>1, <1>5, SignsKeepsOld DEF TypeInv, GrantInv
<1>7. TokensStay
  BY <1>6 DEF TokensStay
<1>8. PICK g \in TokenId :
        /\ g = refresh[old].root /\ Issued(g) /\ refresh[g].exp = refresh[old].exp
        /\ \A s \in DOMAIN refresh : refresh[s].root = g => refresh[s].exp = refresh[old].exp
  <2>1. refresh[old].root \in DOMAIN refresh /\ refresh[old].root \in TokenId
    BY <1>2, GrantFields DEF TypeInv, GrantInv, TypeOK
  <2>2. Issued(refresh[old].root) /\ refresh[refresh[old].root].exp = refresh[old].exp
    BY <1>2, <2>1, GrantFields DEF TypeInv, GrantInv, Issued
  <2>3. \A s \in DOMAIN refresh :
          refresh[s].root = refresh[old].root => refresh[s].exp = refresh[old].exp
    BY <1>2, GrantFields DEF TypeInv, GrantInv
  <2> QED BY <2>1, <2>2, <2>3
<1>9. Minting(r) /\ Root(r) = g
  BY <1>1, <1>2, <1>8 DEF Minting, Root
<1>10. UsableOf(g) = {}
  BY <1>9 DEF UsableOf, GrantInv, OneLine
<1>11. \A q \in Req \ {r} : req'[q] = req[q]
  BY <1>1, AnswerTyped DEF TypeInv
<1>12. ~Minting(r)'
  BY <1>1, AnswerTyped DEF TypeInv, Minting, Idle
<1>13. \A h \in TokenId : Issued(h)' <=> Issued(h)
  <2>1. ~Issued(t)' /\ ~Issued(t)
    BY <1>3, <1>5, <1>8 DEF Issued
  <2>2. ASSUME NEW h \in TokenId \ {t} PROVE Issued(h)' <=> Issued(h)
    BY <1>5, <1>6 DEF Issued
  <2> QED BY <2>1, <2>2
<1>14. ASSUME NEW h \in TokenId \ {g} PROVE GrantLine'[h] = GrantLine[h]
  <2>1. UsableOf(h)' = UsableOf(h)
    BY <1>3, <1>5, <1>6, <1>8 DEF UsableOf
  <2>2. CASE Issued(h)
    <3>1. UnderRotation(h)' <=> UnderRotation(h)
      BY <1>1, <1>7, <1>9, <1>11, <1>12, <2>2, OthersRotateOn
    <3> QED BY <1>13, <2>1, <3>1, SameLine
  <2>3. CASE ~Issued(h)
    BY <1>13, <2>1, <2>3 DEF GrantLine, Issued
  <2> QED BY <2>2, <2>3
<1>15. CASE refresh[old].exp >= now
  <2>1. UnderRotation(g)
    BY <1>1, <1>2, <1>8, <1>15 DEF UnderRotation
  <2>2. GrantLine[g] = Grants!Between
    BY <1>8, <1>10, <2>1, LineCases
  <2>3. Usable(t)'
    BY <1>1, <1>3, <1>5, <1>15 DEF Usable, GrantInv, MarkedIsIssued
  <2>4. UsableOf(g)' = {t}
    BY <1>3, <1>5, <1>6, <1>8, <1>10, <2>3 DEF UsableOf
  <2>5. GrantLine'[g] = Grants!Live(t)
    BY <1>8, <1>13, <2>4, LineCasesNext
  <2>6. GrantLine' = [GrantLine EXCEPT ![g] = Grants!Live(t)]
    BY <1>14, <2>5, OneLineMoves
  <2> QED BY <2>2, <2>6 DEF Grants!Next, Grants!Replace
<1>16. CASE ~(refresh[old].exp >= now)
  <2>1. ~Usable(t)'
    BY <1>1, <1>3, <1>5, <1>16 DEF Usable
  <2>2. UsableOf(g)' = UsableOf(g)
    BY <1>5, <1>6, <1>10, <2>1 DEF UsableOf
  <2>3. ~UnderRotation(g) /\ ~UnderRotation(g)'
    BY <1>1, <1>6, <1>8, <1>16 DEF UnderRotation, Issued
  <2>4. GrantLine'[g] = GrantLine[g]
    BY <1>13, <2>2, <2>3, SameLine
  <2>5. \A h \in TokenId : GrantLine'[h] = GrantLine[h]
    BY <1>14, <2>4
  <2> QED BY <2>5, NoLineMoves
<1> QED BY <1>15, <1>16

LEMMA InitUnissued == Init => Grants!Init
<1> SUFFICES ASSUME Init PROVE Grants!Init
  OBVIOUS
<1>1. DOMAIN refresh = {}
  BY DEF Init
<1>2. GrantLine = [g \in TokenId |-> Grants!Unissued]
  BY <1>1 DEF GrantLine, UsableOf, Grants!Unissued
<1> QED BY <1>2 DEF Grants!Init

(***************************************************************************)
(* A grant is one line: it works in one refresh token, or is with the one  *)
(* rotation that has burned a token and owes the next, or has ended for    *)
(* good.  rotateRefresh, issueRefresh and revokeRefresh implement          *)
(* CredentialLine, for grants of any length and any number of them.        *)
(***************************************************************************)
THEOREM OneLinePerGrant == Spec => GrantIsOneLine
<1>1. TypeInv /\ GrantInv /\ [Next]_vars => [Grants!Next]_GrantLine
  BY QuietOrNot, QuietEndsLines, IssueBeginsALine, BurnSpendsALine, MintReplacesALine
<1> QED BY InitTypeInv, NextTypeInv, InitGrantInv, NextGrantInv, InitUnissued, <1>1, PTL
        DEF Spec, GrantIsOneLine, Grants!Spec

=============================================================================
