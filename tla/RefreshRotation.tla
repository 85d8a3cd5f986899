---------------------------- MODULE RefreshRotation ----------------------------
(***************************************************************************)
(* The refresh tokens of signedTokenAuth: issued with the access token     *)
(* when a code is exchanged, rotated by grant_type refresh_token at        *)
(* /token, burned at /revoke.  A token is a signed payload, not a row: the *)
(* ids below stand for the signed strings, anybody may present any that    *)
(* was issued, and the only stored state is the mark of its jti.           *)
(*                                                                         *)
(* The client of a request is the id that firstClientAuthError admitted    *)
(* (ClientPolicy!Authenticates), which says nothing about whose token the  *)
(* request carries.                                                        *)
(***************************************************************************)
EXTENDS SingleUse, FiniteSets

CONSTANTS
  Req, User, Client, Resource,
  ScopeName, Advertised,
  TokenId,      \* the jti values of refresh tokens
  Lifetime,     \* refreshTtlSeconds, in time steps
  MaxNow,       \* bound on the clock
  MaxGrants,    \* bound on the code exchanges
  Faults        \* whether ports may throw and instances may die

ASSUME RefreshRotationAssumption ==
  /\ Lifetime \in Nat /\ MaxNow \in Nat /\ MaxGrants \in Nat
  /\ Advertised \subseteq ScopeName
  /\ Faults \in BOOLEAN
  /\ IsFiniteSet(TokenId) /\ IsFiniteSet(Req)    \* as those of any one behaviour are

VARIABLES
  active,      \* the users isUserActive answers true for
  refresh,     \* refresh tokens signed so far: id -> payload
  req,         \* the requests in flight
  access,      \* history: the access tokens minted
  accepted,    \* history: how often each refresh token was rotated
  revoked,     \* history: tokens that /revoke answered 200 for while they were unexpired
  failed,      \* history: how often a rotation broke between the burn and the new pair
  allowed      \* history: how many rotated tokens a removed user may have, fixed at the removal

history == <<accepted, revoked, failed, allowed>>
vars == <<now, spent, active, refresh, req, access, accepted, revoked, failed, allowed>>

Payload == [user : User, client : Client, audience : Resource,
            scopes : SUBSET ScopeName, exp : Nat,
            root : TokenId,             \* ghost: the first token of the grant
            from : SUBSET TokenId]      \* ghost: the token this one replaced

Access == [user : User, client : Client, audience : Resource,
           scopes : SUBSET ScopeName, root : TokenId]

Idle == [pc |-> "idle"]

RotateRequest == [pc : {"active", "burn", "mint"}, token : TokenId,
                  client : Client, scopes : SUBSET ScopeName]

RevokeRequest == [pc : {"revoke"}, token : TokenId, client : Client]

JtiKey(t) == <<"rt", t>>     \* `rt:${jti}` in the shared codeStore

Key == {"rt"} \X TokenId

Put(f, x, v) == [y \in DOMAIN f \cup {x} |-> IF y = x THEN v ELSE f[y]]

Answer(r) == req' = [req EXCEPT ![r] = Idle]

Goto(r, pc) == req' = [req EXCEPT ![r].pc = pc]

\* Bound: a request that will need a jti starts only while one is left for it.
Rotating == {r \in Req : req[r].pc \in {"active", "burn", "mint"}}
JtiLeft == Cardinality(TokenId \ DOMAIN refresh) > Cardinality(Rotating)

\* Bound: how many code exchanges there are.
GrantLeft == Cardinality({t \in DOMAIN refresh : refresh[t].root = t}) < MaxGrants

\* randomBase64Url: which of the unused values it is makes no difference.
FreshJti == CHOOSE t \in TokenId : t \notin DOMAIN refresh

Init ==
  /\ now = 0
  /\ spent = {}
  /\ active \in SUBSET User
  /\ refresh = [t \in {} |-> {}]
  /\ req = [r \in Req |-> Idle]
  /\ access = {}
  /\ accepted = [t \in TokenId |-> 0]
  /\ revoked = {}
  /\ failed = [t \in TokenId |-> 0]
  /\ allowed = [u \in User |-> 0]

-----------------------------------------------------------------------------
Tick ==
  /\ now < MaxNow
  /\ now' = now + 1
  /\ UNCHANGED <<spent, active, refresh, req, access, history>>

PastTheCheck(u) ==
  {r \in Req : req[r].pc \in {"burn", "mint"} /\ refresh[req[r].token].user = u}

\* The refresh tokens of the user that came out of a rotation, in any grant.
RotatedFor(u) == {t \in DOMAIN refresh : refresh[t].user = u /\ refresh[t].from # {}}

\* The host removes a user, or takes one back.
SetActive(u) ==
  /\ active' = (active \ {u}) \cup ({u} \ active)
  /\ allowed' = [allowed EXCEPT ![u] =
       IF u \in active THEN Cardinality(RotatedFor(u)) + Cardinality(PastTheCheck(u)) ELSE 0]
  /\ UNCHANGED <<now, spent, refresh, req, access, accepted, revoked, failed>>

(* Fault: two arguments of the minter are swapped. *)
AccessForSwapped(p, client, scopes) ==
  [user |-> p.user, client |-> p.audience, audience |-> client,
   scopes |-> scopes, root |-> p.root]

AccessFor(p, client, scopes) ==
  [user |-> p.user, client |-> client, audience |-> p.audience,
   scopes |-> scopes, root |-> p.root]

\* issueRefresh: the lifetime of the grant starts with its first refresh token.
FirstToken(t, u, c, res, scopes) ==
  [user |-> u, client |-> c, audience |-> res, scopes |-> scopes,
   exp |-> now + Lifetime, root |-> t, from |-> {}]

(***************************************************************************)
(* mintAccessToken of a redeemed code (AuthFlow!TokenMint): the pair of an *)
(* access token and the first refresh token of the grant.  isUserActive is *)
(* not asked here.                                                         *)
(***************************************************************************)
IssueGrant(u, c, res, scopes) ==
  /\ JtiLeft /\ GrantLeft
  /\ scopes \subseteq Advertised
  /\ LET p == FirstToken(FreshJti, u, c, res, scopes)
     IN /\ refresh' = Put(refresh, FreshJti, p)
        /\ access' = access \cup {AccessFor(p, c, scopes)}
  /\ UNCHANGED <<now, spent, active, req, history>>

-----------------------------------------------------------------------------
(* grant_type refresh_token: handleRefresh, then rotateRefresh. *)

\* readRefresh: signed by this server (verifyPayload), and not expired on the clock
\* of this moment (parseGrantClaims).
Readable(t) == t \in DOMAIN refresh /\ refresh[t].exp >= now

(* Fault: whoever holds a token may use it up. *)
OwnedByTheHolder(t, client) == TRUE

\* The token carries a hash of the client it was issued to.
OwnedBy(t, client) == refresh[t].client = client

NarrowedScopes(granted, wanted) == IF wanted = {} THEN granted ELSE wanted

(***************************************************************************)
(* Every check on the caller's input.  wanted = {} is an omitted scope; a  *)
(* refused request changes nothing.                                        *)
(***************************************************************************)
RotateRead(r, t, client, res, wanted) ==
  /\ req[r] = Idle
  /\ JtiLeft
  /\ wanted \subseteq Advertised
  /\ Readable(t)
  /\ OwnedBy(t, client)
  /\ refresh[t].audience = res
  /\ wanted \subseteq refresh[t].scopes
  /\ req' = [req EXCEPT ![r] =
       [pc |-> "active", token |-> t, client |-> client,
        scopes |-> NarrowedScopes(refresh[t].scopes, wanted)]]
  /\ UNCHANGED <<now, spent, active, refresh, access, accepted, revoked, failed, allowed>>

(* Fault: any answer about the user but an exception will do. *)
ActiveUnlessThrown(u) == TRUE

IsActive(u) == u \in active

RotateActive(r) ==
  /\ req[r].pc = "active"
  /\ IF IsActive(refresh[req[r].token].user) THEN Goto(r, "burn") ELSE Answer(r)
  /\ UNCHANGED <<now, spent, active, refresh, access, history>>

BurnRefresh(t, fresh) == Consume(JtiKey(t), refresh[t].exp, fresh)

(* Fault: any answer of the store but an exception will do. *)
BurnedUnlessThrown(fresh) == TRUE

\* Only a store that answers true has burned the token.
Burned(fresh) == fresh

RotateBurn(r) ==
  /\ req[r].pc = "burn"
  /\ LET t == req[r].token
     IN \E fresh \in BOOLEAN :
        /\ BurnRefresh(t, fresh)
        /\ accepted' = [accepted EXCEPT ![t] = IF fresh THEN @ + 1 ELSE @]
        /\ IF Burned(fresh) THEN Goto(r, "mint") ELSE Answer(r)
  /\ UNCHANGED <<now, active, refresh, access, revoked, failed, allowed>>

(* Fault: a request for fewer scopes narrows the grant for good. *)
NarrowedSuccessor(r) ==
  [refresh[req[r].token] EXCEPT !.scopes = req[r].scopes, !.from = {req[r].token}]

\* The old token under a new jti.
Successor(r) == [refresh[req[r].token] EXCEPT !.from = {req[r].token}]

Mints(r) ==
  /\ access' = access \cup
       {AccessFor(refresh[req[r].token], req[r].client, req[r].scopes)}
  /\ refresh' = Put(refresh, FreshJti, Successor(r))

(* Fault: the user is checked once more after the burn. *)
RotateMintIfActive(r) ==
  /\ req[r].pc = "mint"
  /\ IF refresh[req[r].token].user \in active
     THEN Mints(r)
     ELSE UNCHANGED <<access, refresh>>
  /\ Answer(r)
  /\ UNCHANGED <<now, spent, active, history>>

(***************************************************************************)
(* The new pair: an access token of the narrowed scopes, and a successor   *)
(* of the whole grant.                                                     *)
(***************************************************************************)
RotateMint(r) ==
  /\ req[r].pc = "mint"
  /\ Mints(r)
  /\ Answer(r)
  /\ UNCHANGED <<now, spent, active, history>>

-----------------------------------------------------------------------------
(* POST /revoke: revokeRefresh.  A foreign or unusable token is a silent   *)
(* 200 that changes nothing.                                               *)

RevokeRead(r, t, client) ==
  /\ req[r] = Idle
  /\ Readable(t)
  /\ OwnedBy(t, client)
  /\ req' = [req EXCEPT ![r] = [pc |-> "revoke", token |-> t, client |-> client]]
  /\ UNCHANGED <<now, spent, active, refresh, access, accepted, revoked, failed, allowed>>

(* Fault: the 200 does not wait for the store. *)
RevokeWithoutBurn(r) ==
  /\ req[r].pc = "revoke"
  /\ LET t == req[r].token
     IN revoked' = IF refresh[t].exp >= now THEN revoked \cup {t} ELSE revoked
  /\ Answer(r)
  /\ UNCHANGED <<now, spent, active, refresh, access, accepted, failed, allowed>>

\* The answer is 200 whether or not the token was still fresh.
RevokeBurn(r) ==
  /\ req[r].pc = "revoke"
  /\ LET t == req[r].token
     IN /\ \E fresh \in BOOLEAN : BurnRefresh(t, fresh)
        /\ revoked' = IF refresh[t].exp >= now THEN revoked \cup {t} ELSE revoked
  /\ Answer(r)
  /\ UNCHANGED <<now, active, refresh, access, accepted, failed, allowed>>

-----------------------------------------------------------------------------
(* Failures: a 500, with whatever was burned staying burned. *)

Fails(r) ==
  /\ Faults
  /\ req[r] # Idle
  /\ failed' = IF req[r].pc = "mint" THEN [failed EXCEPT ![req[r].token] = @ + 1] ELSE failed
  /\ Answer(r)
  /\ UNCHANGED <<now, spent, active, refresh, access, accepted, revoked, allowed>>

StoreThrows(r) ==
  /\ Faults
  /\ req[r].pc \in {"burn", "revoke"}
  /\ ConsumeThrows(JtiKey(req[r].token))
  /\ Answer(r)
  /\ UNCHANGED <<now, active, refresh, access, history>>

-----------------------------------------------------------------------------
Arrive(r) ==
  \E t \in TokenId, client \in Client :
    \/ \E res \in Resource, wanted \in SUBSET ScopeName :
         RotateRead(r, t, client, res, wanted)
    \/ RevokeRead(r, t, client)

Continue(r) == RotateActive(r) \/ RotateBurn(r) \/ RotateMint(r) \/ RevokeBurn(r)

Next ==
  \/ Tick
  \/ \E u \in User : SetActive(u)
  \/ \E u \in User, c \in Client, res \in Resource, scopes \in SUBSET ScopeName :
       IssueGrant(u, c, res, scopes)
  \/ \E r \in Req : Arrive(r) \/ Continue(r) \/ Fails(r) \/ StoreThrows(r)

Spec == Init /\ [][Next]_vars

-----------------------------------------------------------------------------
TypeOK ==
  /\ now \in 0 .. MaxNow
  /\ spent \subseteq Key
  /\ active \subseteq User
  /\ DOMAIN refresh \subseteq TokenId
  /\ refresh \in [DOMAIN refresh -> Payload]
  /\ req \in [Req -> {Idle} \cup RotateRequest \cup RevokeRequest]
  /\ access \subseteq Access
  /\ accepted \in [TokenId -> Nat]
  /\ revoked \subseteq TokenId
  /\ failed \in [TokenId -> Nat]
  /\ allowed \in [User -> Nat]

\* A token that the store would still call fresh.
Usable(t) == refresh[t].exp >= now /\ JtiKey(t) \notin spent

(***************************************************************************)
(* Rotation preserves the grant however long the chain: every descendant   *)
(* carries the user, client, audience, scopes and expiry of the code       *)
(* exchange, and no access token reaches beyond them, while a narrowed     *)
(* access token does not narrow the successor.                             *)
(***************************************************************************)
RotationPreservesTheGrant ==
  /\ \A t \in DOMAIN refresh :
       LET p == refresh[t]
       IN /\ p.root \in DOMAIN refresh
          /\ p = [refresh[p.root] EXCEPT !.from = p.from]
  /\ \A a \in access :
       /\ a.root \in DOMAIN refresh
       /\ LET g == refresh[a.root]
          IN /\ a.user = g.user /\ a.client = g.client /\ a.audience = g.audience
             /\ a.scopes \subseteq g.scopes

(***************************************************************************)
(* "A wrong-client attempt cannot spend the rightful holder's token": a    *)
(* token is spent only by a request of the client it was issued to.        *)
(***************************************************************************)
OnlyItsClientSpendsAToken ==
  [][\A t \in DOMAIN refresh :
       JtiKey(t) \in spent' \ spent
         => \E r \in Req : /\ req[r] # Idle /\ req'[r] # req[r]
                           /\ req[r].token = t /\ req[r].client = refresh[t].client]_vars

(***************************************************************************)
(* /revoke never reports success for a token that still works: after the   *)
(* 200, until the token expires, no rotation of it is accepted any more,   *)
(* also not one that was already past its checks.                          *)
(***************************************************************************)
RevokedTokenIsDead ==
  [][\A t \in revoked : refresh[t].exp >= now => accepted'[t] = accepted[t]]_vars

(***************************************************************************)
(* The client is not logged out for nothing, nor served twice: every       *)
(* acceptance of a token has one successor, unless its rotation is still   *)
(* under way or a port failed in it.                                       *)
(***************************************************************************)
AcceptedTokenIsReplaced ==
  \A t \in TokenId :
    accepted[t] =
      Cardinality({s \in DOMAIN refresh : refresh[s].from = {t}})
      + Cardinality({r \in Req : req[r].pc = "mint" /\ req[r].token = t})
      + failed[t]

(***************************************************************************)
(* The successor of a token "stays valid until its expiry or until         *)
(* `isUserActive` turns false" (docs/security.md:101): while a user is     *)
(* removed, no refresh token is rotated for them, whichever grant it       *)
(* belongs to, but by the rotations that were past the user check at the   *)
(* removal. It says nothing of the first pair of a grant: a code the user  *)
(* had may still be redeemed, which asks no isUserActive, and the token of *)
(* that pair is not rotated while they are removed.                        *)
(***************************************************************************)
RemovedUserRunsOut ==
  \A u \in User : u \notin active => Cardinality(RotatedFor(u)) <= allowed[u]

(***************************************************************************)
(* A grant is one line of refresh tokens: in one token that works, or with *)
(* the rotation that has burned it and has still to sign the next, or      *)
(* ended, by expiry, revocation or a failure.  A line that has ended never *)
(* comes back, whatever rotations of it are still under way.               *)
(***************************************************************************)
UsableOf(g) == {t \in DOMAIN refresh : refresh[t].root = g /\ Usable(t)}

UnderRotation(g) ==
  /\ refresh[g].exp >= now
  /\ \E r \in Req : req[r].pc = "mint" /\ refresh[req[r].token].root = g

GrantLine == [g \in TokenId |->
  LET issued == g \in DOMAIN refresh /\ refresh[g].root = g
      works == UsableOf(g)
  IN [at |-> IF ~issued THEN "unissued" ELSE IF works # {} THEN "live"
             ELSE IF UnderRotation(g) THEN "between" ELSE "ended",
      works |-> works]]

Grants == INSTANCE CredentialLine WITH Line <- TokenId, Credential <- TokenId, line <- GrantLine

GrantIsOneLine == Grants!Spec

=============================================================================
