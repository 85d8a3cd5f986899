------------------------------- MODULE Sealing -------------------------------
(***************************************************************************)
(* What codeSecret keys, and its rotation: seal and unsealAny of codes,    *)
(* tickets and client ids, hashClientSecret and verifyClientSecretAny,     *)
(* signPayload and verifyPayload, each over keys derived through the cache *)
(* of KeyCache.  The list of secrets may be another for every request; a   *)
(* request keeps the one it resolved and awaits its keys one by one.       *)
(* What a request presents may have been made here or by another instance, *)
(* under any of the secrets.                                               *)
(*                                                                         *)
(* The primitives are ideal: what was made with a key verifies or decrypts *)
(* with the key of the same purpose and secret, and with no other.         *)
(***************************************************************************)
EXTENDS KeyCache

CONSTANTS
  SecretLists,   \* what codeSecret may resolve to
  Weak           \* a secret that assertCodeSecret refuses

ASSUME SealingAssumption == SecretLists \subseteq Seq(UNION {Range(l) : l \in SecretLists})

VARIABLE request   \* each caller's operation

allVars == <<map, promise, caller, request>>

Kind == {"sealed", "hash", "token"}

Strong == (UNION {Range(l) : l \in SecretLists}) \ {Weak}

\* The key usage of an operation; the purpose of a key is its kind and its usage.
Usage(create, kind) ==
  CASE kind = "sealed" -> IF create THEN "encrypt" ELSE "decrypt"
    [] kind = "hash"   -> "sign"
    [] kind = "token"  -> IF create THEN "sign" ELSE "verify"

CacheKeys == Kind \X {"encrypt", "decrypt", "sign", "verify"} \X Strong

\* The keys that the cache is asked for.
ASSUME CacheKeyAssumption == CacheKeys \subseteq CacheKey

NoRequest == [pc |-> "idle", create |-> FALSE, kind |-> "sealed", under |-> None, list |-> <<>>,
              index |-> 1, found |-> 0, failed |-> {}, answer |-> "none"]

SealingInit ==
  /\ Init
  /\ request = [c \in Caller |-> NoRequest]

\* resolveSecrets
Acceptable(list) == list # <<>> /\ Weak \notin Range(list)

Done(r, answer) == [r EXCEPT !.pc = "done", !.index = 1, !.answer = answer]

-----------------------------------------------------------------------------
\* The list is that of this moment: the host has deployed another since the last
\* request, or codeSecret is a function.
Begin(c) ==
  /\ request[c].pc \in {"idle", "done"}
  /\ \E list \in SecretLists, create \in BOOLEAN, kind \in Kind, under \in Strong \cup {None} :
       /\ create <=> under = None
       /\ request' = [request EXCEPT ![c] =
            IF Acceptable(list)
            THEN [NoRequest EXCEPT !.pc = "fingerprint", !.create = create, !.kind = kind,
                                   !.under = under, !.list = list]
            ELSE Done(NoRequest, "error")]
  /\ UNCHANGED vars

Secret(c) == request[c].list[request[c].index]

\* hkdfKey: after the fingerprint of the secret, the cache.
LookUp(c) ==
  /\ request[c].pc = "fingerprint"
  /\ Call(c, <<request[c].kind, Usage(request[c].create, request[c].kind), Secret(c)>>)
  /\ request' = [request EXCEPT ![c].pc = "key"]

\* Fault: the first entry is the only one tried.
PrimaryOnly(r) == Done(r, IF r.found > 0 THEN "accepted" ELSE "refused")

\* The next entry of the list; after the last one, what has been found.
TryNext(r) ==
  IF r.index < Len(r.list) THEN [r EXCEPT !.pc = "fingerprint", !.index = @ + 1]
  ELSE Done(r, IF r.found > 0 THEN "accepted" ELSE "refused")

\* unsealAny and signedByAny stop at the entry that works, verifyClientSecretAny
\* goes on to the end.
Tried(r, works) ==
  LET noted == [r EXCEPT !.found = IF works /\ @ = 0 THEN r.index ELSE @]
  IN IF works /\ r.kind # "hash" THEN Done(noted, "accepted") ELSE TryNext(noted)

KeyArrives(c) ==
  LET key == promise[caller[c].promise].key
      r == request[c]
  IN /\ r.pc = "key"
     /\ Resolve(c)
     /\ request' = [request EXCEPT ![c] =
          IF r.create THEN [Done(r, "created") EXCEPT !.under = key[3]]
          ELSE Tried(r, key[3] = r.under)]

\* Fault: unseal lets the failure of one derivation end the walk.
FailedThrows(r) == IF r.kind = "token" THEN Done(r, "refused") ELSE Done(r, "error")

\* A derivation failed: unseal answers null and the walk goes on, verifyPayload
\* answers null for the whole list, and the others throw.
Failed(r) ==
  CASE ~r.create /\ r.kind = "sealed" -> TryNext(r)
    [] ~r.create /\ r.kind = "token"  -> Done(r, "refused")
    [] OTHER                          -> Done(r, "error")

KeyFails(c) ==
  LET r == request[c] IN
  /\ r.pc = "key"
  /\ Fail(c)
  /\ request' = [request EXCEPT ![c] = Failed([r EXCEPT !.failed = @ \cup {Secret(c)}])]

SealingNext ==
  \/ \E c \in Caller : Begin(c) \/ LookUp(c) \/ KeyArrives(c) \/ KeyFails(c)
  \/ \E p \in Promise, s \in {"resolved", "rejected"} : Settle(p, s) /\ UNCHANGED request

SealingSpec == SealingInit /\ [][SealingNext]_allVars

\* WebCrypto settles, and what is awaited goes on.
FairSealingSpec ==
  /\ SealingSpec
  /\ \A p \in Promise : WF_allVars(\E s \in {"resolved", "rejected"} :
                                     Settle(p, s) /\ UNCHANGED request)
  /\ \A c \in Caller : WF_allVars(LookUp(c) \/ KeyArrives(c) \/ KeyFails(c))

-----------------------------------------------------------------------------
(***************************************************************************)
(* "Every entry is tried, in order", so that material sealed or hashed     *)
(* under an older secret "keeps working" while that is listed, and stops   *)
(* as it is dropped (docs/security.md), whatever the cache still holds,    *)
(* whatever is evicted and whatever rotates while the request walks its    *)
(* list: what a request accepts is under the entry it names, and what it   *)
(* refuses or breaks on is not listed, or a derivation failed, of that     *)
(* very entry for what is sealed.  What is new is under the first entry.   *)
(***************************************************************************)
ListedSecretsWork ==
  \A c \in Caller :
    LET r == request[c]
        kept == r.under \in Range(r.list)
    IN r.pc = "done" =>
         /\ r.answer = "created" => r.under = r.list[1]
         /\ r.answer = "accepted" => r.list[r.found] = r.under
         /\ r.answer = "refused" /\ kept =>
              IF r.kind = "sealed" THEN r.under \in r.failed ELSE r.failed # {}
         /\ r.answer = "error" /\ Acceptable(r.list) =>
              (r.create \/ r.kind = "hash") /\ r.failed # {}

\* Every request ends, though its keys may fail or be evicted meanwhile.
EveryWalkEnds ==
  \A c \in Caller : (request[c].pc \in {"fingerprint", "key"}) ~> (request[c].pc = "done")

=============================================================================
