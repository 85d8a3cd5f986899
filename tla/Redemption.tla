------------------------------ MODULE Redemption ------------------------------
(***************************************************************************)
(* What the three redemptions have in common, against the in-memory store  *)
(* and against the one over a shared key-value store:                      *)
(* consumeAuthCodeDetailed, the consent ticket and the refresh token all   *)
(* compare the sealed expiry with the clock, then wait (for decryption,    *)
(* for resolveUser, for isUserActive), and only then call consume.  Any    *)
(* number of requests may be between the two for the same token.  The      *)
(* in-memory store answers at once, the shared one in an event of its own. *)
(***************************************************************************)
EXTENDS CodeStore

CONSTANTS Req,      \* request slots
          Second    \* time steps in a second

VARIABLES store,     \* the codeStore of the deployment: "memory" or "kv"
          checked,   \* the key each request found unexpired, or none
          accepted,  \* history: how often each key was redeemed
          rows, calls, reply    \* those of the store over key-values

Kv == INSTANCE KvCodeStore WITH Caller <- Req

ASSUME RedemptionAssumption == Kv!ConstantsOK

kvVars == <<rows, calls, reply>>
memoryVars == <<used, lastPrunedAt, answer, spent>>
allVars == <<vars, kvVars, store, checked, accepted>>

RedemptionInit == /\ Init
                  /\ Kv!Init
                  /\ store \in {"memory", "kv"}
                  /\ checked = [r \in Req |-> {}]
                  /\ accepted = [k \in Key |-> 0]

CheckExpiry(r, k) ==
  /\ checked[r] = {} /\ calls[r] = {}
  /\ Expiry[k] >= now
  /\ checked' = [checked EXCEPT ![r] = {k}]
  /\ UNCHANGED <<vars, kvVars, store, accepted>>

Accept(k, fresh) == accepted' = [accepted EXCEPT ![k] = IF fresh THEN @ + 1 ELSE @]

Redeem(r, k) ==
  /\ store = "memory"
  /\ checked[r] = {k}
  /\ Consume(k, Expiry[k])
  /\ checked' = [checked EXCEPT ![r] = {}]
  /\ Accept(k, answer'.fresh)
  /\ UNCHANGED <<kvVars, store>>

KvRedeem(r, k) ==
  /\ store = "kv"
  /\ checked[r] = {k}
  /\ Kv!Consume(r, k)
  /\ checked' = [checked EXCEPT ![r] = {}]
  /\ UNCHANGED <<memoryVars, store, accepted>>

KvAnswers(r) ==
  /\ Kv!SetIfAbsent(r)
  /\ \E k \in reply'.key : Accept(k, reply'.fresh)
  /\ UNCHANGED <<memoryVars, store, checked>>

RedemptionTick == Tick /\ UNCHANGED <<kvVars, store, checked, accepted>>

RedemptionNext == \/ RedemptionTick
                  \/ \E r \in Req : \/ KvAnswers(r)
                                    \/ \E k \in Key : \/ CheckExpiry(r, k)
                                                      \/ Redeem(r, k)
                                                      \/ KvRedeem(r, k)

RedemptionSpec == RedemptionInit /\ [][RedemptionNext]_allVars

-----------------------------------------------------------------------------
(***************************************************************************)
(* With the prunes of the in-memory store at work, and the rounded lives   *)
(* of the rows of the other, a token is redeemed at most once while it is  *)
(* unexpired.                                                              *)
(***************************************************************************)
RedeemedOnceUntilExpiry == \A k \in Key : accepted[k] > 1 => Expiry[k] < now

(***************************************************************************)
(* The store over key-values, among these requests, implements the         *)
(* contract too, with a mapping of its own (KvCodeStore!Contract).         *)
(***************************************************************************)
KvKeepsContract == Kv!KeepsContract

(***************************************************************************)
(* "Each refresh token works once" (docs/security.md), "single-use" of the *)
(* ticket, "Single-use via codeStore" of the code (codes.ts): once, ever.  *)
(***************************************************************************)
WorksOnce == \A k \in Key : accepted[k] <= 1

=============================================================================
