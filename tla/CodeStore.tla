------------------------------ MODULE CodeStore ------------------------------
(***************************************************************************)
(* createMemoryCodeStore: a Map from jti to the expiry of its token,       *)
(* pruned of expired entries at most once per PruneInterval, by the call   *)
(* that happens to come first after the interval.  consume has no await,   *)
(* so a call is one atomic step.                                           *)
(***************************************************************************)
EXTENDS Integers

CONSTANTS Key, Expiry, MaxNow,
          PruneInterval   \* PRUNE_INTERVAL_MS, in time steps

ASSUME CodeStoreAssumption ==
  /\ Expiry \in [Key -> Nat]
  /\ MaxNow \in Nat
  /\ PruneInterval \in Nat

VARIABLES now,            \* Date.now()
          used,           \* the Map: jti -> expMs
          lastPrunedAt,   \* lastPrunedAtMs
          answer,         \* what the last consume returned
          spent           \* history: every key ever marked

vars == <<now, used, lastPrunedAt, answer, spent>>

NoAnswer == [key |-> {}, fresh |-> FALSE]

(***************************************************************************)
(* The process starts long after the epoch, with an empty map.             *)
(***************************************************************************)
Init == /\ now \in 0 .. MaxNow
        /\ now >= PruneInterval
        /\ used = [k \in {} |-> 0]
        /\ lastPrunedAt = 0
        /\ answer = NoAnswer
        /\ spent = {}

PruneDue == now - lastPrunedAt >= PruneInterval

(* Faults of a prune: it drops an entry in the instant of its expiry, or none. *)
KeptUntilExpiry == {k \in DOMAIN used : PruneDue => used[k] > now}
KeptForever     == DOMAIN used

\* The keys still in the map after the prune of this call.
Kept == {k \in DOMAIN used : PruneDue => used[k] >= now}

Marked(k, exp) == [j \in Kept \cup {k} |-> IF j \in Kept THEN used[j] ELSE exp]

Consume(k, exp) ==
  /\ lastPrunedAt' = IF PruneDue THEN now ELSE lastPrunedAt
  /\ used' = Marked(k, exp)
  /\ answer' = [key |-> {k}, fresh |-> k \notin Kept]
  /\ spent' = spent \cup {k}
  /\ UNCHANGED now

Tick == /\ now < MaxNow
        /\ now' = now + 1
        /\ UNCHANGED <<used, lastPrunedAt, answer, spent>>

Next == Tick \/ \E k \in Key : Consume(k, Expiry[k])

Spec == Init /\ [][Next]_vars

-----------------------------------------------------------------------------
(***************************************************************************)
(* Types: the map holds only keys of tokens, with the expiry sealed into   *)
(* each, and the prune stamp never runs ahead of the clock.                *)
(***************************************************************************)
TypeOK == /\ now \in 0 .. MaxNow
          /\ DOMAIN used \subseteq Key
          /\ \A k \in DOMAIN used : used[k] = Expiry[k]
          /\ lastPrunedAt \in 0 .. now
          /\ answer \in [key : SUBSET Key, fresh : BOOLEAN]
          /\ spent \subseteq Key

(***************************************************************************)
(* Pruning forgets nothing that could still be redeemed: a marked key that *)
(* is gone from the map has expired, and the map invents no marks.         *)
(***************************************************************************)
ForgetsOnlyExpired == /\ DOMAIN used \subseteq spent
                      /\ \A k \in spent : k \in DOMAIN used \/ Expiry[k] < now

(***************************************************************************)
(* The map does not outgrow the tokens that are alive: just after a call   *)
(* that pruned, only the key that call marked may be an expired one.       *)
(***************************************************************************)
PruneClears ==
  [][lastPrunedAt' # lastPrunedAt =>
       \A k \in DOMAIN used' : used'[k] >= now' \/ answer'.key = {k}]_vars

(***************************************************************************)
(* The in-memory store keeps the contract the handlers are written         *)
(* against: unexpired keys are fresh exactly once, and a key never seen is *)
(* never refused.                                                          *)
(***************************************************************************)
Contract == INSTANCE SingleUseStore

KeepsContract == Contract!Spec

=============================================================================
