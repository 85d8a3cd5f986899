------------------------------- MODULE KeyCache -------------------------------
(***************************************************************************)
(* The cache of derived keys: settleCached over createBoundedCache.  The   *)
(* cache holds promises, in the order of their insertion.  A caller joins  *)
(* the promise it finds or derives and inserts one; it goes on in an event *)
(* of its own after the promise has settled, with others in between.       *)
(***************************************************************************)
EXTENDS SequencesExt

CONSTANTS
  Caller,
  CacheKey,    \* purpose and fingerprint of a secret
  Limit,       \* KEY_CACHE_LIMIT
  Promise,     \* promises alive at once; one is used again when nobody holds it
  None

ASSUME KeyCacheAssumption ==
  /\ Limit \in Nat \ {0}
  /\ None \notin Promise
  /\ IsFiniteSet(Promise) /\ IsFiniteSet(Caller)
  /\ Cardinality(Promise) >= Limit + Cardinality(Caller)

VARIABLES
  map,        \* the cache: a sequence of entries [key, promise]
  promise,    \* the promises: id -> [key, state]
  caller      \* what each caller waits for, and whether it created it

vars == <<map, promise, caller>>

Entry == [key : CacheKey, promise : Promise]

Idle == [promise |-> None, key |-> None, owner |-> FALSE]

Init ==
  /\ map = <<>>
  /\ promise = [p \in {} |-> {}]
  /\ caller = [c \in Caller |-> Idle]

-----------------------------------------------------------------------------
(* createBoundedCache                                                      *)

\* cache.get, as the set of the promises found: none or one.
Get(k) == {e.promise : e \in {f \in Range(map) : f.key = k}}

\* Fault: the limit is tested after the insertion it should make room for.
SetLate(k, p) ==
  LET kept == IF Len(map) > Limit THEN Tail(map) ELSE map
  IN Append(kept, [key |-> k, promise |-> p])

\* cache.set of a key that is not there: at the limit the oldest entry goes.
Set(k, p) ==
  LET kept == IF Len(map) >= Limit THEN Tail(map) ELSE map
  IN Append(kept, [key |-> k, promise |-> p])

\* Fault: the key is deleted whatever promise it holds by now.
DeleteAny(k, p) == SelectSeq(map, LAMBDA e : e.key # k)

\* Fault: a rejected promise stays cached.
DeleteNone(k, p) == map

\* cache.delete, guarded by cache.get(key) === pending.
Delete(k, p) ==
  LET at == {i \in DOMAIN map : map[i] = [key |-> k, promise |-> p]}
  IN IF at = {} THEN map ELSE RemoveAt(map, CHOOSE i \in at : TRUE)

-----------------------------------------------------------------------------
(* settleCached                                                            *)

\* The promises that the cache or a caller holds; nobody sees the others again.
Held == {e.promise : e \in Range(map)} \cup ({caller[c].promise : c \in Caller} \ {None})

Call(c, k) ==
  /\ caller[c] = Idle
  /\ \/ \E p \in Get(k) :
          /\ caller' = [caller EXCEPT ![c] = [promise |-> p, key |-> k, owner |-> FALSE]]
          /\ UNCHANGED <<map, promise>>
     \/ /\ Get(k) = {}
        /\ LET p == CHOOSE q \in Promise : q \notin Held
           IN /\ map' = Set(k, p)
              /\ caller' = [caller EXCEPT ![c] = [promise |-> p, key |-> k, owner |-> TRUE]]
              /\ promise' = [q \in Held' |-> IF q = p THEN [key |-> k, state |-> "pending"]
                                                       ELSE promise[q]]

\* deriveKey resolves or rejects.
Settle(p, state) ==
  /\ p \in DOMAIN promise /\ promise[p].state = "pending"
  /\ promise' = [promise EXCEPT ![p].state = state]
  /\ UNCHANGED <<map, caller>>

\* Fault: the promise is read again from the cache after it has settled.
WaitingCached(c, state) ==
  /\ caller[c] # Idle
  /\ caller[c].promise \in Get(caller[c].key)
  /\ promise[caller[c].promise].state = state

Waiting(c, state) ==
  /\ caller[c] # Idle
  /\ promise[caller[c].promise].state = state

Return(c) == caller' = [caller EXCEPT ![c] = Idle]

Resolve(c) ==
  /\ Waiting(c, "resolved")
  /\ UNCHANGED map
  /\ Return(c)
  /\ promise' = Restrict(promise, Held')

\* Only the caller that created the promise has the catch block around it.
Fail(c) ==
  /\ Waiting(c, "rejected")
  /\ map' = IF caller[c].owner THEN Delete(caller[c].key, caller[c].promise) ELSE map
  /\ Return(c)
  /\ promise' = Restrict(promise, Held')

-----------------------------------------------------------------------------
\* The cache stays within its limit, with a codeSecret that is different on every
\* call too; a promise is cached at most once, under the key it is derived for;
\* and a caller waits for a promise of the key it asked for.
TypeOK ==
  /\ map \in Seq(Entry)
  /\ Len(map) <= Limit
  /\ \A i, j \in 1..Len(map) : map[i].key = map[j].key => i = j
  /\ \A e \in Range(map) : e.promise \in DOMAIN promise /\ promise[e.promise].key = e.key
  /\ \A p \in DOMAIN promise : promise[p] \in
       [key : CacheKey, state : {"pending", "resolved", "rejected"}]
  /\ \A c \in Caller : caller[c] # Idle =>
       caller[c].promise \in DOMAIN promise /\ promise[caller[c].promise].key = caller[c].key

\* The slot is not poisoned: once the caller that derived a key has seen it
\* fail, nobody finds the rejected promise.
RejectedIsForgotten ==
  \A e \in Range(map) :
    promise[e.promise].state = "rejected" =>
      \E c \in Caller : caller[c].owner /\ caller[c].promise = e.promise

\* A failure removes the entry of the failed promise and no other: not the one
\* derived for the same key after an eviction.
FailureSparesOthers ==
  [][\A c \in Caller : Fail(c) =>
       \A e \in Range(map) : e.promise # caller[c].promise => e \in Range(map')]_vars

=============================================================================
