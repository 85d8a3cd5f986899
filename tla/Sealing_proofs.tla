---------------------------- MODULE Sealing_proofs ----------------------------
(***************************************************************************)
(* The cache of derived keys and the requests that walk a rotating list of *)
(* secrets over it, for any number of callers, secrets and lists, and any  *)
(* limit of the cache, as long as there are promises for all that can be   *)
(* held at once.                                                           *)
(***************************************************************************)
EXTENDS Sealing, FiniteSetTheorems, TLAPS

USE KeyCacheAssumption, SealingAssumption, CacheKeyAssumption

-----------------------------------------------------------------------------
(* RemoveAt of the community modules, element by element. *)
LEMMA RemoveAtElements ==
  ASSUME NEW S, NEW s \in Seq(S), NEW i \in 1..Len(s), NEW t, t = RemoveAt(s, i)
  PROVE  /\ t \in Seq(S) /\ Len(t) = Len(s) - 1
         /\ \A j \in 1..Len(t) : t[j] = IF j < i THEN s[j] ELSE s[j + 1]
<1> DEFINE a == SubSeq(s, 1, i - 1)
           b == SubSeq(s, i + 1, Len(s))
<1>1. a \in Seq(S) /\ Len(a) = i - 1 /\ \A j \in 1..Len(a) : a[j] = s[j]
  OBVIOUS
<1>2. b \in Seq(S) /\ Len(b) = Len(s) - i /\ \A j \in 1..Len(b) : b[j] = s[j + i]
  OBVIOUS
<1>3. t = a \o b
  BY DEF RemoveAt
<1> HIDE DEF a, b
<1>4. t \in Seq(S) /\ Len(t) = Len(s) - 1
  <2>0. a \in Seq(S) /\ b \in Seq(S)
    BY <1>1, <1>2
  <2>1. a \o b \in Seq(S) /\ Len(a \o b) = Len(a) + Len(b)
    BY <2>0
  <2>2. Len(a) + Len(b) = Len(s) - 1
    BY <1>1, <1>2
  <2> QED BY <1>3, <2>1, <2>2
<1>5. ASSUME NEW j \in 1..Len(t) PROVE t[j] = IF j < i THEN s[j] ELSE s[j + 1]
  <2>1. CASE j < i
    BY <1>1, <1>2, <1>3, <1>4, <2>1
  <2>2. CASE ~(j < i)
    <3>1. t[j] = b[j - (i - 1)]
      BY <1>1, <1>2, <1>3, <1>4, <2>2
    <3>2. b[j - (i - 1)] = s[j + 1]
      BY <1>1, <1>2, <1>4, <2>2
    <3> QED BY <2>2, <3>1, <3>2
  <2> QED BY <2>1, <2>2
<1> QED BY <1>4, <1>5

(* The elements that are left: all but the one at i. *)
LEMMA RemoveAtRange ==
  ASSUME NEW S, NEW s \in Seq(S), NEW i \in 1..Len(s), NEW t, t = RemoveAt(s, i)
  PROVE  /\ Range(t) \subseteq Range(s)
         /\ \A e \in Range(s) : e # s[i] => e \in Range(t)
<1>1. /\ t \in Seq(S) /\ Len(t) = Len(s) - 1
      /\ \A j \in 1..Len(t) : t[j] = IF j < i THEN s[j] ELSE s[j + 1]
  BY RemoveAtElements
<1>2. ASSUME NEW j \in 1..Len(t) PROVE t[j] \in Range(s)
  BY <1>1, <1>2 DEF Range
<1>3. ASSUME NEW j \in 1..Len(s), s[j] # s[i] PROVE s[j] \in Range(t)
  <2>1. CASE j < i
    <3>1. j \in 1..Len(t) /\ t[j] = s[j]
      BY <1>1, <2>1
    <3> QED BY <1>1, <3>1 DEF Range
  <2>2. CASE j > i
    <3>1. j - 1 \in 1..Len(t) /\ t[j - 1] = s[j]
      BY <1>1, <2>2
    <3> QED BY <1>1, <3>1 DEF Range
  <2> QED BY <1>3, <2>1, <2>2
<1> QED BY <1>1, <1>2, <1>3 DEF Range

-----------------------------------------------------------------------------
(***************************************************************************)
(* The cache and those who wait.  The promises kept are the ones held by   *)
(* the cache or by a caller; each waits under the key it asked for; and a  *)
(* cached promise that has not resolved has a caller left who created it   *)
(* and so will forget it when it fails.                                    *)
(***************************************************************************)
Waiter == [promise : Promise \cup {None}, key : CacheKey \cup {None}, owner : BOOLEAN]

Derivation == [key : CacheKey, state : {"pending", "resolved", "rejected"}]

KeysDiffer(m) == \A i, j \in 1..Len(m) : m[i].key = m[j].key => i = j

Owned(c, p) == caller[c].owner /\ caller[c].promise = p

CacheInv ==
  /\ map \in Seq(Entry) /\ Len(map) <= Limit /\ KeysDiffer(map)
  /\ caller \in [Caller -> Waiter]
  /\ \A c \in Caller : caller[c].promise = None => caller[c] = Idle
  /\ promise \in [Held -> Derivation]
  /\ \A e \in Range(map) : promise[e.promise].key = e.key
  /\ \A c \in Caller : caller[c] # Idle => promise[caller[c].promise].key = caller[c].key
  /\ \A e \in Range(map) :
       promise[e.promise].state # "resolved" => \E c \in Caller : Owned(c, e.promise)

(* What is held is a promise. *)
LEMMA HeldPromises ==
  ASSUME CacheInv
  PROVE  /\ Held \subseteq Promise
         /\ \A e \in Range(map) : e \in Entry /\ e.promise \in Held
         /\ \A c \in Caller : caller[c] # Idle => caller[c].promise \in Held
<1>1. \A e \in Range(map) : e \in Entry
  BY DEF CacheInv, Range
<1>2. \A e \in Range(map) : e.promise \in Promise
  BY <1>1 DEF Entry
<1>3. \A c \in Caller : caller[c].promise \in Promise \cup {None}
  BY DEF CacheInv, Waiter
<1>4. \A c \in Caller : caller[c] # Idle => caller[c].promise # None
  BY DEF CacheInv
<1> QED BY <1>1, <1>2, <1>3, <1>4 DEF Held

(* The values of a function on a finite domain. *)
LEMMA ImageBound ==
  ASSUME NEW S, IsFiniteSet(S), NEW f, NEW T, T = {f[x] : x \in S}
  PROVE  IsFiniteSet(T) /\ Cardinality(T) <= Cardinality(S)
<1> DEFINE g == [x \in S |-> f[x]]
<1>1. g \in Surjection(S, T)
  BY DEF Surjection
<1> QED BY <1>1, FS_Surjection

(***************************************************************************)
(* A caller that waits for nothing finds a promise that nobody holds: the  *)
(* cache holds at most Limit, each other caller at most one.               *)
(***************************************************************************)
LEMMA FreePromise ==
  ASSUME CacheInv, NEW c \in Caller, caller[c] = Idle
  PROVE  \E q \in Promise : q \notin Held
<1> DEFINE D == 1..Len(map)
           at == [i \in D |-> map[i].promise]
           cached == {at[j] : j \in D}
           O == Caller \ {c}
           by == [d \in O |-> caller[d].promise]
           awaited == {by[o] : o \in O}
<1>1. Len(map) \in Nat /\ Len(map) <= Limit /\ Limit \in Nat
  BY DEF CacheInv
<1>2. IsFiniteSet(D) /\ Cardinality(D) <= Limit
  <2>1. 1 \in Int /\ Len(map) \in Int
    BY <1>1
  <2>2. IsFiniteSet(D) /\ Cardinality(D) = IF 1 > Len(map) THEN 0 ELSE Len(map) - 1 + 1
    BY <2>1, FS_Interval
  <2> QED BY <1>1, <2>2
<1>3. IsFiniteSet(cached) /\ Cardinality(cached) <= Cardinality(D)
  BY <1>2, ImageBound
<1>4. IsFiniteSet(O) /\ Cardinality(O) = Cardinality(Caller) - 1 /\ Cardinality(Caller) \in Nat
  BY FS_RemoveElement, FS_CardinalityType
<1>5. IsFiniteSet(awaited) /\ Cardinality(awaited) <= Cardinality(O)
  BY <1>4, ImageBound
<1>6. Held \subseteq cached \cup awaited
  <2>1. ASSUME NEW e \in Range(map) PROVE e.promise \in cached
    <3>1. PICK i \in D : e = map[i]
      BY DEF CacheInv, Range
    <3> QED BY <3>1
  <2>2. ASSUME NEW d \in Caller, caller[d].promise # None PROVE caller[d].promise \in awaited
    <3>1. d \in O
      BY <2>2 DEF Idle
    <3> QED BY <3>1
  <2> HIDE DEF cached, awaited
  <2> QED BY <2>1, <2>2 DEF Held
<1> HIDE DEF D, O, cached, awaited
<1>7. /\ IsFiniteSet(cached \cup awaited)
      /\ Cardinality(cached \cup awaited)
           = Cardinality(cached) + Cardinality(awaited) - Cardinality(cached \cap awaited)
  BY <1>3, <1>5, FS_Union
<1>8. IsFiniteSet(cached \cap awaited) /\ cached \cap awaited \in SUBSET cached
  BY <1>3, FS_Subset
<1>9. /\ Cardinality(cached) \in Nat /\ Cardinality(awaited) \in Nat
      /\ Cardinality(cached \cap awaited) \in Nat /\ Cardinality(D) \in Nat
      /\ Cardinality(O) \in Nat /\ Cardinality(Promise) \in Nat
  BY <1>2, <1>3, <1>4, <1>5, <1>8, FS_CardinalityType
<1>10. Cardinality(cached \cup awaited) < Cardinality(Promise)
  BY <1>1, <1>2, <1>3, <1>4, <1>5, <1>7, <1>9
<1>11. ~(Promise \subseteq cached \cup awaited)
  <2>1. ASSUME Promise \subseteq cached \cup awaited PROVE FALSE
    <3>1. Cardinality(Promise) <= Cardinality(cached \cup awaited)
      BY <1>7, <2>1, FS_Subset
    <3>2. Cardinality(cached \cup awaited) \in Nat
      BY <1>7, FS_CardinalityType
    <3> QED BY <1>9, <1>10, <3>1, <3>2
  <2> QED BY <2>1
<1> QED BY <1>6, <1>11

-----------------------------------------------------------------------------
(* cache.set of a new key, and cache.delete. *)
LEMMA SetEntries ==
  ASSUME map \in Seq(Entry), Len(map) <= Limit, KeysDiffer(map),
         NEW k \in CacheKey, Get(k) = {}, NEW p \in Promise, NEW m, m = Set(k, p),
         NEW n, n = [key |-> k, promise |-> p]
  PROVE  /\ m \in Seq(Entry) /\ Len(m) <= Limit /\ KeysDiffer(m)
         /\ Range(m) \subseteq Range(map) \cup {n} /\ n \in Range(m)
<1> DEFINE kept == IF Len(map) >= Limit THEN Tail(map) ELSE map
           L == Len(kept)
<1>1. /\ kept \in Seq(Entry) /\ L <= Limit - 1 /\ L \in Nat
      /\ \E o \in {0, 1} : \A j \in 1..L : kept[j] = map[j + o] /\ j + o \in 1..Len(map)
  <2>1. CASE Len(map) >= Limit
    <3>1. kept = Tail(map) /\ map # <<>>
      BY <2>1
    <3>2. /\ kept \in Seq(Entry) /\ L = Len(map) - 1
          /\ \A j \in 1..L : kept[j] = map[j + 1] /\ j + 1 \in 1..Len(map)
      BY <3>1
    <3>3. L <= Limit - 1 /\ L \in Nat
      BY <2>1, <3>2
    <3> HIDE DEF L, kept
    <3> QED BY <3>2, <3>3
  <2>2. CASE ~(Len(map) >= Limit)
    <3>1. kept = map
      BY <2>2
    <3>2. L = Len(map) /\ L \in Nat /\ L <= Limit - 1
      BY <2>2, <3>1
    <3>3. \A j \in 1..L : kept[j] = map[j + 0] /\ j + 0 \in 1..Len(map)
      BY <3>1, <3>2
    <3> HIDE DEF L, kept
    <3> QED BY <3>1, <3>2, <3>3
  <2> QED BY <2>1, <2>2
<1>2. n \in Entry
  BY DEF Entry
<1>3. m = Append(kept, n)
  BY DEF Set
<1> HIDE DEF kept
<1>4. m \in Seq(Entry) /\ Len(m) = L + 1 /\ m[L + 1] = n /\ \A j \in 1..L : m[j] = kept[j]
  BY <1>1, <1>2, <1>3
<1> HIDE DEF L
<1>5. ASSUME NEW j \in 1..L PROVE m[j] \in Range(map)
  <2>1. PICK o \in {0, 1} : m[j] = map[j + o] /\ j + o \in 1..Len(map)
    BY <1>1, <1>4
  <2>2. DOMAIN map = 1..Len(map)
    OBVIOUS
  <2> QED BY <2>1, <2>2 DEF Range
<1>6. \A e \in Range(map) : e.key # k
  BY DEF Get
<1>7. KeysDiffer(m)
  <2> SUFFICES ASSUME NEW i \in 1..Len(m), NEW j \in 1..Len(m), m[i].key = m[j].key
               PROVE  i = j
    BY DEF KeysDiffer
  <2>1. CASE i \in 1..L /\ j \in 1..L
    <3>1. PICK o \in {0, 1} : \A l \in 1..L : kept[l] = map[l + o] /\ l + o \in 1..Len(map)
      BY <1>1
    <3>2. map[i + o].key = map[j + o].key /\ i + o \in 1..Len(map) /\ j + o \in 1..Len(map)
      BY <1>4, <2>1, <3>1
    <3>3. i + o = j + o
      BY <3>2 DEF KeysDiffer
    <3> QED BY <3>3
  <2>2. CASE i = L + 1 /\ j \in 1..L
    <3>1. m[j].key # k /\ m[i].key = k
      BY <1>4, <1>5, <1>6, <2>2
    <3> QED BY <3>1
  <2>3. CASE j = L + 1 /\ i \in 1..L
    <3>1. m[i].key # k /\ m[j].key = k
      BY <1>4, <1>5, <1>6, <2>3
    <3> QED BY <3>1
  <2>4. CASE i = L + 1 /\ j = L + 1
    BY <2>4
  <2>5. /\ i \in 1..L \/ i = L + 1
        /\ j \in 1..L \/ j = L + 1
    BY <1>1, <1>4
  <2> QED BY <2>1, <2>2, <2>3, <2>4, <2>5
<1>8. Len(m) <= Limit
  BY <1>1, <1>4
<1>9. Range(m) \subseteq Range(map) \cup {n} /\ n \in Range(m)
  <2>1. DOMAIN m = 1..L + 1
    BY <1>1, <1>4
  <2>2. \A j \in 1..L + 1 : j \in 1..L \/ j = L + 1
    BY <1>1
  <2>3. L + 1 \in 1..L + 1
    BY <1>1
  <2> QED BY <1>4, <1>5, <2>1, <2>2, <2>3 DEF Range
<1> QED BY <1>4, <1>7, <1>8, <1>9

LEMMA DeleteEntries ==
  ASSUME map \in Seq(Entry), Len(map) <= Limit, KeysDiffer(map),
         NEW k, NEW p, NEW m, m = Delete(k, p), NEW n, n = [key |-> k, promise |-> p]
  PROVE  /\ m \in Seq(Entry) /\ Len(m) <= Limit /\ KeysDiffer(m)
         /\ Range(m) \subseteq Range(map) /\ n \notin Range(m)
         /\ \A e \in Range(map) : e # n => e \in Range(m)
<1> DEFINE at == {i \in DOMAIN map : map[i] = n}
<1>1. m = IF at = {} THEN map ELSE RemoveAt(map, CHOOSE i \in at : TRUE)
  BY DEF Delete
<1>2. CASE at = {}
  <2>1. m = map /\ n \notin Range(map)
    BY <1>1, <1>2 DEF Range
  <2> QED BY <2>1
<1>3. CASE at # {}
  <2>1. PICK i \in at : m = RemoveAt(map, i)
    BY <1>1, <1>3
  <2>2. i \in 1..Len(map) /\ map[i] = n
    BY <2>1
  <2>3. /\ m \in Seq(Entry) /\ Len(m) = Len(map) - 1
        /\ \A j \in 1..Len(m) : m[j] = IF j < i THEN map[j] ELSE map[j + 1]
    BY <2>1, <2>2, RemoveAtElements
  <2>4. Range(m) \subseteq Range(map) /\ \A e \in Range(map) : e # n => e \in Range(m)
    BY <2>1, <2>2, RemoveAtRange
  <2> DEFINE was(j) == IF j < i THEN j ELSE j + 1
  <2>5. \A j \in 1..Len(m) : was(j) \in 1..Len(map) /\ was(j) # i /\ m[j] = map[was(j)]
    BY <2>2, <2>3
  <2>6. \A j, l \in 1..Len(m) : was(j) = was(l) => j = l
    BY <2>2, <2>3
  <2> HIDE DEF was
  <2>7. KeysDiffer(m)
    BY <2>5, <2>6 DEF KeysDiffer
  <2>8. n \notin Range(m)
    <3>1. ASSUME NEW j \in 1..Len(m) PROVE m[j] # n
      <4>1. map[was(j)].key # map[i].key
        BY <2>2, <2>5 DEF KeysDiffer
      <4> QED BY <2>2, <2>5, <4>1
    <3> QED BY <2>3, <3>1 DEF Range
  <2>9. Len(m) <= Limit
    BY <2>3
  <2> QED BY <2>3, <2>4, <2>7, <2>8, <2>9
<1> QED BY <1>2, <1>3

-----------------------------------------------------------------------------
(* The steps of settleCached. *)
LEMMA JoinKeeps ==
  ASSUME CacheInv, NEW c \in Caller, NEW k \in CacheKey, caller[c] = Idle, NEW p \in Get(k),
         caller' = [caller EXCEPT ![c] = [promise |-> p, key |-> k, owner |-> FALSE]],
         UNCHANGED <<map, promise>>
  PROVE  CacheInv'
<1> DEFINE w == [promise |-> p, key |-> k, owner |-> FALSE]
<1>1. PICK e \in Range(map) : e.key = k /\ e.promise = p
  BY DEF Get
<1>2. p \in Promise /\ p \in Held /\ promise[p].key = k
  BY <1>1, HeldPromises DEF CacheInv
<1>3. w \in Waiter /\ w.promise = p /\ w.key = k /\ ~w.owner /\ p # None
  BY <1>2 DEF Waiter
<1> HIDE DEF w
<1>4. caller' = [caller EXCEPT ![c] = w]
  BY DEF w
<1>5. /\ caller' \in [Caller -> Waiter]
      /\ \A d \in Caller : caller'[d] = IF d = c THEN w ELSE caller[d]
  BY <1>3, <1>4 DEF CacheInv
<1>6. caller[c].promise = None /\ ~caller[c].owner
  BY DEF Idle
<1>7. Held' = Held
  <2>1. \A d \in Caller : caller'[d].promise # None => caller'[d].promise \in Held
    BY <1>2, <1>3, <1>5 DEF Held
  <2>2. \A d \in Caller : caller[d].promise # None => caller'[d].promise = caller[d].promise
    BY <1>5, <1>6
  <2> QED BY <2>1, <2>2 DEF Held
<1>8. \A e1 \in Range(map), d \in Caller : Owned(d, e1.promise) => Owned(d, e1.promise)'
  BY <1>5, <1>6 DEF Owned
<1>9. promise' \in [Held' -> Derivation]
  BY <1>7 DEF CacheInv
<1>10. \A d \in Caller : caller'[d].promise = None => caller'[d] = Idle
  BY <1>3, <1>5 DEF CacheInv
<1>11. \A d \in Caller : caller'[d] # Idle => promise[caller'[d].promise].key = caller'[d].key
  BY <1>2, <1>3, <1>5 DEF CacheInv
<1> QED BY <1>5, <1>8, <1>9, <1>10, <1>11 DEF CacheInv

LEMMA DeriveKeeps ==
  ASSUME CacheInv, NEW c \in Caller, NEW k \in CacheKey, caller[c] = Idle, Get(k) = {},
         NEW p \in Promise, p \notin Held, map' = Set(k, p),
         caller' = [caller EXCEPT ![c] = [promise |-> p, key |-> k, owner |-> TRUE]],
         promise' = [q \in Held' |-> IF q = p THEN [key |-> k, state |-> "pending"]
                                             ELSE promise[q]]
  PROVE  CacheInv'
<1> DEFINE w == [promise |-> p, key |-> k, owner |-> TRUE]
           n == [key |-> k, promise |-> p]
           pending == [key |-> k, state |-> "pending"]
<1>1. w \in Waiter /\ w.promise = p /\ w.key = k /\ w.owner /\ p # None
  BY DEF Waiter
<1>2. caller' = [caller EXCEPT ![c] = w]
  OBVIOUS
<1>3. n.key = k /\ n.promise = p
  OBVIOUS
<1>4. pending \in Derivation /\ pending.key = k
  BY DEF Derivation
<1>5. promise' = [q \in Held' |-> IF q = p THEN pending ELSE promise[q]]
  OBVIOUS
<1>6. /\ map' \in Seq(Entry) /\ Len(map') <= Limit /\ KeysDiffer(map')
      /\ Range(map') \subseteq Range(map) \cup {n}
  <2>1. map \in Seq(Entry) /\ Len(map) <= Limit /\ KeysDiffer(map)
    BY DEF CacheInv
  <2>2. map' = Set(k, p) /\ n = [key |-> k, promise |-> p]
    OBVIOUS
  <2> HIDE DEF n
  <2> QED BY <2>1, <2>2, SetEntries
<1> HIDE DEF w, n, pending
<1>7. /\ caller' \in [Caller -> Waiter]
      /\ \A d \in Caller : caller'[d] = IF d = c THEN w ELSE caller[d]
  BY <1>1, <1>2 DEF CacheInv
<1>8. caller[c].promise = None /\ ~caller[c].owner
  BY DEF Idle
<1>9. p \in Held' /\ Held' \subseteq Held \cup {p}
  <2>1. caller'[c].promise = p /\ p # None
    BY <1>1, <1>7
  <2>2. \A d \in Caller : caller'[d].promise # None => caller'[d].promise \in Held \cup {p}
    BY <1>1, <1>7 DEF Held
  <2>3. \A e \in Range(map') : e.promise \in Held \cup {p}
    BY <1>3, <1>6 DEF Held
  <2> QED BY <2>1, <2>2, <2>3 DEF Held
<1>10. promise' \in [Held' -> Derivation]
  BY <1>4, <1>5, <1>9 DEF CacheInv
<1>11. \A q \in Held' : promise'[q] = IF q = p THEN pending ELSE promise[q]
  BY <1>5
<1>12. \A e \in Range(map') : e.promise \in Held'
  BY DEF Held
<1>13. \A e \in Range(map') : promise'[e.promise].key = e.key
  <2> TAKE e \in Range(map')
  <2>1. CASE e = n
    BY <1>3, <1>4, <1>9, <1>11, <2>1
  <2>2. CASE e # n
    <3>1. e \in Range(map) /\ e.promise # p
      BY <1>6, <2>2, HeldPromises
    <3> QED BY <1>11, <1>12, <3>1 DEF CacheInv
  <2> QED BY <2>1, <2>2
<1>14. \A d \in Caller : caller'[d].promise = None => caller'[d] = Idle
  BY <1>1, <1>7 DEF CacheInv
<1>15. \A d \in Caller : caller'[d] # Idle => promise'[caller'[d].promise].key = caller'[d].key
  <2> SUFFICES ASSUME NEW d \in Caller, caller'[d] # Idle
               PROVE  promise'[caller'[d].promise].key = caller'[d].key
    OBVIOUS
  <2>1. CASE d = c
    BY <1>1, <1>4, <1>7, <1>9, <1>11, <2>1
  <2>2. CASE d # c
    <3>1. caller'[d] = caller[d] /\ caller[d] # Idle /\ caller[d].promise \in Held
      BY <1>7, <2>2, HeldPromises
    <3>2. caller[d].promise \in Held'
      BY <3>1, <1>14 DEF Held
    <3> QED BY <1>11, <3>1, <3>2 DEF CacheInv
  <2> QED BY <2>1, <2>2
<1>16. \A e \in Range(map') :
         promise'[e.promise].state # "resolved" => \E d \in Caller : Owned(d, e.promise)'
  <2> SUFFICES ASSUME NEW e \in Range(map'), promise'[e.promise].state # "resolved"
               PROVE  \E d \in Caller : Owned(d, e.promise)'
    OBVIOUS
  <2>1. CASE e = n
    BY <1>1, <1>3, <1>7, <2>1 DEF Owned
  <2>2. CASE e # n
    <3>1. e \in Range(map) /\ e.promise # p
      BY <1>6, <2>2, HeldPromises
    <3>2. promise'[e.promise] = promise[e.promise]
      BY <1>11, <1>12, <3>1
    <3>3. PICK d \in Caller : Owned(d, e.promise)
      BY <3>1, <3>2 DEF CacheInv
    <3>4. caller'[d] = caller[d]
      BY <1>7, <1>8, <3>3 DEF Owned
    <3> QED BY <3>3, <3>4 DEF Owned
  <2> QED BY <2>1, <2>2
<1> QED BY <1>6, <1>7, <1>10, <1>13, <1>14, <1>15, <1>16 DEF CacheInv

LEMMA CallKeeps ==
  ASSUME CacheInv, NEW c \in Caller, NEW k \in CacheKey, Call(c, k)
  PROVE  CacheInv' /\ caller'[c] # Idle /\ caller'[c].key = k
         /\ \A d \in Caller \ {c} : caller'[d] = caller[d]
<1>1. caller[c] = Idle
  BY DEF Call
<1>2. CASE \E p \in Get(k) :
             /\ caller' = [caller EXCEPT ![c] = [promise |-> p, key |-> k, owner |-> FALSE]]
             /\ UNCHANGED <<map, promise>>
  <2>1. PICK p \in Get(k) :
          /\ caller' = [caller EXCEPT ![c] = [promise |-> p, key |-> k, owner |-> FALSE]]
          /\ UNCHANGED <<map, promise>>
    BY <1>2
  <2>2. p # None
    BY HeldPromises DEF Get, Entry
  <2>3. CacheInv'
    BY <1>1, <2>1, JoinKeeps
  <2> QED BY <2>1, <2>2, <2>3 DEF CacheInv, Idle
<1>3. CASE Get(k) = {}
  <2> DEFINE p == CHOOSE q \in Promise : q \notin Held
  <2>1. p \in Promise /\ p \notin Held
    BY <1>1, FreePromise
  <2>2. CASE /\ map' = Set(k, p)
             /\ caller' = [caller EXCEPT ![c] = [promise |-> p, key |-> k, owner |-> TRUE]]
             /\ promise' = [q \in Held' |-> IF q = p THEN [key |-> k, state |-> "pending"]
                                                     ELSE promise[q]]
    <3> HIDE DEF p
    <3>1. CacheInv'
      BY <1>1, <1>3, <2>1, <2>2, DeriveKeeps
    <3>2. p # None
      BY <2>1
    <3> QED BY <2>2, <3>1, <3>2 DEF CacheInv, Idle
  <2> QED BY <1>2, <1>3, <2>2 DEF Call
<1> QED BY <1>2, <1>3 DEF Call

LEMMA SettleKeeps ==
  ASSUME CacheInv, NEW p, NEW s \in {"resolved", "rejected"}, Settle(p, s)
  PROVE  CacheInv' /\ UNCHANGED caller /\ \A q \in Held : promise'[q].key = promise[q].key
<1>1. /\ p \in Held /\ promise[p].state = "pending" /\ promise[p] \in Derivation
      /\ promise' = [promise EXCEPT ![p].state = s] /\ map' = map /\ caller' = caller
  BY DEF Settle, CacheInv
<1>2. Held' = Held
  BY <1>1 DEF Held
<1>3. [promise[p] EXCEPT !.state = s] \in Derivation
  BY <1>1 DEF Derivation
<1>4. promise' \in [Held' -> Derivation]
  BY <1>1, <1>2, <1>3 DEF CacheInv
<1>5. \A q \in Held : promise'[q].key = promise[q].key
  BY <1>1 DEF CacheInv, Derivation
<1>6. \A q \in Held : promise'[q].state # "resolved" => promise[q].state # "resolved"
  BY <1>1 DEF CacheInv, Derivation
<1>7. /\ \A e \in Range(map) : e.promise \in Held
      /\ \A c \in Caller : caller[c] # Idle => caller[c].promise \in Held
  BY HeldPromises
<1>8. \A e \in Range(map') : promise'[e.promise].key = e.key
  BY <1>1, <1>5, <1>7 DEF CacheInv
<1>9. \A c \in Caller : caller'[c] # Idle => promise'[caller'[c].promise].key = caller'[c].key
  BY <1>1, <1>5, <1>7 DEF CacheInv
<1>10. \A e \in Range(map') :
         promise'[e.promise].state # "resolved" => \E c \in Caller : Owned(c, e.promise)'
  BY <1>1, <1>6, <1>7 DEF CacheInv, Owned
<1> QED BY <1>1, <1>4, <1>5, <1>8, <1>9, <1>10 DEF CacheInv

(* A caller goes on: it holds its promise no longer. *)
LEMMA ReturnKeeps ==
  ASSUME CacheInv, NEW c \in Caller, caller[c] # Idle, Return(c),
         map' \in Seq(Entry), Len(map') <= Limit, KeysDiffer(map'),
         Range(map') \subseteq Range(map), promise' = Restrict(promise, Held'),
         \A e \in Range(map') : e.promise = caller[c].promise =>
           promise[e.promise].state = "resolved" \/ ~caller[c].owner
  PROVE  CacheInv' /\ caller'[c] = Idle /\ \A d \in Caller \ {c} : caller'[d] = caller[d]
<1>1. Idle \in Waiter /\ Idle.promise = None
  BY DEF Idle, Waiter
<1>2. /\ caller' \in [Caller -> Waiter]
      /\ \A d \in Caller : caller'[d] = IF d = c THEN Idle ELSE caller[d]
  BY <1>1 DEF CacheInv, Return
<1>3. Held' \subseteq Held
  BY <1>1, <1>2 DEF Held
<1>4. promise' \in [Held' -> Derivation] /\ \A q \in Held' : promise'[q] = promise[q]
  BY <1>3 DEF Restrict, CacheInv
<1>5. \A e \in Range(map') : e.promise \in Held'
  BY DEF Held
<1>6. \A d \in Caller : caller'[d].promise = None => caller'[d] = Idle
  BY <1>2 DEF CacheInv
<1>7. \A d \in Caller : caller'[d] # Idle => caller'[d].promise \in Held'
  BY <1>6 DEF Held
<1>8. \A e \in Range(map') : promise'[e.promise].key = e.key
  BY <1>4, <1>5 DEF CacheInv
<1>9. \A d \in Caller : caller'[d] # Idle => promise'[caller'[d].promise].key = caller'[d].key
  BY <1>2, <1>4, <1>7 DEF CacheInv
<1>10. \A e \in Range(map') :
         promise'[e.promise].state # "resolved" => \E d \in Caller : Owned(d, e.promise)'
  <2> SUFFICES ASSUME NEW e \in Range(map'), promise'[e.promise].state # "resolved"
               PROVE  \E d \in Caller : Owned(d, e.promise)'
    OBVIOUS
  <2>1. e \in Range(map) /\ promise[e.promise].state # "resolved"
    BY <1>4, <1>5
  <2>2. PICK d \in Caller : Owned(d, e.promise)
    BY <2>1 DEF CacheInv
  <2>3. d # c
    BY <2>1, <2>2 DEF Owned
  <2> QED BY <1>2, <2>2, <2>3 DEF Owned
<1> QED BY <1>2, <1>4, <1>6, <1>8, <1>9, <1>10 DEF CacheInv

LEMMA ResolveKeeps ==
  ASSUME CacheInv, NEW c \in Caller, Resolve(c)
  PROVE  CacheInv' /\ caller'[c] = Idle /\ \A d \in Caller \ {c} : caller'[d] = caller[d]
<1>1. /\ caller[c] # Idle /\ promise[caller[c].promise].state = "resolved"
      /\ map' = map /\ Return(c) /\ promise' = Restrict(promise, Held')
  BY DEF Resolve, Waiting
<1>2. map' \in Seq(Entry) /\ Len(map') <= Limit /\ KeysDiffer(map')
  BY <1>1 DEF CacheInv
<1> QED BY <1>1, <1>2, ReturnKeeps

(* The entry that goes is the one of the promise that failed. *)
LEMMA FailKeeps ==
  ASSUME CacheInv, NEW c \in Caller, Fail(c)
  PROVE  /\ CacheInv' /\ caller'[c] = Idle /\ \A d \in Caller \ {c} : caller'[d] = caller[d]
         /\ \A e \in Range(map) : e.promise # caller[c].promise => e \in Range(map')
<1> DEFINE k == caller[c].key
           p == caller[c].promise
           n == [key |-> k, promise |-> p]
<1>1. /\ caller[c] # Idle /\ Return(c) /\ promise' = Restrict(promise, Held')
      /\ map' = IF caller[c].owner THEN Delete(k, p) ELSE map
  BY DEF Fail, Waiting
<1>2. map \in Seq(Entry) /\ Len(map) <= Limit /\ KeysDiffer(map)
  BY DEF CacheInv
<1>3. CASE caller[c].owner
  <2>1. map' = Delete(k, p) /\ n = [key |-> k, promise |-> p]
    BY <1>1, <1>3
  <2>2. n.promise = p
    OBVIOUS
  <2> HIDE DEF n
  <2>3. /\ map' \in Seq(Entry) /\ Len(map') <= Limit /\ KeysDiffer(map')
        /\ Range(map') \subseteq Range(map) /\ n \notin Range(map')
        /\ \A e \in Range(map) : e # n => e \in Range(map')
    BY <1>2, <2>1, DeleteEntries
  <2>4. \A e \in Range(map) : e.promise = p => e = n
    <3> TAKE e \in Range(map)
    <3>1. e \in Entry /\ promise[e.promise].key = e.key
      BY HeldPromises DEF CacheInv
    <3>2. promise[p].key = k
      BY <1>1 DEF CacheInv
    <3>3. e = [key |-> e.key, promise |-> e.promise]
      BY <3>1 DEF Entry
    <3> QED BY <3>1, <3>2, <3>3 DEF n
  <2>5. \A e \in Range(map') : e.promise # p
    BY <2>3, <2>4
  <2>6. CacheInv' /\ caller'[c] = Idle /\ \A d \in Caller \ {c} : caller'[d] = caller[d]
    BY <1>1, <2>3, <2>5, ReturnKeeps
  <2> QED BY <2>2, <2>3, <2>6
<1>4. CASE ~caller[c].owner
  <2>1. map' = map
    BY <1>1, <1>4
  <2>2. map' \in Seq(Entry) /\ Len(map') <= Limit /\ KeysDiffer(map')
    BY <1>2, <2>1
  <2>3. CacheInv' /\ caller'[c] = Idle /\ \A d \in Caller \ {c} : caller'[d] = caller[d]
    BY <1>1, <1>4, <2>1, <2>2, ReturnKeeps
  <2> QED BY <2>1, <2>3
<1> QED BY <1>3, <1>4

-----------------------------------------------------------------------------
(***************************************************************************)
(* A request over its list of secrets.  Of the first n entries: the one    *)
(* noted as found is that of the material, and when none is, the entry of  *)
(* the material, if it is among them, is one whose derivation failed.      *)
(***************************************************************************)
Request ==
  [pc : {"idle", "fingerprint", "key", "done"}, create : BOOLEAN, kind : Kind,
   under : Strong \cup {None}, list : SecretLists \cup {<<>>}, index : Nat, found : Nat,
   failed : SUBSET Strong, answer : {"none", "created", "accepted", "refused", "error"}]

Before(r, n) ==
  /\ r.found \in 0..n
  /\ r.found > 0 => r.list[r.found] = r.under
  /\ r.found = 0 => \A i \in 1..n : r.list[i] = r.under => r.under \in r.failed

Walks(r) ==
  /\ r.list \in SecretLists /\ Acceptable(r.list)
  /\ r.index \in 1..Len(r.list)
  /\ r.create => r.index = 1
  /\ r.kind # "hash" => r.found = 0

Told(r) ==
  /\ r.answer = "created" => r.under = r.list[1]
  /\ r.answer = "accepted" => r.list[r.found] = r.under
  /\ r.answer = "refused" /\ r.under \in Range(r.list) =>
       IF r.kind = "sealed" THEN r.under \in r.failed ELSE r.failed # {}
  /\ r.answer = "error" /\ Acceptable(r.list) =>
       (r.create \/ r.kind = "hash") /\ r.failed # {}

Good(r) ==
  /\ r \in Request
  /\ r.pc \in {"fingerprint", "key"} => Walks(r) /\ Before(r, r.index - 1)
  /\ r.pc = "done" => Told(r)

KeyOf(r) == <<r.kind, Usage(r.create, r.kind), r.list[r.index]>>

RequestInv ==
  /\ request \in [Caller -> Request]
  /\ \A c \in Caller :
       /\ Good(request[c])
       /\ request[c].pc = "key" => caller[c] # Idle /\ caller[c].key = KeyOf(request[c])
       /\ request[c].pc # "key" => caller[c] = Idle

IInv == CacheInv /\ RequestInv

-----------------------------------------------------------------------------
(* The entries of a list that is accepted are keys the cache may hold. *)
LEMMA Listed ==
  ASSUME NEW l \in SecretLists, Acceptable(l)
  PROVE  /\ Len(l) \in Nat /\ 1 \in 1..Len(l) /\ DOMAIN l = 1..Len(l)
         /\ \A i \in 1..Len(l) : l[i] \in Strong
<1> DEFINE Secrets == UNION {Range(m) : m \in SecretLists}
<1>1. l \in Seq(Secrets) /\ l # <<>>
  BY DEF Acceptable
<1> HIDE DEF Secrets
<1>2. Len(l) \in Nat /\ Len(l) > 0 /\ DOMAIN l = 1..Len(l)
  BY <1>1
<1>3. ASSUME NEW i \in 1..Len(l) PROVE l[i] \in Range(l)
  BY <1>2 DEF Range
<1>4. ASSUME NEW x \in Range(l) PROVE x \in Strong
  BY DEF Strong, Acceptable
<1> QED BY <1>2, <1>3, <1>4

LEMMA KeyIsCached ==
  ASSUME NEW r \in Request, Walks(r)
  PROVE  KeyOf(r) \in CacheKey /\ r.list[r.index] \in Strong
<1>1. r.list[r.index] \in Strong
  BY Listed DEF Walks
<1>2. r.kind \in Kind /\ Usage(r.create, r.kind) \in {"encrypt", "decrypt", "sign", "verify"}
  BY DEF Request, Kind, Usage
<1> QED BY <1>1, <1>2 DEF KeyOf, CacheKeys

(* The end of a request. *)
LEMMA DoneFields ==
  ASSUME NEW r \in Request,
         NEW answer \in {"none", "created", "accepted", "refused", "error"},
         NEW d, d = Done(r, answer)
  PROVE  /\ d \in Request /\ d.pc = "done" /\ d.answer = answer
         /\ d.create = r.create /\ d.kind = r.kind /\ d.under = r.under
         /\ d.list = r.list /\ d.found = r.found /\ d.failed = r.failed
BY DEF Done, Request

(* The next entry, or the answer after the last one. *)
LEMMA TryNextGood ==
  ASSUME NEW r \in Request, Walks(r), ~r.create, Before(r, r.index), r.pc = "key",
         NEW t, t = TryNext(r)
  PROVE  Good(t) /\ t.pc # "key"
<1>1. r.list \in SecretLists /\ Acceptable(r.list) /\ r.index \in 1..Len(r.list)
  BY DEF Walks
<1>2. Len(r.list) \in Nat /\ DOMAIN r.list = 1..Len(r.list)
  BY <1>1, Listed
<1>3. CASE r.index < Len(r.list)
  <2>1. t = [r EXCEPT !.pc = "fingerprint", !.index = @ + 1]
    BY <1>3 DEF TryNext
  <2>2. t \in Request
    <3>1. r.index + 1 \in Nat
      BY DEF Request
    <3> QED BY <2>1, <3>1 DEF Request
  <2>3. /\ t.pc = "fingerprint" /\ t.index = r.index + 1
        /\ t.create = r.create /\ t.kind = r.kind /\ t.under = r.under
        /\ t.list = r.list /\ t.found = r.found /\ t.failed = r.failed
    BY <2>1 DEF Request
  <2>4. t.index \in 1..Len(t.list) /\ t.index - 1 = r.index
    BY <1>1, <1>2, <1>3, <2>3
  <2>5. Walks(t)
    BY <1>1, <2>3, <2>4 DEF Walks
  <2>6. Before(t, t.index - 1)
    BY <2>3, <2>4 DEF Before
  <2> QED BY <2>2, <2>3, <2>5, <2>6 DEF Good
<1>4. CASE ~(r.index < Len(r.list))
  <2> DEFINE answer == IF r.found > 0 THEN "accepted" ELSE "refused"
  <2>1. t = Done(r, answer)
    BY <1>4 DEF TryNext
  <2>2. /\ t \in Request /\ t.pc = "done" /\ t.answer = answer
        /\ t.create = r.create /\ t.kind = r.kind /\ t.under = r.under
        /\ t.list = r.list /\ t.found = r.found /\ t.failed = r.failed
    BY <2>1, DoneFields
  <2>3. r.index = Len(r.list)
    BY <1>1, <1>2, <1>4
  <2>4. r.found \in Nat
    BY DEF Request
  <2>5. CASE r.found > 0
    <3>1. Told(t)
      BY <2>2, <2>5 DEF Told, Before
    <3> QED BY <2>2, <3>1 DEF Good
  <2>6. CASE ~(r.found > 0)
    <3>1. r.found = 0
      BY <2>4, <2>6
    <3>2. r.under \in Range(r.list) => r.under \in r.failed
      BY <1>2, <2>3, <3>1 DEF Before, Range
    <3>3. Told(t)
      BY <2>2, <2>6, <3>2 DEF Told
    <3> QED BY <2>2, <3>3 DEF Good
  <2> QED BY <2>5, <2>6
<1> QED BY <1>3, <1>4

-----------------------------------------------------------------------------
(* A step of one caller: its request is good again, the others are not touched. *)
LEMMA RequestStep ==
  ASSUME RequestInv, NEW c \in Caller, NEW r, Good(r), request' = [request EXCEPT ![c] = r],
         r.pc = "key" => caller'[c] # Idle /\ caller'[c].key = KeyOf(r),
         r.pc # "key" => caller'[c] = Idle,
         \A d \in Caller \ {c} : caller'[d] = caller[d]
  PROVE  RequestInv'
<1>1. r \in Request
  BY DEF Good
<1>2. /\ request' \in [Caller -> Request]
      /\ \A d \in Caller : request'[d] = IF d = c THEN r ELSE request[d]
  BY <1>1 DEF RequestInv
<1> QED BY <1>2 DEF RequestInv

LEMMA InitIInv == SealingInit => IInv
<1> SUFFICES ASSUME SealingInit PROVE IInv
  OBVIOUS
<1>1. Idle \in Waiter /\ Idle.promise = None
  BY DEF Idle, Waiter
<1>2. map = <<>> /\ Range(map) = {} /\ Len(map) = 0
  BY DEF SealingInit, Init, Range
<1>3. caller \in [Caller -> Waiter] /\ \A c \in Caller : caller[c] = Idle
  BY <1>1 DEF SealingInit, Init
<1>4. Held = {}
  BY <1>1, <1>2, <1>3 DEF Held
<1>5. promise \in [Held -> Derivation]
  BY <1>4 DEF SealingInit, Init
<1>6. map \in Seq(Entry) /\ KeysDiffer(map) /\ Len(map) <= Limit
  BY <1>2 DEF KeysDiffer
<1>7. CacheInv
  BY <1>2, <1>3, <1>5, <1>6 DEF CacheInv
<1>8. NoRequest \in Request /\ NoRequest.pc = "idle"
  BY DEF NoRequest, Request, Kind
<1>9. Good(NoRequest)
  BY <1>8 DEF Good
<1> QED BY <1>3, <1>7, <1>8, <1>9 DEF SealingInit, RequestInv, IInv

LEMMA BeginKeeps ==
  ASSUME IInv, NEW c \in Caller, Begin(c)
  PROVE  IInv'
<1>1. PICK list \in SecretLists, create \in BOOLEAN, kind \in Kind, under \in Strong \cup {None} :
        request' = [request EXCEPT ![c] =
          IF Acceptable(list)
          THEN [NoRequest EXCEPT !.pc = "fingerprint", !.create = create, !.kind = kind,
                                 !.under = under, !.list = list]
          ELSE Done(NoRequest, "error")]
  BY DEF Begin
<1>2. CacheInv' /\ caller' = caller /\ caller[c] = Idle
  BY DEF Begin, vars, IInv, RequestInv, CacheInv, Held, Owned
<1>3. /\ NoRequest \in Request /\ NoRequest.index = 1 /\ NoRequest.found = 0
      /\ NoRequest.list = <<>>
  BY DEF NoRequest, Request, Kind
<1>4. CASE Acceptable(list)
  <2> DEFINE r == [NoRequest EXCEPT !.pc = "fingerprint", !.create = create, !.kind = kind,
                                    !.under = under, !.list = list]
  <2>1. r \in Request
    BY <1>3 DEF Request
  <2>2. /\ r.pc = "fingerprint" /\ r.list = list /\ r.index = 1 /\ r.found = 0
    BY <1>3 DEF Request
  <2>3. request' = [request EXCEPT ![c] = r]
    BY <1>1, <1>4
  <2> HIDE DEF r
  <2>4. Walks(r) /\ Before(r, r.index - 1)
    BY <1>4, <2>2, Listed DEF Walks, Before
  <2>5. Good(r)
    BY <2>1, <2>2, <2>4 DEF Good
  <2>6. RequestInv
    BY DEF IInv
  <2>7. RequestInv'
    BY <1>2, <2>2, <2>3, <2>5, <2>6, RequestStep
  <2> QED BY <1>2, <2>7 DEF IInv
<1>5. CASE ~Acceptable(list)
  <2> DEFINE r == Done(NoRequest, "error")
  <2>1. r \in Request /\ r.pc = "done" /\ r.answer = "error" /\ r.list = <<>>
    BY <1>3, DoneFields
  <2>2. request' = [request EXCEPT ![c] = r]
    BY <1>1, <1>5
  <2> HIDE DEF r
  <2>3. Good(r)
    BY <2>1 DEF Good, Told, Acceptable
  <2>4. RequestInv
    BY DEF IInv
  <2>5. RequestInv'
    BY <1>2, <2>1, <2>2, <2>3, <2>4, RequestStep
  <2> QED BY <1>2, <2>5 DEF IInv
<1> QED BY <1>4, <1>5

LEMMA LookUpKeeps ==
  ASSUME IInv, NEW c \in Caller, LookUp(c)
  PROVE  IInv'
<1> DEFINE r == request[c]
           q == [r EXCEPT !.pc = "key"]
<1>1. Good(r) /\ r \in Request /\ r.pc = "fingerprint" /\ Walks(r) /\ Before(r, r.index - 1)
  BY DEF IInv, RequestInv, Good, LookUp
<1>2. KeyOf(r) \in CacheKey
  BY <1>1, KeyIsCached
<1>3. Call(c, KeyOf(r))
  BY DEF LookUp, KeyOf, Secret
<1>4. /\ CacheInv' /\ caller'[c] # Idle /\ caller'[c].key = KeyOf(r)
      /\ \A d \in Caller \ {c} : caller'[d] = caller[d]
  BY <1>2, <1>3, CallKeeps DEF IInv
<1>5. /\ q \in Request /\ q.pc = "key" /\ q.create = r.create /\ q.kind = r.kind
      /\ q.under = r.under /\ q.list = r.list /\ q.index = r.index /\ q.found = r.found
      /\ q.failed = r.failed
  BY <1>1 DEF Request
<1>6. request' = [request EXCEPT ![c] = q]
  BY DEF LookUp
<1> HIDE DEF q
<1>7. Good(q) /\ KeyOf(q) = KeyOf(r)
  BY <1>1, <1>5 DEF Good, Walks, Before, KeyOf
<1>8. RequestInv'
  BY <1>4, <1>5, <1>6, <1>7, RequestStep DEF IInv
<1> QED BY <1>4, <1>8 DEF IInv

(* What follows a key, on the list as it was walked so far. *)
LEMMA TriedGood ==
  ASSUME NEW r \in Request, Walks(r), ~r.create, Before(r, r.index - 1), r.pc = "key",
         NEW works, works <=> r.list[r.index] = r.under, NEW t, t = Tried(r, works)
  PROVE  Good(t) /\ t.pc # "key"
<1> DEFINE f == IF works /\ r.found = 0 THEN r.index ELSE r.found
           noted == [r EXCEPT !.found = f]
<1>1. r.index \in Nat /\ r.found \in Nat /\ r.index >= 1 /\ r.found <= r.index
  BY Listed DEF Walks, Before, Request
<1>2. f \in 0..r.index /\ (f > 0 => r.list[f] = r.under)
  BY <1>1 DEF Before
<1>3. f = 0 => \A i \in 1..r.index : r.list[i] = r.under => r.under \in r.failed
  <2> SUFFICES ASSUME f = 0, NEW i \in 1..r.index, r.list[i] = r.under
               PROVE  r.under \in r.failed
    OBVIOUS
  <2>1. r.found = 0 /\ ~works
    BY <1>1
  <2>2. i # r.index
    BY <2>1
  <2>3. i \in 1..r.index - 1
    BY <1>1, <2>2
  <2> QED BY <2>1, <2>3 DEF Before
<1>4. t = IF works /\ r.kind # "hash" THEN Done(noted, "accepted") ELSE TryNext(noted)
  BY DEF Tried
<1>5. f \in Nat
  BY <1>1
<1>6. works /\ r.kind # "hash" => f = r.index
  BY DEF Walks
<1>7. ~works => f = r.found
  OBVIOUS
<1> HIDE DEF f
<1>8. /\ noted \in Request /\ noted.found = f /\ noted.pc = "key" /\ noted.create = r.create
      /\ noted.kind = r.kind /\ noted.under = r.under /\ noted.list = r.list
      /\ noted.index = r.index /\ noted.failed = r.failed
  BY <1>5 DEF Request
<1> HIDE DEF noted
<1>9. CASE works /\ r.kind # "hash"
  <2>1. t = Done(noted, "accepted")
    BY <1>4, <1>9
  <2>2. /\ t \in Request /\ t.pc = "done" /\ t.answer = "accepted"
        /\ t.under = r.under /\ t.list = r.list /\ t.found = f
    BY <1>8, <2>1, DoneFields
  <2> QED BY <1>6, <1>9, <2>2 DEF Good, Told
<1>10. CASE ~(works /\ r.kind # "hash")
  <2>1. t = TryNext(noted)
    BY <1>4, <1>10
  <2>2. Walks(noted) /\ Before(noted, noted.index)
    BY <1>2, <1>3, <1>7, <1>8, <1>10 DEF Walks, Before
  <2> QED BY <1>8, <2>1, <2>2, TryNextGood
<1> QED BY <1>9, <1>10

LEMMA KeyArrivesKeeps ==
  ASSUME IInv, NEW c \in Caller, KeyArrives(c)
  PROVE  IInv'
<1> DEFINE r == request[c]
           key == promise[caller[c].promise].key
           created == Done(r, "created")
           q == IF r.create THEN [created EXCEPT !.under = key[3]]
                ELSE Tried(r, key[3] = r.under)
<1>1. /\ Good(r) /\ r \in Request /\ r.pc = "key" /\ Walks(r) /\ Before(r, r.index - 1)
      /\ caller[c] # Idle /\ caller[c].key = KeyOf(r)
  BY DEF IInv, RequestInv, Good, KeyArrives
<1>2. key[3] = r.list[r.index]
  BY <1>1 DEF IInv, CacheInv, KeyOf
<1>3. r.list[r.index] \in Strong
  BY <1>1, KeyIsCached
<1>4. request' = [request EXCEPT ![c] = q]
  BY DEF KeyArrives
<1> HIDE DEF key
<1>5. Good(q) /\ q.pc # "key"
  <2>1. CASE r.create
    <3>1. /\ created \in Request /\ created.pc = "done" /\ created.answer = "created"
          /\ created.list = r.list
      BY <1>1, DoneFields
    <3>2. q = [created EXCEPT !.under = key[3]]
      BY <2>1
    <3> HIDE DEF created, q
    <3>3. /\ q \in Request /\ q.pc = "done" /\ q.answer = "created"
          /\ q.list = r.list /\ q.under = r.list[r.index]
      BY <1>2, <1>3, <3>1, <3>2 DEF Request
    <3> QED BY <1>1, <2>1, <3>3 DEF Good, Told, Walks
  <2>2. CASE ~r.create
    <3> DEFINE works == key[3] = r.under
    <3>1. works <=> r.list[r.index] = r.under
      BY <1>2
    <3>2. q = Tried(r, works)
      BY <2>2
    <3> HIDE DEF works, q
    <3> QED BY <1>1, <2>2, <3>1, <3>2, TriedGood
  <2> QED BY <2>1, <2>2
<1> HIDE DEF q
<1>6. CacheInv' /\ caller'[c] = Idle /\ \A d \in Caller \ {c} : caller'[d] = caller[d]
  BY ResolveKeeps DEF IInv, KeyArrives
<1>7. RequestInv'
  BY <1>4, <1>5, <1>6, RequestStep DEF IInv
<1> QED BY <1>6, <1>7 DEF IInv

(* What follows a derivation that failed and has been noted. *)
LEMMA FailedGood ==
  ASSUME NEW f \in Request, Walks(f), f.pc = "key", f.failed # {},
         ~f.create /\ f.kind = "sealed" => Before(f, f.index), NEW t, t = Failed(f)
  PROVE  Good(t) /\ t.pc # "key"
<1>1. CASE ~f.create /\ f.kind = "sealed"
  <2>1. t = TryNext(f)
    BY <1>1 DEF Failed
  <2> QED BY <1>1, <2>1, TryNextGood
<1>2. CASE ~f.create /\ f.kind = "token"
  <2>1. t = Done(f, "refused")
    BY <1>2 DEF Failed
  <2>2. /\ t \in Request /\ t.pc = "done" /\ t.answer = "refused" /\ t.kind = "token"
        /\ t.failed = f.failed
    BY <1>2, <2>1, DoneFields
  <2> QED BY <2>2 DEF Good, Told
<1>3. CASE f.create \/ f.kind \notin {"sealed", "token"}
  <2>1. t = Done(f, "error")
    BY <1>3 DEF Failed
  <2>2. /\ t \in Request /\ t.pc = "done" /\ t.answer = "error" /\ t.kind = f.kind
        /\ t.failed = f.failed /\ t.create = f.create
    BY <2>1, DoneFields
  <2>3. t.create \/ t.kind = "hash"
    BY <1>3, <2>2 DEF Request, Kind
  <2> QED BY <2>2, <2>3 DEF Good, Told
<1> QED BY <1>1, <1>2, <1>3

LEMMA KeyFailsKeeps ==
  ASSUME IInv, NEW c \in Caller, KeyFails(c)
  PROVE  IInv'
<1> DEFINE r == request[c]
           f == [r EXCEPT !.failed = @ \cup {r.list[r.index]}]
           t == Failed(f)
<1>1. /\ Good(r) /\ r \in Request /\ r.pc = "key" /\ Walks(r) /\ Before(r, r.index - 1)
  BY DEF IInv, RequestInv, Good, KeyFails
<1>2. request' = [request EXCEPT ![c] = t]
  BY DEF KeyFails, Secret
<1>3. r.list[r.index] \in Strong
  BY <1>1, KeyIsCached
<1>4. /\ f \in Request /\ f.pc = "key" /\ f.create = r.create /\ f.kind = r.kind
      /\ f.under = r.under /\ f.list = r.list /\ f.index = r.index /\ f.found = r.found
      /\ f.failed = r.failed \cup {r.list[r.index]}
  BY <1>1, <1>3 DEF Request
<1> HIDE DEF f
<1>5. Walks(f) /\ f.failed # {}
  BY <1>1, <1>4 DEF Walks
<1>6. ASSUME f.kind = "sealed" PROVE Before(f, f.index)
  <2>1. r.index \in Nat /\ r.index >= 1 /\ r.found = 0
    BY <1>1, <1>4, <1>6 DEF Request, Walks
  <2>2. \A i \in 1..r.index : i = r.index \/ i \in 1..r.index - 1
    BY <2>1
  <2> QED BY <1>1, <1>4, <2>1, <2>2 DEF Before
<1>7. Good(t) /\ t.pc # "key"
  BY <1>4, <1>5, <1>6, FailedGood
<1> HIDE DEF t
<1>8. CacheInv' /\ caller'[c] = Idle /\ \A d \in Caller \ {c} : caller'[d] = caller[d]
  BY FailKeeps DEF IInv, KeyFails
<1>9. RequestInv'
  BY <1>2, <1>7, <1>8, RequestStep DEF IInv
<1> QED BY <1>8, <1>9 DEF IInv

LEMMA NextIInv == IInv /\ [SealingNext]_allVars => IInv'
<1>1. ASSUME IInv, UNCHANGED allVars PROVE IInv'
  BY <1>1 DEF IInv, CacheInv, RequestInv, Held, Owned, allVars
<1>2. ASSUME IInv, NEW p \in Promise, NEW s \in {"resolved", "rejected"},
             Settle(p, s), UNCHANGED request
      PROVE  IInv'
  BY <1>2, SettleKeeps DEF IInv, RequestInv
<1>3. ASSUME IInv, SealingNext PROVE IInv'
  BY <1>2, <1>3, BeginKeeps, LookUpKeeps, KeyArrivesKeeps, KeyFailsKeeps DEF SealingNext
<1> QED BY <1>1, <1>3

LEMMA Invariance == SealingSpec => []IInv
BY InitIInv, NextIInv, PTL DEF SealingSpec

-----------------------------------------------------------------------------
(***************************************************************************)
(* The cache stays within its limit, holds a promise at most once and      *)
(* under the key it is derived for, and whoever waits does so for the key  *)
(* that was asked for, whatever is evicted meanwhile.                      *)
(***************************************************************************)
THEOREM TheCacheIsSound == SealingSpec => []TypeOK
<1>1. ASSUME CacheInv PROVE TypeOK
  <2>1. \A e \in Range(map) : e.promise \in DOMAIN promise
    BY <1>1, HeldPromises DEF CacheInv
  <2>2. \A c \in Caller : caller[c] # Idle => caller[c].promise \in DOMAIN promise
    BY <1>1, HeldPromises DEF CacheInv
  <2>3. \A p \in DOMAIN promise : promise[p] \in Derivation
    BY <1>1 DEF CacheInv
  <2> QED BY <1>1, <2>1, <2>2, <2>3 DEF TypeOK, CacheInv, KeysDiffer, Derivation
<1>2. IInv => TypeOK
  BY <1>1 DEF IInv
<1> QED BY <1>2, Invariance, PTL

(***************************************************************************)
(* A rejected promise is cached only as long as the caller that created it *)
(* has not seen it fail.                                                   *)
(***************************************************************************)
THEOREM TheSlotIsNotPoisoned == SealingSpec => []RejectedIsForgotten
<1>1. IInv => RejectedIsForgotten
  BY DEF IInv, CacheInv, RejectedIsForgotten, Owned
<1> QED BY <1>1, Invariance, PTL

(***************************************************************************)
(* The caller that sees a derivation fail forgets the promise that failed  *)
(* and no other, though its key may have been evicted and derived anew.    *)
(***************************************************************************)
THEOREM OnlyTheFailedIsForgotten == SealingSpec => FailureSparesOthers
<1> DEFINE Spares == \A c \in Caller : Fail(c) =>
             \A e \in Range(map) : e.promise # caller[c].promise => e \in Range(map')
<1>1. IInv => Spares
  BY FailKeeps DEF IInv
<1>2. IInv => [Spares]_vars
  BY <1>1
<1> QED BY <1>2, Invariance, PTL DEF FailureSparesOthers

(***************************************************************************)
(* What is sealed, hashed or signed under a listed secret keeps working,   *)
(* and stops as the secret is dropped, whatever rotates, fails or is       *)
(* evicted while a request walks its list.                                 *)
(***************************************************************************)
THEOREM RotationWorks == SealingSpec => []ListedSecretsWork
<1>1. IInv => ListedSecretsWork
  BY DEF IInv, RequestInv, Good, Told, ListedSecretsWork
<1> QED BY <1>1, Invariance, PTL
(***************************************************************************)
(* Nobody waits in vain, whatever is evicted, fails or rotates: a request  *)
(* that awaits a key awaits a promise that is kept, for the key of the     *)
(* entry it is at; one that is about to look up a key awaits nothing, and  *)
(* finds the promise in the cache or a free one to insert.  This is the    *)
(* half of EveryWalkEnds that is not a matter of fairness.                 *)
(***************************************************************************)
NeverStuck(c) ==
  LET r == request[c] IN
  /\ r.pc = "key" <=> caller[c] # Idle
  /\ r.pc = "key" => /\ caller[c].promise \in DOMAIN promise
                     /\ promise[caller[c].promise].key = KeyOf(r)
  /\ r.pc = "fingerprint" => \/ Get(KeyOf(r)) # {}
                             \/ \E p \in Promise : p \notin Held

THEOREM NoWalkIsStuck == SealingSpec => [](\A c \in Caller : NeverStuck(c))
<1>1. ASSUME IInv, NEW c \in Caller PROVE NeverStuck(c)
  <2>1. request[c].pc = "key" <=> caller[c] # Idle
    BY <1>1 DEF IInv, RequestInv
  <2>2. ASSUME request[c].pc = "key"
        PROVE  /\ caller[c].promise \in DOMAIN promise
               /\ promise[caller[c].promise].key = KeyOf(request[c])
    <3>1. caller[c] # Idle /\ caller[c].key = KeyOf(request[c])
      BY <1>1, <2>2 DEF IInv, RequestInv
    <3>2. caller[c].promise \in Held
      BY <1>1, <3>1, HeldPromises DEF IInv
    <3>3. DOMAIN promise = Held /\ promise[caller[c].promise].key = caller[c].key
      BY <1>1, <3>1 DEF IInv, CacheInv
    <3> QED BY <3>1, <3>2, <3>3
  <2>3. ASSUME request[c].pc = "fingerprint" PROVE \E p \in Promise : p \notin Held
    BY <1>1, <2>1, <2>3, FreePromise DEF IInv
  <2> QED BY <2>1, <2>2, <2>3 DEF NeverStuck
<1>2. IInv => \A c \in Caller : NeverStuck(c)
  BY <1>1
<1> QED BY <1>2, Invariance, PTL

=============================================================================
