--------------------------- MODULE Redemption_proofs ---------------------------
(***************************************************************************)
(* The in-memory CodeStore, for every set of keys, every expiry and every  *)
(* prune interval; the store over key-values, for any callers and length   *)
(* of a second; then the redemptions over each of them, for any number of  *)
(* requests between check and consume.                                     *)
(***************************************************************************)
EXTENDS Redemption, TLAPS

USE CodeStoreAssumption, RedemptionAssumption DEF Kv!ConstantsOK

Inv == TypeOK /\ ForgetsOnlyExpired

-----------------------------------------------------------------------------
LEMMA InitInv == Init => Inv
BY DEF Init, Inv, TypeOK, ForgetsOnlyExpired, NoAnswer

(***************************************************************************)
(* One consume: what survives the prune was unexpired or not looked at, so *)
(* what is dropped had expired.                                            *)
(***************************************************************************)
LEMMA ConsumeInv ==
  ASSUME Inv, NEW k \in Key, Consume(k, Expiry[k])
  PROVE  Inv'
<1> USE DEF Inv, TypeOK, ForgetsOnlyExpired
<1>1. now' = now /\ DOMAIN used' = Kept \cup {k}
  BY DEF Consume, Marked
<1>2. Kept \subseteq DOMAIN used
  BY DEF Kept
<1>3. \A j \in DOMAIN used' : used'[j] = Expiry[j]
  BY <1>1, <1>2 DEF Consume, Marked
<1>4. lastPrunedAt' \in 0 .. now'
  BY DEF Consume, Marked, PruneDue
<1>5. answer' \in [key : SUBSET Key, fresh : BOOLEAN] /\ spent' \subseteq Key
  BY DEF Consume, Marked
<1>6. DOMAIN used' \subseteq spent'
  BY <1>1, <1>2 DEF Consume, Marked
<1>7. ASSUME NEW j \in spent', j \notin DOMAIN used'
      PROVE  Expiry[j] < now'
  <2>1. j \in spent /\ j \notin Kept
    BY <1>1, <1>7 DEF Consume, Marked
  <2>2. CASE j \notin DOMAIN used
    BY <1>1, <2>1, <2>2
  <2>3. CASE j \in DOMAIN used
    BY <1>1, <2>1, <2>3 DEF Kept
  <2> QED BY <2>2, <2>3
<1> QED BY <1>1, <1>2, <1>3, <1>4, <1>5, <1>6, <1>7

LEMMA NextInv == Inv /\ [Next]_vars => Inv'
<1> SUFFICES ASSUME Inv, [Next]_vars PROVE Inv'
  OBVIOUS
<1>1. CASE Tick
  BY <1>1 DEF Tick, Inv, TypeOK, ForgetsOnlyExpired
<1>2. CASE \E k \in Key : Consume(k, Expiry[k])
  BY <1>2, ConsumeInv
<1>3. CASE UNCHANGED vars
  BY <1>3 DEF vars, Inv, TypeOK, ForgetsOnlyExpired
<1> QED BY <1>1, <1>2, <1>3 DEF Next

(* The types, the forgetting rule: both hold in every reachable state. *)
THEOREM Invariance == Spec => [](TypeOK /\ ForgetsOnlyExpired)
<1>1. Init => Inv
  BY InitInv
<1>2. Inv /\ [Next]_vars => Inv'
  BY NextInv
<1> QED BY <1>1, <1>2, PTL DEF Spec, Inv

-----------------------------------------------------------------------------
(***************************************************************************)
(* The answer of a consume is one the contract allows: a key it refuses    *)
(* was marked, and a marked key it calls fresh has expired.                *)
(***************************************************************************)
LEMMA ConsumeKeepsContract ==
  ASSUME Inv, NEW k \in Key, Consume(k, Expiry[k])
  PROVE  Contract!Call(k)
<1> DEFINE fresh == k \notin Kept
<1>1. fresh \in BOOLEAN /\ answer' = [key |-> {k}, fresh |-> fresh] /\ now' = now
  BY DEF Consume, Marked
<1>2. spent' = spent \cup {k}
  BY DEF Consume, Marked
<1>3. ~fresh => k \in spent
  BY DEF Inv, ForgetsOnlyExpired, Kept
<1>4. fresh /\ k \in spent => Expiry[k] < now
  BY DEF Inv, TypeOK, ForgetsOnlyExpired, Kept
<1>5. fresh \in Contract!Answers(k, Expiry[k])
  BY <1>1, <1>3, <1>4 DEF Contract!Answers
<1> HIDE DEF fresh
<1> QED BY <1>1, <1>2, <1>5 DEF Contract!Call, Contract!Consume

(***************************************************************************)
(* The in-memory store implements the contract of SingleUse.tla: every     *)
(* behaviour of the pruned map is one the contract allows.                 *)
(***************************************************************************)
THEOREM Refinement == Spec => KeepsContract
<1>1. Init => Contract!Init
  BY DEF Init, Contract!Init, NoAnswer, Contract!NoAnswer
<1>2. Inv /\ [Next]_vars => [Contract!Next]_(Contract!vars)
  <2> SUFFICES ASSUME Inv, [Next]_vars PROVE [Contract!Next]_(Contract!vars)
    OBVIOUS
  <2>1. CASE Tick
    BY <2>1 DEF Tick, Contract!Next, Contract!Tick
  <2>2. CASE \E k \in Key : Consume(k, Expiry[k])
    BY <2>2, ConsumeKeepsContract DEF Contract!Next
  <2>3. CASE UNCHANGED vars
    BY <2>3 DEF vars, Contract!vars
  <2> QED BY <2>1, <2>2, <2>3 DEF Next
<1>3. Spec => []Inv
  BY Invariance DEF Inv
<1> QED BY <1>1, <1>2, <1>3, PTL DEF Spec, KeepsContract, Contract!Spec

-----------------------------------------------------------------------------
(* The prune that runs with a consume.                                     *)

(***************************************************************************)
(* After a call that pruned, only the key of that call may be an expired   *)
(* one: the map cannot outgrow the tokens alive by more than that.         *)
(***************************************************************************)
THEOREM PruneWorks == Spec => PruneClears
<1>1. ASSUME Inv, [Next]_vars
      PROVE  [lastPrunedAt' # lastPrunedAt =>
                \A k \in DOMAIN used' : used'[k] >= now' \/ answer'.key = {k}]_vars
  <2> SUFFICES ASSUME lastPrunedAt' # lastPrunedAt, NEW j \in DOMAIN used'
               PROVE  used'[j] >= now' \/ answer'.key = {j}
    OBVIOUS
  <2>1. PICK k \in Key : Consume(k, Expiry[k])
    BY <1>1 DEF Next, Tick, vars
  <2>2. PruneDue /\ now' = now /\ answer'.key = {k} /\ used' = Marked(k, Expiry[k])
    BY <2>1 DEF Consume
  <2>3. j # k => j \in Kept /\ used'[j] = used[j]
    BY <2>2 DEF Marked
  <2> QED BY <2>2, <2>3 DEF Kept
<1>2. Spec => []Inv
  BY Invariance DEF Inv
<1> QED BY <1>1, <1>2, PTL DEF Spec, PruneClears

-----------------------------------------------------------------------------
(* The store over key-values, for any callers and length of a second.      *)

KvInv == Kv!TypeOK /\ Kv!MarksOutliveTokens

(* Division rounds down, so a second more than the quotient exceeds it. *)
LEMMA RoundedUp ==
  ASSUME NEW n \in Int
  PROVE  ((n + Second - 1) \div Second) * Second >= n
<1> DEFINE q == (n + Second - 1) \div Second
           m == (n + Second - 1) % Second
<1>1. q \in Int /\ m \in 0 .. Second - 1
  OBVIOUS
<1>2. n + Second - 1 = q * Second + m
  OBVIOUS
<1> HIDE DEF q, m
<1>3. q * Second \in Int
  BY <1>1
<1>4. q * Second >= n
  BY <1>1, <1>2, <1>3
<1> QED BY <1>4 DEF q

(* A mark that is set for its whole time to live ends after its token does. *)
LEMMA TtlSuffices ==
  ASSUME NEW k \in Key, now \in Nat
  PROVE  Kv!Ttl(k) \in Nat /\ now + Kv!Ttl(k) * Second >= Expiry[k]
<1> DEFINE n == Expiry[k] - now
           q == (n + Second - 1) \div Second
<1>1. n \in Int /\ q \in Int
  OBVIOUS
<1>2. q * Second >= n
  BY <1>1, RoundedUp
<1> HIDE DEF q
<1>3. CASE q < 1
  <2>1. Kv!Ttl(k) = 1
    BY <1>3 DEF Kv!Ttl, q
  <2>2. Second > q * Second \/ q * Second <= 0
    BY <1>1, <1>3
  <2> QED BY <1>1, <1>2, <1>3, <2>1
<1>4. CASE q >= 1
  <2>1. Kv!Ttl(k) = q
    BY <1>1, <1>4 DEF Kv!Ttl, q
  <2> QED BY <1>1, <1>2, <1>4, <2>1
<1> QED BY <1>1, <1>3, <1>4

-----------------------------------------------------------------------------
LEMMA KvInitInv == Kv!Init => KvInv
BY DEF Kv!Init, KvInv, Kv!TypeOK, Kv!MarksOutliveTokens, Kv!NoReply

(* The call that leaves with the time to live of this moment. *)
LEMMA KvConsumeInv ==
  ASSUME KvInv, NEW c \in Req, NEW k \in Key, Kv!Consume(c, k)
  PROVE  KvInv'
<1> USE DEF KvInv, Kv!TypeOK, Kv!MarksOutliveTokens
<1>1. Kv!Ttl(k) \in Nat /\ now + Kv!Ttl(k) * Second >= Expiry[k]
  BY TtlSuffices
<1>2. calls' = [calls EXCEPT ![c] = {[key |-> k, ttl |-> Kv!Ttl(k)]}]
      /\ now' = now /\ rows' = rows /\ reply' = reply
  BY DEF Kv!Consume
<1>3. calls' \in [Req -> SUBSET [key : Key, ttl : Nat]]
  BY <1>1, <1>2
<1>4. ASSUME NEW d \in Req, NEW call \in calls'[d]
      PROVE  now + call.ttl * Second >= Expiry[call.key]
  <2>1. CASE d = c
    BY <1>1, <1>2, <1>4, <2>1
  <2>2. CASE d # c
    BY <1>2, <1>4, <2>2
  <2> QED BY <2>1, <2>2
<1> QED BY <1>2, <1>3, <1>4

(* The row that is written has the whole time to live before it. *)
LEMMA KvSetIfAbsentInv ==
  ASSUME KvInv, NEW c \in Req, Kv!SetIfAbsent(c)
  PROVE  KvInv'
<1> USE DEF KvInv, Kv!TypeOK, Kv!MarksOutliveTokens
<1>1. PICK call \in calls[c] :
        /\ reply' = [key |-> {call.key}, fresh |-> ~Kv!Present(call.key)]
        /\ rows' = [k \in DOMAIN rows \cup {call.key} |->
                      IF k = call.key /\ ~Kv!Present(k)
                      THEN now + call.ttl * Second ELSE rows[k]]
  BY DEF Kv!SetIfAbsent
<1>2. calls' = [calls EXCEPT ![c] = {}] /\ now' = now
  BY DEF Kv!SetIfAbsent
<1>3. call.key \in Key /\ call.ttl \in Nat /\ now + call.ttl * Second >= Expiry[call.key]
  OBVIOUS
<1>4. call.ttl * Second \in Nat
  BY <1>3
<1>5. ASSUME NEW k \in DOMAIN rows'
      PROVE  rows'[k] \in Nat /\ rows'[k] >= Expiry[k]
  <2>1. CASE k = call.key /\ ~Kv!Present(k)
    BY <1>1, <1>3, <1>4, <2>1
  <2>2. CASE ~(k = call.key /\ ~Kv!Present(k))
    BY <1>1, <2>2 DEF Kv!Present
  <2> QED BY <2>1, <2>2
<1>6. DOMAIN rows' \subseteq Key /\ rows' \in [DOMAIN rows' -> Nat]
  BY <1>1, <1>3, <1>5
<1>7. reply' \in [key : SUBSET Key, fresh : BOOLEAN]
  BY <1>1, <1>3
<1>8. calls' \in [Req -> SUBSET [key : Key, ttl : Nat]]
  BY <1>2
<1>9. \A d \in Req : \A w \in calls'[d] : now' + w.ttl * Second >= Expiry[w.key]
  BY <1>2
<1> QED BY <1>2, <1>5, <1>6, <1>7, <1>8, <1>9

LEMMA KvTickInv ==
  ASSUME KvInv, Kv!Tick
  PROVE  KvInv'
<1> USE DEF KvInv, Kv!TypeOK, Kv!MarksOutliveTokens
<1>1. now' = now + 1 /\ now' \in 0 .. MaxNow /\ UNCHANGED <<rows, calls, reply>>
  BY DEF Kv!Tick
<1>2. ASSUME NEW d \in Req, NEW w \in calls'[d]
      PROVE  now' + w.ttl * Second >= Expiry[w.key]
  <2>1. w \in calls[d] /\ now + w.ttl * Second >= Expiry[w.key]
    BY <1>1, <1>2
  <2>2. w.key \in Key /\ w.ttl \in Nat
    BY <2>1
  <2> DEFINE life == w.ttl * Second
  <2>3. life \in Nat /\ now \in Nat /\ Expiry[w.key] \in Nat
    BY <2>2
  <2>4. now + life >= Expiry[w.key] /\ now' = now + 1
    BY <1>1, <2>1
  <2> HIDE DEF KvInv, life
  <2>5. now' + life >= Expiry[w.key]
    BY <2>3, <2>4
  <2> QED BY <2>5 DEF life
<1> QED BY <1>1, <1>2

LEMMA KvNextInv == KvInv /\ [Kv!Next]_(Kv!vars) => KvInv'
<1> SUFFICES ASSUME KvInv, [Kv!Next]_(Kv!vars) PROVE KvInv'
  OBVIOUS
<1>1. CASE Kv!Tick
  BY <1>1, KvTickInv
<1>2. ASSUME NEW c \in Req, Kv!SetIfAbsent(c) PROVE KvInv'
  BY <1>2, KvSetIfAbsentInv
<1>3. ASSUME NEW c \in Req, NEW k \in Key, Kv!Consume(c, k) PROVE KvInv'
  BY <1>3, KvConsumeInv
<1>4. CASE UNCHANGED Kv!vars
  BY <1>4 DEF Kv!vars, KvInv, Kv!TypeOK, Kv!MarksOutliveTokens
<1> QED BY <1>1, <1>2, <1>3, <1>4 DEF Kv!Next

LEMMA KvInvariance == Kv!Spec => []KvInv
BY KvInitInv, KvNextInv, PTL DEF Kv!Spec

(***************************************************************************)
(* The mark of a token never ends before the token does, however long the  *)
(* call was under way (stores.ts, kvCodeStore).                            *)
(***************************************************************************)
THEOREM KvMarksLast == Kv!Spec => []Kv!MarksOutliveTokens
BY KvInvariance, PTL DEF KvInv

-----------------------------------------------------------------------------
(* The answer is one the contract allows: a key that is refused has a row, *)
(* and one with a row that is called fresh has expired with its row.       *)
LEMMA KvAnswerKeepsContract ==
  ASSUME KvInv, NEW c \in Req, Kv!SetIfAbsent(c)
  PROVE  \E k \in Key : Kv!Contract!Call(k)
<1> USE DEF KvInv, Kv!TypeOK, Kv!MarksOutliveTokens
<1>1. PICK call \in calls[c] :
        /\ reply' = [key |-> {call.key}, fresh |-> ~Kv!Present(call.key)]
        /\ rows' = [k \in DOMAIN rows \cup {call.key} |->
                      IF k = call.key /\ ~Kv!Present(k)
                      THEN now + call.ttl * Second ELSE rows[k]]
  BY DEF Kv!SetIfAbsent
<1> DEFINE k == call.key
           fresh == ~Kv!Present(k)
<1>2. k \in Key
  OBVIOUS
<1>3. DOMAIN rows' = DOMAIN rows \cup {k} /\ now' = now
  BY <1>1 DEF Kv!SetIfAbsent
<1>4. fresh \in BOOLEAN /\ reply' = [key |-> {k}, fresh |-> fresh]
  BY <1>1
<1>5. ~fresh => k \in DOMAIN rows
  BY DEF Kv!Present
<1>6. fresh /\ k \in DOMAIN rows => Expiry[k] < now
  <2> SUFFICES ASSUME fresh, k \in DOMAIN rows PROVE Expiry[k] < now
    OBVIOUS
  <2>1. ~(rows[k] >= now)
    BY DEF Kv!Present
  <2>2. rows[k] \in Nat /\ rows[k] >= Expiry[k] /\ Expiry[k] \in Nat /\ now \in Nat
    BY <1>2
  <2> QED BY <2>1, <2>2
<1>7. fresh \in Kv!Contract!Answers(k, Expiry[k])
  BY <1>4, <1>5, <1>6 DEF Kv!Contract!Answers
<1> HIDE DEF fresh, k
<1> QED BY <1>2, <1>3, <1>4, <1>7 DEF Kv!Contract!Call, Kv!Contract!Consume

(***************************************************************************)
(* kvCodeStore implements the contract of SingleUse.tla, with the keys     *)
(* that have a row as those ever marked: the call of a consumer is a step  *)
(* of nothing, the command of the store is the consume.                    *)
(***************************************************************************)
THEOREM KvRefinement == Kv!Spec => Kv!KeepsContract
<1>1. Kv!Init => Kv!Contract!Init
  BY DEF Kv!Init, Kv!Contract!Init, Kv!NoReply, Kv!Contract!NoAnswer
<1>2. KvInv /\ [Kv!Next]_(Kv!vars) => [Kv!Contract!Next]_(Kv!Contract!vars)
  <2> SUFFICES ASSUME KvInv, [Kv!Next]_(Kv!vars) PROVE [Kv!Contract!Next]_(Kv!Contract!vars)
    OBVIOUS
  <2>1. CASE Kv!Tick
    BY <2>1 DEF Kv!Tick, Kv!Contract!Next, Kv!Contract!Tick
  <2>2. ASSUME NEW c \in Req, Kv!SetIfAbsent(c) PROVE Kv!Contract!Next
    BY <2>2, KvAnswerKeepsContract DEF Kv!Contract!Next
  <2>3. ASSUME NEW c \in Req, NEW k \in Key, Kv!Consume(c, k) PROVE UNCHANGED Kv!Contract!vars
    BY <2>3 DEF Kv!Consume, Kv!Contract!vars
  <2>4. CASE UNCHANGED Kv!vars
    BY <2>4 DEF Kv!vars, Kv!Contract!vars
  <2> QED BY <2>1, <2>2, <2>3, <2>4 DEF Kv!Next
<1> QED BY <1>1, <1>2, KvInvariance, PTL DEF Kv!Spec, Kv!KeepsContract, Kv!Contract!Spec

-----------------------------------------------------------------------------
(* The redemptions.                                                        *)

(***************************************************************************)
(* Either store runs here as it does alone: a redemption is a consume of   *)
(* one of them, and a step of nothing for the other.                       *)
(***************************************************************************)
LEMMA MemoryRuns == RedemptionSpec => Spec
<1>1. RedemptionInit => Init
  BY DEF RedemptionInit
<1>2. [RedemptionNext]_allVars => [Next]_vars
  BY DEF RedemptionNext, RedemptionTick, CheckExpiry, Redeem, KvRedeem, KvAnswers, Next,
         allVars, vars, memoryVars, Kv!Consume, Kv!SetIfAbsent
<1> QED BY <1>1, <1>2, PTL DEF RedemptionSpec, Spec

LEMMA KvRuns == RedemptionSpec => Kv!Spec
<1>1. RedemptionInit => Kv!Init
  BY DEF RedemptionInit
<1>2. [RedemptionNext]_allVars => [Kv!Next]_(Kv!vars)
  BY DEF RedemptionNext, RedemptionTick, Tick, CheckExpiry, Redeem, Consume, KvRedeem,
         KvAnswers, Kv!Next, Kv!Tick, Kv!vars, allVars, vars, kvVars
<1> QED BY <1>1, <1>2, PTL DEF RedemptionSpec, Kv!Spec

(* The in-memory store keeps the contract under the calls that happen.     *)
THEOREM MemoryKeepsContract == RedemptionSpec => KeepsContract
BY MemoryRuns, Refinement

(* So does the store over key-values, with one row per token ever used.    *)
THEOREM KvKeepsItsContract == RedemptionSpec => KvKeepsContract
BY KvRuns, KvRefinement, PTL DEF KvKeepsContract

(* The invariants of the two stores hold here too. *)
LEMMA StoresHold == RedemptionSpec => []Inv /\ []KvInv
<1>1. RedemptionSpec => []Inv
  BY MemoryRuns, Invariance DEF Inv
<1>2. RedemptionSpec => []KvInv
  BY KvRuns, KvInvariance
<1> QED BY <1>1, <1>2

-----------------------------------------------------------------------------
(* Redeemed once until expiry.                                             *)

(***************************************************************************)
(* Why it holds, for either store: what was redeemed is marked there, and  *)
(* by the contract a marked key that is answered fresh has expired.  The   *)
(* check of the expiry, long before, plays no part: it is what the caller  *)
(* owes for tokens that have expired, not the store.                       *)
(***************************************************************************)
Marks == IF store = "memory" THEN spent ELSE DOMAIN rows

RedeemInv ==
  /\ store \in {"memory", "kv"}
  /\ accepted \in [Key -> Nat]
  /\ store = "memory" => \A r \in Req : calls[r] = {}   \* one store is idle
  /\ \A k \in Key : accepted[k] > 0 => k \in Marks
  /\ RedeemedOnceUntilExpiry

(* One answer of a store that keeps its contract. *)
LEMMA AcceptOnce ==
  ASSUME RedeemInv, NEW k \in Key, NEW fresh \in BOOLEAN, Accept(k, fresh),
         now' = now, now \in Nat, k \in Marks', Marks \subseteq Marks', store' = store,
         store = "memory" => calls' = calls,
         fresh /\ k \in Marks => Expiry[k] < now
  PROVE  RedeemInv'
<1>1. \A j \in Key \ {k} : accepted'[j] = accepted[j]
  BY DEF RedeemInv, Accept
<1>2. accepted'[k] = IF fresh THEN accepted[k] + 1 ELSE accepted[k]
  BY DEF RedeemInv, Accept
<1>3. accepted'[k] > 1 => Expiry[k] < now'
  <2>1. accepted[k] \in Nat /\ Expiry[k] \in Nat
    BY DEF RedeemInv
  <2>2. accepted'[k] > 1 => accepted[k] > 1 \/ (fresh /\ accepted[k] > 0)
    BY <1>2, <2>1
  <2> QED BY <2>1, <2>2 DEF RedeemInv, RedeemedOnceUntilExpiry
<1>4. accepted' \in [Key -> Nat]
  BY <1>2 DEF RedeemInv, Accept
<1>5. (\A j \in Key : accepted[j] > 0 => j \in Marks)'
  BY <1>1 DEF RedeemInv
<1>6. RedeemedOnceUntilExpiry'
  BY <1>1, <1>3 DEF RedeemInv, RedeemedOnceUntilExpiry
<1> QED BY <1>4, <1>5, <1>6 DEF RedeemInv

LEMMA NextRedeemInv ==
  Inv /\ KvInv /\ RedeemInv /\ [RedemptionNext]_allVars => RedeemInv'
<1> SUFFICES ASSUME Inv, KvInv, RedeemInv, [RedemptionNext]_allVars PROVE RedeemInv'
  OBVIOUS
<1> now \in Nat
  BY DEF Inv, TypeOK
<1>1. ASSUME NEW r \in Req, NEW k \in Key, Redeem(r, k)
      PROVE  RedeemInv'
  <2>1. Consume(k, Expiry[k]) /\ store = "memory" /\ store' = store /\ calls' = calls
    BY <1>1 DEF Redeem, kvVars
  <2>2. PICK fresh \in BOOLEAN :
          /\ Contract!Consume(k, Expiry[k], fresh)
          /\ answer' = [key |-> {k}, fresh |-> fresh]
          /\ now' = now
    BY <2>1, ConsumeKeepsContract DEF Contract!Call
  <2>3. Accept(k, fresh)
    BY <1>1, <2>2 DEF Redeem
  <2>4. Marks = spent /\ Marks' = spent \cup {k} /\ (fresh /\ k \in spent => Expiry[k] < now)
    BY <2>1, <2>2 DEF Marks, Contract!Consume, Contract!Answers
  <2> QED BY <2>1, <2>2, <2>3, <2>4, AcceptOnce
<1>2. ASSUME NEW r \in Req, KvAnswers(r)
      PROVE  RedeemInv'
  <2>1. Kv!SetIfAbsent(r) /\ store' = store
    BY <1>2 DEF KvAnswers
  <2>2. PICK k \in Key, fresh \in BOOLEAN :
          /\ Kv!Contract!Consume(k, Expiry[k], fresh)
          /\ reply' = [key |-> {k}, fresh |-> fresh]
          /\ now' = now
    BY <2>1, KvAnswerKeepsContract DEF Kv!Contract!Call
  <2>3. Accept(k, fresh)
    BY <1>2, <2>2 DEF KvAnswers
  <2>4. DOMAIN rows' = DOMAIN rows \cup {k} /\ (fresh /\ k \in DOMAIN rows => Expiry[k] < now)
    BY <2>2 DEF Kv!Contract!Consume, Kv!Contract!Answers
  <2>5. store = "kv"
    BY <2>1 DEF RedeemInv, Kv!SetIfAbsent
  <2> QED BY <2>1, <2>2, <2>3, <2>4, <2>5, AcceptOnce DEF Marks
<1>3. CASE RedemptionTick
  <2>1. now' = now + 1 /\ UNCHANGED <<spent, rows, calls, store, accepted>>
    BY <1>3 DEF RedemptionTick, Tick, kvVars
  <2>2. \A k \in Key : Expiry[k] \in Nat
    OBVIOUS
  <2> QED BY <2>1, <2>2 DEF RedeemInv, RedeemedOnceUntilExpiry, Marks
<1>4. ASSUME NEW r \in Req, NEW k \in Key, CheckExpiry(r, k) \/ KvRedeem(r, k)
      PROVE  RedeemInv'
  <2>1. UNCHANGED <<now, spent, rows, store, accepted>> /\ (store = "memory" => calls' = calls)
    BY <1>4 DEF CheckExpiry, KvRedeem, Kv!Consume, memoryVars, kvVars, vars
  <2> QED BY <2>1 DEF RedeemInv, RedeemedOnceUntilExpiry, Marks
<1>5. CASE UNCHANGED allVars
  BY <1>5 DEF allVars, vars, kvVars, RedeemInv, RedeemedOnceUntilExpiry, Marks
<1> QED BY <1>1, <1>2, <1>3, <1>4, <1>5 DEF RedemptionNext

(***************************************************************************)
(* A token is redeemed at most once while it is unexpired, on either       *)
(* store, with any number of requests between their look at the expiry and *)
(* their consume.  codes.ts, stores.ts, and their three callers.           *)
(***************************************************************************)
THEOREM RedeemedOnce == RedemptionSpec => []RedeemedOnceUntilExpiry
<1>1. RedemptionInit => RedeemInv
  BY DEF RedemptionInit, Kv!Init, RedeemInv, RedeemedOnceUntilExpiry
<1>2. RedeemInv => RedeemedOnceUntilExpiry
  BY DEF RedeemInv
<1> QED BY <1>1, <1>2, StoresHold, NextRedeemInv, PTL DEF RedemptionSpec

=============================================================================
