----------------------------- MODULE KvCodeStore -----------------------------
(***************************************************************************)
(* kvCodeStore: a CodeStore over a key-value store that several instances  *)
(* share.  consume computes how long the mark has to live, in whole        *)
(* seconds, and the store sets it if it is absent, later and by one atomic *)
(* command (Redis SET NX EX; memoryKv).  A row is dead once its time is    *)
(* over, and is dropped by the next read of its key.                       *)
(***************************************************************************)
EXTENDS Integers

CONSTANTS Key, Expiry, MaxNow,
          Caller,
          Second     \* time steps in a second

\* What a deployment may choose; Redemption, which composes this store, assumes it.
ConstantsOK ==
  /\ Expiry \in [Key -> Nat]
  /\ MaxNow \in Nat
  /\ Second \in Nat \ {0}

VARIABLES now,
          rows,      \* the store: key -> expMs
          calls,     \* the consume of each caller that is under way, if any
          reply      \* the last answer of the store

vars == <<now, rows, calls, reply>>

NoReply == [key |-> {}, fresh |-> FALSE]

Init == /\ now \in 0 .. MaxNow
        /\ rows = [k \in {} |-> 0]
        /\ calls = [c \in Caller |-> {}]
        /\ reply = NoReply

(* Fault: a part of a second is cut off. *)
TtlRoundedDown(k) ==
  LET whole == (Expiry[k] - now) \div Second
  IN IF whole < 1 THEN 1 ELSE whole

\* The seconds until the expiry, rounded up, and at least one.
Ttl(k) ==
  LET whole == (Expiry[k] - now + Second - 1) \div Second
  IN IF whole < 1 THEN 1 ELSE whole

Consume(c, k) ==
  /\ calls[c] = {}
  /\ calls' = [calls EXCEPT ![c] = {[key |-> k, ttl |-> Ttl(k)]}]
  /\ UNCHANGED <<now, rows, reply>>

\* read, which drops a row whose time is over
Present(k) == k \in DOMAIN rows /\ rows[k] >= now

SetIfAbsent(c) ==
  /\ \E call \in calls[c] :
       /\ reply' = [key |-> {call.key}, fresh |-> ~Present(call.key)]
       /\ rows' = [k \in DOMAIN rows \cup {call.key} |->
                     IF k = call.key /\ ~Present(k)
                     THEN now + call.ttl * Second ELSE rows[k]]
  /\ calls' = [calls EXCEPT ![c] = {}]
  /\ UNCHANGED now

Tick == /\ now < MaxNow
        /\ now' = now + 1
        /\ UNCHANGED <<rows, calls, reply>>

Next == Tick \/ \E c \in Caller : SetIfAbsent(c) \/ \E k \in Key : Consume(c, k)

Spec == Init /\ [][Next]_vars

-----------------------------------------------------------------------------
TypeOK == /\ now \in 0 .. MaxNow
          /\ rows \in [DOMAIN rows -> Nat]
          /\ DOMAIN rows \subseteq Key
          /\ calls \in [Caller -> SUBSET [key : Key, ttl : Nat]]
          /\ reply \in [key : SUBSET Key, fresh : BOOLEAN]

(***************************************************************************)
(* A mark ends no earlier than the token whose use it records: also one    *)
(* that is still on its way to the store.                                  *)
(***************************************************************************)
MarksOutliveTokens ==
  /\ \A k \in DOMAIN rows : rows[k] >= Expiry[k]
  /\ \A c \in Caller : \A call \in calls[c] : now + call.ttl * Second >= Expiry[call.key]

(***************************************************************************)
(* The store over key-values keeps the contract of SingleUse.tla: the keys *)
(* ever marked are those that have a row, dead or alive.                   *)
(***************************************************************************)
Contract == INSTANCE SingleUseStore WITH spent <- DOMAIN rows, answer <- reply

KeepsContract == Contract!Spec

=============================================================================
