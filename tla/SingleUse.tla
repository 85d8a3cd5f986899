------------------------------ MODULE SingleUse ------------------------------
(***************************************************************************)
(* The contract of a CodeStore, as the OAuth handlers rely on it: the      *)
(* library keeps no other state, so every "works once" promise it makes    *)
(* rests on what `consume(key, exp)` answers.                              *)
(*                                                                         *)
(* The handlers are written against this contract and not against one      *)
(* store, because the host may pass a shared Redis, Postgres or KV store   *)
(* (ports.codeStore) in place of the in-memory one, which CodeStore.tla    *)
(* models and proves to keep this contract.                                *)
(*                                                                         *)
(* spent is every key ever marked.  A store may forget a key whose expiry  *)
(* has passed, so for an expired key the answer is not determined.         *)
(***************************************************************************)
EXTENDS Integers

VARIABLES now,    \* Date.now(), in units of the model's time step
          spent   \* keys that consume has marked

(* Fault: a store that reads and writes in two steps may answer fresh twice. *)
AnswersWithoutAtomicity(key, exp) == {fresh \in BOOLEAN : ~fresh => key \in spent}

(***************************************************************************)
(* The answer of one atomic consume: a key never marked is always fresh,   *)
(* a key marked before is never fresh again until it has expired.          *)
(***************************************************************************)
Answers(key, exp) ==
  {fresh \in BOOLEAN :
      /\ ~fresh => key \in spent
      /\ fresh /\ key \in spent => exp < now}

Consume(key, exp, fresh) ==
  /\ fresh \in Answers(key, exp)
  /\ spent' = spent \cup {key}

(***************************************************************************)
(* A shared store is a remote service: a call may throw, and the handler   *)
(* cannot tell whether the mark was written before it did.                 *)
(***************************************************************************)
ConsumeThrows(key) == spent' \in {spent, spent \cup {key}}

=============================================================================
