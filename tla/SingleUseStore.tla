---------------------------- MODULE SingleUseStore ----------------------------
(***************************************************************************)
(* The contract of SingleUse.tla as a closed system: any caller may        *)
(* consume any key at any time and sees one answer.  This is the abstract  *)
(* specification that an implementation of CodeStore must refine.          *)
(***************************************************************************)
EXTENDS SingleUse

CONSTANTS Key,      \* the jti values (with their ct: / rt: prefix) in use
          Expiry,   \* the expiry sealed into the token of each key
          MaxNow    \* bound on the clock, for model checking

VARIABLE answer     \* the last answer: the key it was about, and fresh or not

NoAnswer == [key |-> {}, fresh |-> FALSE]

Init == /\ now \in 0 .. MaxNow
        /\ spent = {}
        /\ answer = NoAnswer

Call(k) == \E fresh \in BOOLEAN :
  /\ Consume(k, Expiry[k], fresh)
  /\ answer' = [key |-> {k}, fresh |-> fresh]
  /\ UNCHANGED now

Tick == /\ now < MaxNow
        /\ now' = now + 1
        /\ UNCHANGED <<spent, answer>>

Next == Tick \/ \E k \in Key : Call(k)

vars == <<now, spent, answer>>

Spec == Init /\ [][Next]_vars

=============================================================================
