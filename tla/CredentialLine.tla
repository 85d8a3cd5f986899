---------------------------- MODULE CredentialLine ----------------------------
(***************************************************************************)
(* What "works once" is for.  A consent, or the exchange of a code, starts *)
(* a line of credentials, each given in return for the one before: ticket  *)
(* and code, or refresh token after refresh token.  The line is always in  *)
(* one place: in one credential that works, with the one request that has  *)
(* spent it and is to give out the next, or nowhere any more.  This is the *)
(* abstract specification that AuthFlow and RefreshRotation implement.     *)
(***************************************************************************)
CONSTANTS Line, Credential

VARIABLE line    \* Line -> where it is, and the credential that works

Unissued == [at |-> "unissued", works |-> {}]
Live(x)  == [at |-> "live", works |-> {x}]
Between  == [at |-> "between", works |-> {}]
Ended    == [at |-> "ended", works |-> {}]

Init == line = [l \in Line |-> Unissued]

Begin(l) ==
  /\ line[l] = Unissued
  /\ \E x \in Credential : line' = [line EXCEPT ![l] = Live(x)]

Spend(l) ==
  /\ line[l].at = "live"
  /\ line' = [line EXCEPT ![l] = Between]

Replace(l) ==
  /\ line[l] = Between
  /\ \E x \in Credential : line' = [line EXCEPT ![l] = Live(x)]

\* Expiry, revocation, denial, the last use, a failure: the clock may end many lines
\* at once.
End(L) ==
  /\ \A l \in L : line[l] # Unissued
  /\ line' = [l \in Line |-> IF l \in L THEN Ended ELSE line[l]]

Next ==
  \/ \E L \in SUBSET Line : End(L)
  \/ \E l \in Line : Begin(l) \/ Spend(l) \/ Replace(l)

Spec == Init /\ [][Next]_line

=============================================================================
