------------------------------ MODULE MCAuthFlow ------------------------------
(***************************************************************************)
(* Two instances of AuthFlow: many requests over little data, for          *)
(* the races, and few requests over varied data, for the binding           *)
(* of a grant to its client, user, redirect URI, resource and verifier.    *)
(***************************************************************************)
EXTENDS AuthFlow, TLC

CONSTANTS desk, web, agent, uriA, uriB

\* desk is registered with one URI; in the binding instance agent is a metadata
\* document client, and web can only register itself.
DeskRedirects == desk :> {uriA}

NoCimdRedirects == [c \in {} |-> {}]

AgentRedirects == agent :> {uriA}

RequestSymmetry == Permutations(Req)

\* Users, challenges and resources are interchangeable values.
DataSymmetry == Permutations(User) \cup Permutations(Challenge) \cup Permutations(Resource)

=============================================================================
