----------------------------- MODULE MCRedemption -----------------------------
(* Three tokens that expire around the prunes, three concurrent requests. *)
EXTENDS Redemption, TLC

CONSTANTS k1, k2, k3

MCKey == {k1, k2, k3}
MCExpiry == k1 :> 3 @@ k2 :> 4 @@ k3 :> 6

RequestSymmetry == Permutations(Req)

=============================================================================
