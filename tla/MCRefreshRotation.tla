-------------------------- MODULE MCRefreshRotation --------------------------
(* Instances of RefreshRotation: the constants are in the .cfg files. *)
EXTENDS RefreshRotation, TLC

Symmetry == Permutations(Req) \cup Permutations(Client) \cup Permutations(ScopeName)

=============================================================================
