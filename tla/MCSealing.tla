------------------------------ MODULE MCSealing ------------------------------
(* A rotation from one secret to another, and a list that is refused.      *)
EXTENDS Sealing

Lists == {<<"old">>, <<"new", "old">>, <<"weak", "old">>}

Promises == 1..3

=============================================================================
