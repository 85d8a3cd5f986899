-------------------------------- MODULE MCCimd --------------------------------
(* Instances of Cimd.  Four URLs: two client_ids of one origin, a page of   *)
(* that origin, which need not be permitted (it may carry credentials), and *)
(* a client_id on a host of another origin, which may be a private name.    *)
EXTENDS Cimd, TLC

CONSTANTS id1, id2, page, away, site, abroad

MCOriginOf == (id1 :> site) @@ (id2 :> site) @@ (page :> site) @@ (away :> abroad)

=============================================================================
