---------------------------- MODULE MCNodeHandler ----------------------------
(* Instance of NodeHandler: two chunks at /oauth would be one too many.     *)
EXTENDS NodeHandler, TLC

MCLimit == ("oauth" :> 1) @@ ("mcp" :> 2)

=============================================================================
