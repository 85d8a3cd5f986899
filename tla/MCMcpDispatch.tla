----------------------------- MODULE MCMcpDispatch -----------------------------
(* Instances of McpDispatch.  Three tokens: one for this resource with the  *)
(* scope of the guarded tool, one without it, one for another server with   *)
(* the wildcard scope.                                                      *)
EXTENDS McpDispatch, TLC

CONSTANTS good, poor, foreign, here, elsewhere, listed, other, read, guarded, open

MCAudience == (good :> here) @@ (poor :> here) @@ (foreign :> elsewhere)
MCGranted == (good :> {read}) @@ (poor :> {}) @@ (foreign :> {Wildcard})
MCToolScope == (guarded :> read) @@ (open :> NoScope)
MCMatching == {<<listed, listed>>}
DefaultPublicMethods == {"initialize", "ping", "notifications/x", "initialized"}

=============================================================================
