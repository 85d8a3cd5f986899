---------------------------- MODULE ToolRegistry ----------------------------
(***************************************************************************)
(* The calls of a registry, with the schema subset of the repository for   *)
(* the checks at construction and of the arguments: Accepts is             *)
(* ConstructionAccepts, and ErrorsOf is Validate.                          *)
(***************************************************************************)
EXTENDS ToolCall, ToolSchema

(***************************************************************************)
(* A tool runs only on arguments its inputSchema admits, in the full       *)
(* meaning of JSON Schema, for every schema that the registry accepts:     *)
(* what is advertised is enforced, or refused at construction              *)
(* (registry.ts, validate.ts).  A refused call is told of real violations, *)
(* as many as there are up to the limit, and told when there may be more.  *)
(***************************************************************************)
SchemaIsEnforced ==
  \A c \in Call, args \in tool.inputs :
    call[c].args = {args} =>
      LET violations == Violations(args, tool.schema, <<>>)
          errors == call[c].errors
      IN /\ call[c].result # "invalid arguments" => violations = {}
         /\ Range(errors) \subseteq violations
         /\ Len(errors) = Min({MaxErrors, Cardinality(violations)})
         /\ Range(errors) # violations => Truncated(errors)

=============================================================================
