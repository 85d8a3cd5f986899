------------------------------ MODULE ToolSchema ------------------------------
(***************************************************************************)
(* The JSON Schema subset that tool arguments are validated against, and   *)
(* the checks of an inputSchema when a registry is built.                  *)
(*                                                                         *)
(* A JSON value is a record [is, v]: its runtime type, and the truth       *)
(* value, number, text, sequence of elements or function from keys it      *)
(* holds.  A number is a record [n, whole]; arithmetic needs no more.  A   *)
(* schema is a function from the keywords it uses; a type or a union of    *)
(* types is a set of names, additionalProperties a record [form] with the  *)
(* Boolean (allows) or the schema it holds.                                *)
(***************************************************************************)
EXTENDS Integers, SequencesExt

CONSTANT MaxErrors    \* MAX_VALIDATION_ERRORS

ASSUME ToolSchemaAssumption == MaxErrors \in Nat \ {0}

Has(schema, keyword) == keyword \in DOMAIN schema

Supported == {"type", "enum", "required", "properties", "items",
              "minimum", "maximum", "additionalProperties"}

Ignored == {"description", "format"}

DeclaredTypes(schema) == IF Has(schema, "type") THEN schema["type"] ELSE {}

\* Direct subschemas, each with the step that leads to it.
ChildSchemas(schema) ==
  (IF Has(schema, "properties")
   THEN {<<k, schema["properties"][k]>> : k \in DOMAIN schema["properties"]} ELSE {})
  \cup (IF Has(schema, "items") THEN {<<"items", schema["items"]>>} ELSE {})

-----------------------------------------------------------------------------
(* Construction: assertToolSchemasValid.                                   *)

\* Fault: a keyword is supported whatever its value.
IsSupportedByName(schema, keyword) == keyword \in Supported \cup Ignored

\* A keyword that is evaluated, in a form that is evaluated, or mere annotation.
IsSupported(schema, keyword) ==
  /\ keyword \in Supported \cup Ignored
  /\ keyword = "additionalProperties" => schema[keyword].form = "boolean"

RECURSIVE UnsupportedKeywords(_, _)
UnsupportedKeywords(schema, path) ==
  {<<path, keyword>> : keyword \in {k \in DOMAIN schema : ~IsSupported(schema, k)}}
  \cup UNION {UnsupportedKeywords(child[2], Append(path, child[1])) :
                child \in ChildSchemas(schema)}

RECURSIVE MissingObjectType(_, _)
MissingObjectType(schema, path) ==
  (IF /\ Has(schema, "properties") \/ Has(schema, "required")
      /\ "object" \notin DeclaredTypes(schema)
   THEN {path} ELSE {})
  \cup UNION {MissingObjectType(child[2], Append(path, child[1])) :
                child \in ChildSchemas(schema)}

ConstructionAccepts(schema) ==
  UnsupportedKeywords(schema, <<>>) = {} /\ MissingObjectType(schema, <<>>) = {}

-----------------------------------------------------------------------------
(* Validation.  errors is the list so far, in the order of the walk; the   *)
(* budget is what it lacks to MaxErrors.                                   *)

Spent(errors) == Len(errors) >= MaxErrors

\* Fault: what is collected at one node is not cut to the budget.
SpendAll(errors, more) == errors \o more

Spend(errors, more) == SubSeq(errors \o more, 1, Min({MaxErrors, Len(errors) + Len(more)}))

RECURSIVE SameJson(_, _)
SameJson(a, b) ==
  /\ a.is = b.is
  /\ CASE a.is = "array" ->
            Len(a.v) = Len(b.v) /\ \A i \in 1..Len(a.v) : SameJson(a.v[i], b.v[i])
       [] a.is = "object" ->
            /\ Cardinality(DOMAIN a.v) = Cardinality(DOMAIN b.v)
            /\ \A k \in DOMAIN a.v : k \in DOMAIN b.v /\ SameJson(a.v[k], b.v[k])
       [] OTHER -> a.v = b.v

\* Fault: an integer is any number.
MatchesDeclaredLoosely(value, type) ==
  value.is = IF type = "integer" THEN "number" ELSE type

MatchesDeclared(value, type) ==
  IF type = "integer" THEN value.is = "number" /\ value.v.whole ELSE value.is = type

TypeMatches(value, schema) ==
  \/ DeclaredTypes(schema) = {}
  \/ \E type \in DeclaredTypes(schema) : MatchesDeclared(value, type)

\* The errors of those keys of a set for which Fails holds, in some fixed order.
KeyErrors(keys, path, kind) ==
  LET order == SetToSeq(keys) IN [i \in DOMAIN order |-> <<Append(path, order[i]), kind>>]

OneIf(fails, path, kind) == IF fails THEN << <<path, kind>> >> ELSE <<>>

EnumErrors(value, schema, path) ==
  OneIf(Has(schema, "enum") /\ ~\E entry \in schema["enum"] : SameJson(entry, value),
        path, "enum")

RangeErrors(value, schema, path) ==
  OneIf(Has(schema, "minimum") /\ value.v.n < schema["minimum"], path, "minimum")
  \o OneIf(Has(schema, "maximum") /\ value.v.n > schema["maximum"], path, "maximum")

Properties(schema) ==
  IF Has(schema, "properties") THEN schema["properties"] ELSE [k \in {} |-> {}]

Required(schema) == IF Has(schema, "required") THEN schema["required"] ELSE {}

\* Fault: key in record, which is true of what every object inherits.
OwnOrInherited(value) == DOMAIN value.v \cup {"constructor"}

\* Object.hasOwn
OwnKeys(value) == DOMAIN value.v

\* The keys that additionalProperties: false refuses.
NotAllowed(value, schema) ==
  LET additional == schema["additionalProperties"]
  IN IF Has(schema, "additionalProperties") /\ additional.form = "boolean" /\ ~additional.allows
     THEN DOMAIN value.v \ DOMAIN Properties(schema) ELSE {}

RECURSIVE ValidateNode(_, _, _, _)

ObjectErrors(errors, value, schema, path) ==
  LET missing  == Spend(errors, KeyErrors(Required(schema) \ OwnKeys(value), path, "required"))
      present  == SetToSeq(DOMAIN Properties(schema) \cap OwnKeys(value))
      Visit(e, k) == IF Spent(e) THEN e
                     ELSE ValidateNode(e, value.v[k], Properties(schema)[k], Append(path, k))
      visited  == FoldLeft(Visit, missing, present)
  IN Spend(visited, KeyErrors(NotAllowed(value, schema), path, "not allowed"))

ArrayErrors(errors, value, schema, path) ==
  LET Visit(e, i) == IF Spent(e) THEN e
                     ELSE ValidateNode(e, value.v[i], schema["items"], Append(path, ToString(i)))
  IN IF Has(schema, "items")
     THEN FoldLeft(Visit, errors, [i \in 1..Len(value.v) |-> i]) ELSE errors

\* A value of the wrong type is one error and not looked into; the checker is
\* chosen by the type of the value, not by the declared one.
ValidateNode(errors, value, schema, path) ==
  IF ~TypeMatches(value, schema) THEN Spend(errors, << <<path, "type">> >>)
  ELSE LET listed == Spend(errors, EnumErrors(value, schema, path))
       IN CASE value.is = "object" -> ObjectErrors(listed, value, schema, path)
            [] value.is = "array"  -> ArrayErrors(listed, value, schema, path)
            [] value.is = "number" -> Spend(listed, RangeErrors(value, schema, path))
            [] OTHER               -> listed

Validate(value, schema) == ValidateNode(<<>>, value, schema, <<>>)

\* The note "stopped after n errors; more may follow".
Truncated(errors) == Spent(errors)

-----------------------------------------------------------------------------
(***************************************************************************)
(* The reference: the violations of a schema as JSON Schema defines them,  *)
(* with no budget and no order, and of keywords the validator does not     *)
(* know too: "pattern" (texts that do not match it) and a schema for       *)
(* additional properties.                                                  *)
(***************************************************************************)
TypesOf(value) ==
  {value.is} \cup {type \in {"integer"} : value.is = "number" /\ value.v.whole}

\* An empty union of types, which JSON Schema has no meaning for, asks nothing.
HasAskedType(value, schema) ==
  ~Has(schema, "type") \/ schema["type"] = {} \/ TypesOf(value) \cap schema["type"] # {}

RECURSIVE Violations(_, _, _)
Violations(value, schema, path) ==
  LET Violates(kind, p) == {<<p, kind>>}
      Asked(keyword, is) == Has(schema, keyword) /\ value.is = is
  IN IF ~HasAskedType(value, schema) THEN Violates("type", path)
     ELSE UNION {
       IF Has(schema, "enum") /\ ~\E e \in schema["enum"] : e.is = value.is /\ e = value
         THEN Violates("enum", path) ELSE {},
       IF Asked("minimum", "number") /\ value.v.n < schema["minimum"]
         THEN Violates("minimum", path) ELSE {},
       IF Asked("maximum", "number") /\ value.v.n > schema["maximum"]
         THEN Violates("maximum", path) ELSE {},
       IF Asked("pattern", "string") /\ value.v \in schema["pattern"]
         THEN Violates("pattern", path) ELSE {},
       IF Asked("items", "array")
         THEN UNION {Violations(value.v[i], schema["items"], Append(path, ToString(i))) :
                       i \in DOMAIN value.v} ELSE {},
       IF Asked("required", "object")
         THEN UNION {Violates("required", Append(path, k)) :
                       k \in schema["required"] \ DOMAIN value.v} ELSE {},
       IF Asked("properties", "object")
         THEN UNION {Violations(value.v[k], schema["properties"][k], Append(path, k)) :
                       k \in DOMAIN schema["properties"] \cap DOMAIN value.v} ELSE {},
       IF Asked("additionalProperties", "object")
         THEN LET additional == schema["additionalProperties"]
                  Each(k) ==
                    IF additional.form = "schema"
                    THEN Violations(value.v[k], additional.schema, Append(path, k))
                    ELSE IF additional.allows THEN {} ELSE Violates("not allowed", Append(path, k))
              IN UNION {Each(k) : k \in DOMAIN value.v \ DOMAIN Properties(schema)} ELSE {}}

=============================================================================
