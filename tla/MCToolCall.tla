------------------------------ MODULE MCToolCall ------------------------------
(***************************************************************************)
(* Plain tools over schemas of every keyword, nested, and arguments around *)
(* them; and one apiTool for each combination of its options.              *)
(***************************************************************************)
EXTENDS ToolRegistry

Text(s) == [is |-> "string", v |-> s]
Num(n) == [is |-> "number", v |-> [n |-> n, whole |-> TRUE]]
Half(n) == [is |-> "number", v |-> [n |-> n, whole |-> FALSE]]
Null == [is |-> "null", v |-> 0]
Flag == [is |-> "boolean", v |-> TRUE]
Arr(s) == [is |-> "array", v |-> s]
Obj(f) == [is |-> "object", v |-> f]

None == Obj([k \in {} |-> Null])

Atoms == {Text("x"), Text("y"), Num(0), Num(2), Half(1), Null}

\* Arguments: one key a, two keys, and one level of nesting.
Inputs ==
  {None, Obj("b" :> Flag), Obj("constructor" :> Num(1))}
  \cup {Obj("a" :> x) : x \in Atoms}
  \cup {Obj("a" :> x @@ "b" :> y) : x \in {Text("x"), Num(2)}, y \in {Num(3), Null}}
  \cup {Obj("a" :> Arr(s)) :
          s \in {<<>>, <<Num(1)>>, <<Text("x"), Num(2)>>, <<Null, Num(2), Flag>>}}
  \cup {Obj("a" :> o) : o \in {None, Obj("b" :> Num(1)), Obj("b" :> Text("x") @@ "c" :> Null)}}

Type(t) == "type" :> t

\* Schemas of one value, then schemas of the arguments with such a one for a.
Leaves == {
  [k \in {} |-> {}],
  Type({"string"}), Type({"integer"}), Type({"number", "null"}), Type({}),
  "enum" :> {Text("x"), Num(2)}, "enum" :> {Arr(<<Num(1)>>), Obj("b" :> Num(1))},
  Type({"number"}) @@ "minimum" :> 1, "maximum" :> 1 @@ "minimum" :> 2,
  Type({"string"}) @@ "pattern" :> {"x"}, Type({"string"}) @@ "format" :> "date",
  Type({"array"}) @@ "items" :> Type({"number"}),
  "items" :> (Type({"integer"}) @@ "maximum" :> 1),
  Type({"array"}) @@ "items" :> ("pattern" :> {"x"}),
  Type({"object", "null"}) @@ "required" :> {"b", "c"},
  "required" :> {"b"},
  Type({"object"}) @@ "properties" :> ("b" :> Type({"integer"}) @@ "c" :> Type({"string"}))
    @@ "additionalProperties" :> [form |-> "boolean", allows |-> FALSE]}

Base == Type({"object"})

Schemas ==
  {Base @@ "properties" :> ("a" :> leaf) : leaf \in Leaves}
  \cup {Base @@ "required" :> {"a", "b", "constructor"},
        Base @@ "required" :> {"a"}
          @@ "properties" :> ("b" :> Type({"integer"}) @@ "a" :> Type({"string"}))
          @@ "additionalProperties" :> [form |-> "boolean", allows |-> FALSE],
        Base @@ "additionalProperties" :> [form |-> "boolean", allows |-> FALSE],
        Base @@ "additionalProperties" :> [form |-> "boolean", allows |-> TRUE],
        Base @@ "additionalProperties" :> [form |-> "schema", schema |-> Type({"string"})],
        "properties" :> ("a" :> Type({"string"}))}

PlainTools ==
  {[schema |-> s, inputs |-> Inputs, parsed |-> FALSE, api |-> FALSE, timed |-> FALSE,
    native |-> FALSE] : s \in Schemas}

ApiTools ==
  {[schema |-> Base, inputs |-> {None}, parsed |-> FALSE, api |-> TRUE, timed |-> timed,
    native |-> native] : timed, native \in BOOLEAN}

ParsedTool ==
  [schema |-> Base, inputs |-> {None}, parsed |-> TRUE, api |-> TRUE, timed |-> TRUE,
   native |-> FALSE]

Tools == PlainTools \cup ApiTools \cup {ParsedTool}

=============================================================================
