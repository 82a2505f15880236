--------------------------- MODULE CompletionItems ---------------------------
(***************************************************************************)
(* What completion offers once it knows where the cursor is: the names and *)
(* values of src/src/completion.rs, for a schema and the keys or items that*)
(* are there already; and the schema that hover describes.                 *)
(*                                                                         *)
(* An item is the name or the JSON value it inserts; icons, documentation, *)
(* order and the snippets that a schema spells out are left out.           *)
(***************************************************************************)
EXTENDS JsonSchemas, SequencesExt

\* resolve_schema_for_node: what no schema describes has the empty schema.
ResolveSchemaForNode(s, path) ==
    LET Step(current, seg) ==
            IF ResolvePathSegment(current, seg) = None THEN DefaultSchema
            ELSE ResolvePathSegment(current, seg)
    IN  FoldLeft(Step, s, path)

\* resolve_schema_with_path of hover: what no schema describes has none.
ResolveSchemaWithPath(s, path) ==
    LET Step(current, seg) == IF current = None THEN None ELSE ResolvePathSegment(current, seg)
    IN  FoldLeft(Step, s, path)

RECURSIVE OfferedNames(_, _)

\* complete_property_names: of the schema and of all it is composed of, whether or
\* not a condition holds.
OfferedNames(s, existing) ==
    LET properties == Field(s, "properties", DefaultSchema)
        subs       == Composed(s) \o Branches(s)
    IN  {key \in DOMAIN properties \ existing : ~Field(properties[key], "doNotSuggest", FALSE)}
        \union UNION {OfferedNames(subs[i], existing) : i \in DOMAIN subs}

Fixed(s, keyword) == IF Has(s, keyword) THEN {s[keyword]} ELSE {}

\* The words of the types boolean and null.
Words(s) ==
    (IF "boolean" \in Field(s, "type", {}) THEN {Word("true"), Word("false")} ELSE {}) \union
    (IF "null" \in Field(s, "type", {}) THEN {Word("null")} ELSE {})

\* Mutant of OfferedValues: words are offered beside an enum.
OfferedDespiteEnum(s) ==
    UNION {Field(s, "enum", {}), Fixed(s, "const"), Fixed(s, "default"), Words(s)}

\* complete_value: an enum says which words are meant, a const does not.
OfferedValues(s) ==
    UNION {Field(s, "enum", {}), Fixed(s, "const"), Fixed(s, "default"),
           IF Field(s, "enum", {}) = {} THEN Words(s) ELSE {}}

\* The values for a key: only the properties of the schema itself count.
ValuesFor(s, key) ==
    LET properties == Field(s, "properties", DefaultSchema)
    IN  IF key \in DOMAIN properties THEN OfferedValues(properties[key]) ELSE {}

\* array_item_schema: for the element after `before` others.
ArrayItemSchema(s, before) ==
    CASE before < Len(Field(s, "prefixItems", <<>>)) -> s.prefixItems[before + 1]
      [] before >= Len(Field(s, "prefixItems", <<>>))
            /\ Has(s, "items") /\ ~Has(s.items, "bool") -> s.items
      [] OTHER -> None

ItemOffers(s, before) ==
    LET item == ArrayItemSchema(s, before)
    IN  IF item = None THEN {} ELSE OfferedValues(item)

Placeholder(type) ==
    CASE type = "string" -> Str("")
      [] type \in {"number", "integer"} -> Integer(0)
      [] type = "boolean" -> Word("false")
      [] type = "null"    -> Word("null")
      [] type = "array"   -> Arr(<<>>)
      [] type = "object"  -> Obj(<<>>)

\* default_value_snippet: the value that comes with the name of a property.  The
\* first of several types is any of them; without a type there is no value.
Snippets(s) ==
    CASE Has(s, "const") -> {s.const}
      [] ~Has(s, "const") /\ Cardinality(Field(s, "enum", {})) = 1 -> s.enum
      [] ~Has(s, "const") /\ Cardinality(Field(s, "enum", {})) # 1 ->
            IF Has(s, "default") THEN {s.default}
            ELSE {Placeholder(type) : type \in Field(s, "type", {})}
=============================================================================
