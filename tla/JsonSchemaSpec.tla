--------------------------- MODULE JsonSchemaSpec ----------------------------
(***************************************************************************)
(* What JSON Schema says a value must be like, for the drafts the README   *)
(* of the server lists: the reference SchemaValidation is compared with.   *)
(* It is stated about schemas as they are written, before they are parsed, *)
(* and knows neither trial validations nor warnings nor their order.       *)
(***************************************************************************)
EXTENDS JsonSchemas

\* Equality of JSON values: numbers by value, objects regardless of order.
RECURSIVE SameJson(_, _)
SameJson(v, w) ==
    /\ v.kind = w.kind
    /\ v.kind = "string" => v.text = w.text
    /\ v.kind = "number" => v.n = w.n
    /\ v.kind = "array" =>
          /\ Len(v.items) = Len(w.items)
          /\ \A i \in DOMAIN v.items : SameJson(v.items[i], w.items[i])
    /\ v.kind = "object" =>
          /\ Keys(v) = Keys(w)
          /\ \A i \in DOMAIN v.pairs, j \in DOMAIN w.pairs :
                v.pairs[i].key = w.pairs[j].key => SameJson(v.pairs[i].value, w.pairs[j].value)

\* The types a value has.
TypesOf(v) ==
    CASE v.kind = "number" -> {"number"} \union (IF v.n % 2 = 0 THEN {"integer"} ELSE {})
      [] v.kind \in {"true", "false"} -> {"boolean"}
      [] OTHER -> {v.kind}

\* An assertion about one kind of value holds of all others.
NumberOK(v, s) ==
    /\ Has(s, "minimum") => v.n >= s.minimum
    /\ Has(s, "maximum") => v.n <= s.maximum
    /\ Has(s, "multipleOf") => \E k \in -8..8 : v.n = k * s.multipleOf
    /\ Has(s, "exclusiveMinimum") =>
          IF Has(s.exclusiveMinimum, "limit") THEN v.n > s.exclusiveMinimum.limit
          ELSE s.exclusiveMinimum.flag /\ Has(s, "minimum") => v.n # s.minimum
    /\ Has(s, "exclusiveMaximum") =>
          IF Has(s.exclusiveMaximum, "limit") THEN v.n < s.exclusiveMaximum.limit
          ELSE s.exclusiveMaximum.flag /\ Has(s, "maximum") => v.n # s.maximum

StringOK(v, s) ==
    /\ Has(s, "minLength") => Len(v.text) >= s.minLength
    /\ Has(s, "maxLength") => Len(v.text) <= s.maxLength
    /\ Has(s, "pattern") /\ Has(s.pattern, "matches") => v.text \in s.pattern.matches

\* Conforms(v, s, defs): v is valid under s, whose root defines defs.
RECURSIVE Conforms(_, _, _)

ArrayOK(v, s, defs) ==
    LET n      == Len(v.items)
        \* Before 2020-12 the schemas of a tuple are an array under items and
        \* those beyond it are under additionalItems.
        tuple  == Has(s, "items") /\ Has(s.items, "array")
        prefix == IF tuple THEN s.items.array ELSE Field(s, "prefixItems", <<>>)
        rest   == IF tuple THEN Field(s, "additionalItems", [bool |-> TRUE])
                  ELSE Field(s, "items", [bool |-> TRUE])
        hits   == {i \in 1..n : Has(s, "contains") /\ Conforms(v.items[i], s.contains, defs)}
    IN  /\ Has(s, "minItems") => n >= s.minItems
        /\ Has(s, "maxItems") => n <= s.maxItems
        /\ Has(s, "uniqueItems") /\ s.uniqueItems =>
              \A i, j \in 1..n : SameJson(v.items[i], v.items[j]) => i = j
        /\ \A i \in 1..n :
              Conforms(v.items[i], IF i <= Len(prefix) THEN prefix[i] ELSE rest, defs)
        /\ Has(s, "contains") =>
              /\ Cardinality(hits) >= Field(s, "minContains", 1)
              /\ Has(s, "maxContains") => Cardinality(hits) <= s.maxContains

\* The schemas the value of a key must conform to.
SchemasOfKey(s, key) ==
    LET patterns == Field(s, "patternProperties", <<>>)
        declared ==
            {s.properties[k] : k \in {key} \intersect DOMAIN Field(s, "properties", DefaultSchema)}
              \union {patterns[i].schema :
                        i \in {i \in DOMAIN patterns :
                                  Has(patterns[i].re, "matches")
                                     /\ key \in patterns[i].re.matches}}
    IN  IF declared # {} THEN declared
        ELSE {Field(s, "additionalProperties", [bool |-> TRUE])}

ObjectOK(v, s, defs) ==
    LET present(keyword) == Keys(v) \intersect DOMAIN Field(s, keyword, DefaultSchema)
    IN  /\ Has(s, "minProperties") => Cardinality(Keys(v)) >= s.minProperties
        /\ Has(s, "maxProperties") => Cardinality(Keys(v)) <= s.maxProperties
        /\ Has(s, "required") => s.required \subseteq Keys(v)
        /\ \A i \in DOMAIN v.pairs :
              /\ \A sub \in SchemasOfKey(s, v.pairs[i].key) : Conforms(v.pairs[i].value, sub, defs)
              /\ Has(s, "propertyNames") => Conforms(Str(v.pairs[i].key), s.propertyNames, defs)
        /\ \A k \in present("dependentRequired") : s.dependentRequired[k] \subseteq Keys(v)
        /\ \A k \in present("dependentSchemas") : Conforms(v, s.dependentSchemas[k], defs)
        /\ \A k \in present("dependencies") :
              IF Has(s.dependencies[k], "names") THEN s.dependencies[k].names \subseteq Keys(v)
              ELSE Conforms(v, s.dependencies[k].schema, defs)

CompositionOK(v, s, defs) ==
    /\ Has(s, "allOf") => \A i \in DOMAIN s.allOf : Conforms(v, s.allOf[i], defs)
    /\ Has(s, "anyOf") => \E i \in DOMAIN s.anyOf : Conforms(v, s.anyOf[i], defs)
    /\ Has(s, "oneOf") =>
          \E i \in DOMAIN s.oneOf : \A j \in DOMAIN s.oneOf :
             Conforms(v, s.oneOf[j], defs) <=> j = i
    /\ Has(s, "not") => ~Conforms(v, s.not, defs)
    /\ Has(s, "if") =>
          /\ Conforms(v, s["if"], defs) /\ Has(s, "then") => Conforms(v, s.then, defs)
          /\ ~Conforms(v, s["if"], defs) /\ Has(s, "else") => Conforms(v, s.else, defs)

Conforms(v, s, defs) ==
    IF Has(s, "bool") THEN s.bool
    ELSE /\ Has(s, "ref") => Conforms(v, defs[s.ref], defs)
         /\ Has(s, "type") => s.type \intersect TypesOf(v) # {}
         /\ Has(s, "enum") => \E e \in s.enum : SameJson(v, e)
         /\ Has(s, "const") => SameJson(v, s.const)
         /\ v.kind = "string" => StringOK(v, s)
         /\ v.kind = "number" => NumberOK(v, s)
         /\ v.kind = "array"  => ArrayOK(v, s, defs)
         /\ v.kind = "object" => ObjectOK(v, s, defs)
         /\ CompositionOK(v, s, defs)
=============================================================================
