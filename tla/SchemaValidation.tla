-------------------------- MODULE SchemaValidation ---------------------------
(***************************************************************************)
(* src/src/schema/validation.rs: the diagnostics of a value under a schema.*)
(*                                                                         *)
(* Results are sets of records [on, rule, severity]; `on` is the node whose*)
(* range the diagnostic covers.  The texts of messages are left out, and   *)
(* so is the regex cache, which only saves compiling a pattern twice.      *)
(***************************************************************************)
EXTENDS JsonSchemas

Err(v, rule)  == [on |-> v, rule |-> rule, severity |-> "error"]
Warn(v, rule) == [on |-> v, rule |-> rule, severity |-> "warning"]

\* An error unless the condition holds.
Check(condition, v, rule) == IF condition THEN {} ELSE {Err(v, rule)}

Matches(re, text) == Has(re, "matches") /\ text \in re.matches

-----------------------------------------------------------------------------
(* Types, enum and const.                                                  *)

NodeToSchemaType(v) ==
    CASE v.kind = "number" -> IF v.n % 2 = 0 THEN "integer" ELSE "number"
      [] v.kind \in {"true", "false"} -> "boolean"
      [] OTHER -> v.kind

\* An integer is accepted where a number is expected.
TypeListed(v, types) ==
    \/ NodeToSchemaType(v) \in types
    \/ NodeToSchemaType(v) = "integer" /\ "number" \in types

\* Mutant of TypeCouldMatch: an integer is no number for the fast path.
TypeCouldMatchExactly(v, s) ==
    Field(s, "type", {}) = {} \/ NodeToSchemaType(v) \in s.type

TypeCouldMatch(v, s) == Field(s, "type", {}) = {} \/ TypeListed(v, s.type)

RECURSIVE NodeMatchesJsonValue(_, _)

\* An integer of the schema is compared with integers only: 1.0 in the text
\* does not match 1 in the schema.
NodeMatchesJsonValue(v, e) ==
    /\ v.kind = e.kind
    /\ CASE v.kind = "string" -> v.text = e.text
         [] v.kind = "number" -> v.n = e.n /\ (e.form = "integer" => v.form = "integer")
         [] v.kind = "array"  ->
                /\ Len(v.items) = Len(e.items)
                /\ \A i \in DOMAIN v.items : NodeMatchesJsonValue(v.items[i], e.items[i])
         [] v.kind = "object" ->
                /\ Len(v.pairs) = Len(e.pairs)
                /\ \A i \in DOMAIN v.pairs : \E j \in DOMAIN e.pairs :
                      /\ v.pairs[i].key = e.pairs[j].key
                      /\ NodeMatchesJsonValue(v.pairs[i].value, e.pairs[j].value)
         [] OTHER -> TRUE

EnumErrors(v, s) ==
    Check(Field(s, "enum", {}) = {} \/ \E e \in s.enum : NodeMatchesJsonValue(v, e),
          v, "enum") \union
    Check(Has(s, "const") => NodeMatchesJsonValue(v, s.const), v, "const")

-----------------------------------------------------------------------------
(* Strings and numbers.                                                    *)

\* A pattern that does not compile is ignored; a format only warns.
ValidateString(v, s) ==
    Check(Has(s, "minLength") => Len(v.text) >= s.minLength, v, "minLength") \union
    Check(Has(s, "maxLength") => Len(v.text) <= s.maxLength, v, "maxLength") \union
    Check(Has(s, "pattern") /\ Has(s.pattern, "matches") => v.text \in s.pattern.matches,
          v, "pattern") \union
    (IF Has(s, "format") /\ v.text \notin s.format THEN {Warn(v, "format")} ELSE {})

\* The exclusive bounds of draft 4, [flag |-> b], and of draft 6 and later,
\* [limit |-> n].
Exclusive(s, keyword) == Has(s, keyword) /\ Has(s[keyword], "flag") /\ s[keyword].flag
Limit(s, keyword)     == Has(s, keyword) /\ Has(s[keyword], "limit")

ValidateNumber(v, s) ==
    Check(Has(s, "minimum") =>
            IF Exclusive(s, "exclusiveMinimum") THEN v.n > s.minimum ELSE v.n >= s.minimum,
          v, "minimum") \union
    Check(Has(s, "maximum") =>
            IF Exclusive(s, "exclusiveMaximum") THEN v.n < s.maximum ELSE v.n <= s.maximum,
          v, "maximum") \union
    Check(Limit(s, "exclusiveMinimum") => v.n > s.exclusiveMinimum.limit,
          v, "exclusiveMinimum") \union
    Check(Limit(s, "exclusiveMaximum") => v.n < s.exclusiveMaximum.limit,
          v, "exclusiveMaximum") \union
    Check(Has(s, "multipleOf") => s.multipleOf = 0 \/ v.n % s.multipleOf = 0,
          v, "multipleOf") \union
    Check("integer" \in Field(s, "type", {}) /\ "number" \notin s.type => v.n % 2 = 0,
          v, "integer")

-----------------------------------------------------------------------------
(* Which properties a schema knows.                                        *)

\* Where both searches look besides the schema itself.
SubSchemas(s) == LET subs == Composed(s) \o Branches(s) IN {subs[i] : i \in DOMAIN subs}

RECURSIVE SchemaKnowsProperty(_, _), SchemaHasKnownProperties(_)

\* Mutant of SchemaKnowsProperty: sub-schemas are forgotten.
SchemaKnowsShallowly(s, key) ==
    \/ key \in DOMAIN Field(s, "properties", DefaultSchema)
    \/ LET patterns == Field(s, "patternProperties", <<>>)
       IN  \E i \in DOMAIN patterns : Matches(patterns[i].re, key)
    \/ Has(s, "additionalProperties")

SchemaKnowsProperty(s, key) ==
    \/ key \in DOMAIN Field(s, "properties", DefaultSchema)
    \/ LET patterns == Field(s, "patternProperties", <<>>)
       IN  \E i \in DOMAIN patterns : Matches(patterns[i].re, key)
    \/ Has(s, "additionalProperties")
    \/ \E sub \in SubSchemas(s) : SchemaKnowsProperty(sub, key)

SchemaHasKnownProperties(s) ==
    \/ DOMAIN Field(s, "properties", DefaultSchema) # {}
    \/ Field(s, "patternProperties", <<>>) # <<>>
    \/ \E sub \in SubSchemas(s) : SchemaHasKnownProperties(sub)

-----------------------------------------------------------------------------
(* Objects, arrays, composition and conditions.  ValidateNode(v, s, chain)  *)
(* is validate_node: chain holds the references passed on the way from the  *)
(* root.                                                                    *)

RECURSIVE ValidateNode(_, _, _)

\* validate_object, the loop over the pairs: named and pattern properties, and
\* additionalProperties for a key that matched neither.
ValidatePair(pair, s, chain) ==
    LET named    == pair.key \in DOMAIN Field(s, "properties", DefaultSchema)
        patterns == Field(s, "patternProperties", <<>>)
        matching == {i \in DOMAIN patterns : Matches(patterns[i].re, pair.key)}
        others   == Field(s, "additionalProperties", [bool |-> TRUE])
    IN  UNION
          {IF Has(s, "propertyNames")
             THEN ValidateNode(Str(pair.key), s.propertyNames, chain) ELSE {},
           IF named THEN ValidateNode(pair.value, s.properties[pair.key], chain) ELSE {},
           UNION {ValidateNode(pair.value, patterns[i].schema, chain) : i \in matching},
           IF named \/ matching # {} THEN {}
             ELSE IF Has(others, "bool")
                  THEN Check(others.bool, Str(pair.key), "additionalProperties")
                  ELSE ValidateNode(pair.value, others, chain)}

\* The three forms of dependencies on the keys that are present.
ValidateDependencies(v, s, chain) ==
    LET triggered(keyword) ==
            {s[keyword][k] : k \in Keys(v) \intersect DOMAIN Field(s, keyword, DefaultSchema)}
        old == triggered("dependencies")
        names   == triggered("dependentRequired") \union
                      {d.names : d \in {d \in old : Has(d, "names")}}
        schemas == triggered("dependentSchemas") \union
                      {d.schema : d \in {d \in old : Has(d, "schema")}}
    IN  Check(UNION names \subseteq Keys(v), v, "dependencies") \union
        UNION {ValidateNode(v, sub, chain) : sub \in schemas}

UnknownWarnings(v, s) ==
    IF Has(s, "additionalProperties") \/ ~SchemaHasKnownProperties(s) THEN {}
    ELSE {Warn(Str(key), "unknown") : key \in {k \in Keys(v) : ~SchemaKnowsProperty(s, k)}}

ValidateObject(v, s, chain) ==
    Check(Has(s, "minProperties") => Len(v.pairs) >= s.minProperties, v, "minProperties") \union
    Check(Has(s, "maxProperties") => Len(v.pairs) <= s.maxProperties, v, "maxProperties") \union
    Check(Field(s, "required", {}) \subseteq Keys(v), v, "required") \union
    UNION {ValidatePair(v.pairs[i], s, chain) : i \in DOMAIN v.pairs} \union
    ValidateDependencies(v, s, chain) \union
    UnknownWarnings(v, s)

\* Mutant of ItemErrors: items begins over at the first element.
ItemErrorsFromFirst(v, s, chain) ==
    IF ~Has(s, "items") THEN {}
    ELSE IF Has(s.items, "bool")
         THEN UNION {Check(s.items.bool, v.items[i], "items") : i \in DOMAIN v.items}
         ELSE UNION {ValidateNode(v.items[i], s.items, chain) : i \in DOMAIN v.items}

\* prefixItems for the first elements, items for those beyond.
ItemErrors(v, s, chain) ==
    LET prefix == Field(s, "prefixItems", <<>>)
        beyond == {i \in DOMAIN v.items : i > Len(prefix)}
    IN  UNION {ValidateNode(v.items[i], prefix[i], chain) : i \in DOMAIN v.items \ beyond} \union
        IF ~Has(s, "items") THEN {}
        ELSE IF Has(s.items, "bool")
             THEN UNION {Check(s.items.bool, v.items[i], "items") : i \in beyond}
             ELSE UNION {ValidateNode(v.items[i], s.items, chain) : i \in beyond}

ContainsErrors(v, s, chain) ==
    LET count == Cardinality({i \in DOMAIN v.items :
                                ValidateNode(v.items[i], s.contains, chain) = {}})
    IN  IF ~Has(s, "contains") THEN {}
        ELSE Check(count >= Field(s, "minContains", 1), v, "minContains") \union
             Check(Has(s, "maxContains") => count <= s.maxContains, v, "maxContains")

\* uniqueItems compares the source text of the elements, so that two elements
\* that are equal but written differently count as different.
ValidateArray(v, s, chain) ==
    Check(Has(s, "minItems") => Len(v.items) >= s.minItems, v, "minItems") \union
    Check(Has(s, "maxItems") => Len(v.items) <= s.maxItems, v, "maxItems") \union
    (IF Field(s, "uniqueItems", FALSE)
     THEN {Err(v.items[i], "uniqueItems") :
              i \in {i \in DOMAIN v.items : \E j \in 1..(i - 1) : v.items[j] = v.items[i]}}
     ELSE {}) \union
    ItemErrors(v, s, chain) \union
    ContainsErrors(v, s, chain)

\* A trial validation succeeds when it reports nothing, not even a warning; the
\* fast path skips it when the type cannot match.
Trial(v, s, chain) == TypeCouldMatch(v, s) /\ ValidateNode(v, s, chain) = {}

ValidateComposition(v, s, chain) ==
    LET successes(keyword) == {i \in DOMAIN s[keyword] : Trial(v, s[keyword][i], chain)}
        all == Field(s, "allOf", <<>>)
    IN  UNION {ValidateNode(v, all[i], chain) : i \in DOMAIN all} \union
        Check(Field(s, "anyOf", <<>>) # <<>> => successes("anyOf") # {}, v, "anyOf") \union
        Check(Field(s, "oneOf", <<>>) # <<>> => Cardinality(successes("oneOf")) = 1,
              v, "oneOf") \union
        Check(Has(s, "not") => ValidateNode(v, s.not, chain) # {}, v, "not")

ValidateConditional(v, s, chain) ==
    IF ~Has(s, "if") THEN {}
    ELSE LET branch == IF ValidateNode(v, s["if"], chain) = {} THEN "then" ELSE "else"
         IN  IF Has(s, branch) THEN ValidateNode(v, s[branch], chain) ELSE {}

\* validate_node_inner: a value of the wrong type gets no further errors.
ValidateNodeInner(v, s, chain) ==
    (IF Field(s, "deprecated", FALSE) THEN {Warn(v, "deprecated")} ELSE {}) \union
    IF Field(s, "type", {}) # {} /\ ~TypeListed(v, s.type) THEN {Err(v, "type")}
    ELSE UNION {EnumErrors(v, s),
                CASE v.kind = "string" -> ValidateString(v, s)
                  [] v.kind = "number" -> ValidateNumber(v, s)
                  [] v.kind = "object" -> ValidateObject(v, s, chain)
                  [] v.kind = "array"  -> ValidateArray(v, s, chain)
                  [] OTHER -> {},
                ValidateComposition(v, s, chain),
                ValidateConditional(v, s, chain)}

\* Mutant of ValidateNode: any reference on the way stops the validation.
ValidateNodeOneRef(v, s, chain) ==
    IF ~Has(s, "ref") THEN ValidateNodeInner(v, s, chain)
    ELSE IF chain # {} THEN {}
    ELSE ValidateNodeInner(v, s, {s.ref})

\* A reference is never followed.  The schema that holds it is validated as if
\* it were not there, except that a reference met a second time ends the branch.
ValidateNode(v, s, chain) ==
    IF ~Has(s, "ref") THEN ValidateNodeInner(v, s, chain)
    ELSE IF s.ref \in chain THEN {}
    ELSE ValidateNodeInner(v, s, chain \union {s.ref})

Validate(v, s) == ValidateNode(v, s, {})

-----------------------------------------------------------------------------
(* The server validates a document whose text has no syntax diagnostics.    *)

CONSTANTS
    Sources,    \* schemas as JSON
    Values      \* root values of documents

VARIABLES
    source,     \* the schema of the document
    value,      \* its root value
    errors,     \* what validation reported
    done        \* validation has run

vars == <<source, value, errors, done>>

Init ==
    /\ source \in Sources
    /\ value \in Values
    /\ errors = {}
    /\ done = FALSE

Run ==
    /\ ~done
    /\ errors' = Validate(value, FromValue(source))
    /\ done' = TRUE
    /\ UNCHANGED <<source, value>>

\* The client edits the document.
Edit ==
    /\ done
    /\ value' \in Values
    /\ errors' = {}
    /\ done' = FALSE
    /\ UNCHANGED source

Next == Run \/ Edit

Spec == Init /\ [][Next]_vars
=============================================================================
