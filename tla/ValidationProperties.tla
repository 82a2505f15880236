------------------------ MODULE ValidationProperties -------------------------
(***************************************************************************)
(* What a user may expect of schema validation, stated over the state of   *)
(* SchemaValidation and the reference JsonSchemaSpec.                      *)
(***************************************************************************)
EXTENDS SchemaValidation, JsonSchemaSpec, CompletionItems

RECURSIVE AllSchemas(_)

\* The schemas directly inside a schema.
Inside(json) ==
    LET one  == {"items", "additionalItems", "additionalProperties", "propertyNames",
                 "contains", "not", "if", "then", "else"}
        many == {"array", "prefixItems", "allOf", "anyOf", "oneOf", "properties",
                 "dependentSchemas", "definitions"}
        patterns == Field(json, "patternProperties", <<>>)
        deps == Field(json, "dependencies", DefaultSchema)
    IN  {json[k] : k \in one \intersect DOMAIN json} \union
        UNION {{json[k][i] : i \in DOMAIN json[k]} : k \in many \intersect DOMAIN json} \union
        {patterns[i].schema : i \in DOMAIN patterns} \union
        {deps[k].schema : k \in {k \in DOMAIN deps : Has(deps[k], "schema")}}

\* A schema and all schemas inside it.
AllSchemas(json) == {json} \union UNION {AllSchemas(j) : j \in Inside(json)}

\* The schemas whose validation is only tried.
Tried(json) ==
    {json[k] : k \in {"not", "if", "contains"} \intersect DOMAIN json} \union
    UNION {{json[k][i] : i \in DOMAIN json[k]} : k \in {"anyOf", "oneOf"} \intersect DOMAIN json}

\* Validation under this schema may report a warning.
MayWarn(json) ==
    \E j \in AllSchemas(json) :
        \/ Has(j, "deprecated") \/ Has(j, "format")
        \/ ~Has(j, "additionalProperties") /\ SchemaHasKnownProperties(FromValue(j))

QuietTrials(json) == \A j \in AllSchemas(json) : \A t \in Tried(j) : ~MayWarn(t)

Uses(json, keyword) == \E j \in AllSchemas(json) : Has(j, keyword)

RECURSIVE PlainNumbers(_)

\* Every integer of the text is written as one.
PlainNumbers(v) ==
    CASE v.kind = "number" -> v.n % 2 = 0 => v.form = "integer"
      [] v.kind = "array"  -> \A i \in DOMAIN v.items : PlainNumbers(v.items[i])
      [] v.kind = "object" -> \A i \in DOMAIN v.pairs : PlainNumbers(v.pairs[i].value)
      [] OTHER -> TRUE

RECURSIVE RepeatsAlike(_)

\* Equal elements of an array are written alike.
RepeatsAlike(v) ==
    CASE v.kind = "array"  ->
            /\ \A i, j \in DOMAIN v.items :
                  SameJson(v.items[i], v.items[j]) => v.items[i] = v.items[j]
            /\ \A i \in DOMAIN v.items : RepeatsAlike(v.items[i])
      [] v.kind = "object" -> \A i \in DOMAIN v.pairs : RepeatsAlike(v.pairs[i].value)
      [] OTHER -> TRUE

Defs == Field(source, "definitions", DefaultSchema)

Valid == Conforms(value, source, Defs)

HasErrors == \E e \in errors : e.severity = "error"

-----------------------------------------------------------------------------
\* An error is reported exactly for the values JSON Schema rejects: through
\* early return, fast path, short circuits and nested trials validate_node comes
\* to the verdict of the standard.  Left out are five deviations the code has: a
\* warning in a trial, references, tuples under items, 1.0 written for 1, and
\* equal elements under uniqueItems that are not written alike.
AgreesWithJsonSchema ==
    done /\ QuietTrials(source) /\ PlainNumbers(value)
         /\ ~Uses(source, "ref") /\ ~Uses(source, "array")
         /\ (Uses(source, "uniqueItems") => RepeatsAlike(value)) =>
       (HasErrors <=> ~Valid)

RECURSIVE NoNestedRefs(_, _)

\* No reference of json repeats one of those above it.
NoNestedRefs(json, above) ==
    /\ Has(json, "ref") => json.ref \notin above
    /\ \A j \in Inside(json) :
          NoNestedRefs(j, IF Has(json, "ref") THEN above \union {json.ref} ELSE above)

RECURSIVE WithoutRefs(_)
WithoutRefs(s) ==
    [k \in DOMAIN s \ {"ref"} |->
        CASE k \in {"not", "if", "then", "else"} -> WithoutRefs(s[k])
          [] k \in {"allOf", "anyOf", "oneOf", "properties"} ->
                [i \in DOMAIN s[k] |-> WithoutRefs(s[k][i])]
          [] OTHER -> s[k]]

\* README: circular references are detected "per chain", "cloned at branch points
\* to avoid false positives": what stands beside a reference is validated in every
\* branch, however many branches hold the same reference.
BranchesDoNotInterfere ==
    done /\ NoNestedRefs(source, {}) =>
        errors = Validate(value, WithoutRefs(FromValue(source)))

\* Where resolve_path_segment finds a schema for a property, so that completion
\* and hover describe it, validation of the same object does not call the
\* property unknown: the two searches of the sub-schemas agree.
ResolvedIsKnown ==
    done /\ value.kind = "object" =>
        \A key \in Keys(value) :
            ResolvePathSegment(FromValue(source), key) # None =>
                SchemaKnowsProperty(FromValue(source), key)

-----------------------------------------------------------------------------
(* Completion and validation.                                              *)

Segments(v) == IF v.kind = "object" THEN Keys(v) ELSE {"0", "1"}

\* The value of a key or the element at an index, or none.
Step(v, seg) ==
    CASE v.kind = "object" -> {p.value : p \in {p \in ToSet(v.pairs) : p.key = seg}}
      [] v.kind = "array"  -> {v.items[i] : i \in {AsIndex(seg)} \intersect DOMAIN v.items}

RECURSIVE Containers(_), Extended(_, _, _, _)

\* The paths of the objects and arrays of a value.
Containers(v) ==
    IF v.kind \notin {"object", "array"} THEN {}
    ELSE {<<>>} \union
         UNION {{<<seg>> \o path : path \in UNION {Containers(w) : w \in Step(v, seg)}} :
                    seg \in Segments(v)}

Descend(v, path) == FoldLeft(LAMBDA w, seg : CHOOSE x \in Step(w, seg) : TRUE, v, path)

\* The value with a pair or an element more in the container at the path.
Extended(v, path, key, new) ==
    CASE path = <<>> /\ v.kind = "object" ->
            [v EXCEPT !.pairs = Append(@, Pair(key, new))]
      [] path = <<>> /\ v.kind = "array"  -> [v EXCEPT !.items = Append(@, new)]
      [] path # <<>> /\ v.kind = "object" ->
            [v EXCEPT !.pairs =
                [i \in DOMAIN @ |->
                    IF @[i].key = path[1]
                    THEN Pair(path[1], Extended(@[i].value, Tail(path), key, new))
                    ELSE @[i]]]
      [] path # <<>> /\ v.kind = "array"  ->
            [v EXCEPT !.items =
                [i \in DOMAIN @ |->
                    IF i = AsIndex(path[1]) THEN Extended(@[i], Tail(path), key, new)
                    ELSE @[i]]]

\* Every value has one schema.
Direct(json) ==
    \A keyword \in {"allOf", "anyOf", "oneOf", "not", "if", "then", "else", "contains",
                    "patternProperties", "propertyNames", "dependencies", "dependentSchemas"} :
        ~Uses(json, keyword)

\* Validation says nothing of these rules about a value inserted there.
Accepted(path, key, new, rules) ==
    \A e \in Validate(Extended(value, path, key, new), FromValue(source)) :
        e.on = new /\ e.rule \in rules => e \in errors

ValueRules == {"type", "enum", "const"}

\* A constant beside type boolean or null, where completion offers all the words.
ConstOfWords(s) == Has(s, "const") /\ Words(s) # {}

\* Completion and validation agree, at any depth of the document.  A name that is
\* offered is not there yet, validation knows it there, and hover and completion find
\* its schema; what hover describes is what completion offers from.  Where every value
\* has one schema, validation of the document finds the offered values, of a key and of
\* the next element, right in type, enum and const, and what comes with a name right in
\* type.
OffersAccepted ==
    done =>
        \A path \in Containers(value) :
            LET node  == Descend(value, path)
                s     == ResolveSchemaForNode(FromValue(source), path)
                props == Field(s, "properties", DefaultSchema)
                next  == IF node.kind = "array" THEN ArrayItemSchema(s, Len(node.items)) ELSE None
            IN  /\ ResolveSchemaWithPath(FromValue(source), path) \in {None, s}
                /\ node.kind = "object" =>
                    \A key \in OfferedNames(s, Keys(node)) :
                        /\ key \notin Keys(node) /\ SchemaKnowsProperty(s, key)
                        /\ ResolvePathSegment(s, key) # None
                /\ node.kind = "object" /\ Direct(source) =>
                    \A key \in DOMAIN props \ Keys(node) :
                        /\ ~ConstOfWords(props[key]) =>
                            \A new \in ValuesFor(s, key) : Accepted(path, key, new, ValueRules)
                        /\ \A new \in Snippets(props[key]) : Accepted(path, key, new, {"type"})
                /\ node.kind = "array" /\ Direct(source) /\ ~ConstOfWords(next) =>
                    \A new \in ItemOffers(s, Len(node.items)) :
                        Accepted(path, "", new, ValueRules)

-----------------------------------------------------------------------------
(* A statement of the repository that the code does not keep.              *)

\* Test unknown_property_allof_siblings: "Property defined in a sibling allOf
\* sub-schema should not warn."
AllOfSiblingsKnown ==
    done /\ value.kind = "object" /\ Has(source, "allOf") =>
        \A key \in Keys(value), i \in DOMAIN source.allOf :
            SchemaKnowsProperty(FromValue(source.allOf[i]), key) =>
                Warn(Str(key), "unknown") \notin errors
=============================================================================
