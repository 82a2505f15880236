----------------------------- MODULE JsonSchemas -----------------------------
(***************************************************************************)
(* JSON values as tree-sitter nodes, schemas as src/src/schema/types.rs    *)
(* parses them, and the search for the schema of a property that           *)
(* completion and hover use.                                               *)
(*                                                                         *)
(* A node is a record with its kind, what validation reads of it and the   *)
(* form it is written in: two nodes are equal when they have the same      *)
(* source text.  A schema is a record of the keywords that are present.    *)
(* Where a schema is expected, JSON may have a boolean, [bool |-> b], or   *)
(* an array, [array |-> schemas].  A regular expression is                 *)
(* [matches |-> strings], or [broken |-> TRUE] when it does not compile; a *)
(* format is a set of strings.                                             *)
(***************************************************************************)
EXTENDS Integers, Sequences, FiniteSets

\* Numbers are counted in halves, so that 1.5 is one of them.  The form tells
\* 1 from 1.0 and, of a value written in a way that is not the plain one, with
\* escapes or with white space inside, the value from the plain one.
Integer(n) == [kind |-> "number", n |-> 2 * n, form |-> "integer"]
Decimal(n) == [kind |-> "number", n |-> n, form |-> "decimal"]
Str(t)     == [kind |-> "string", text |-> t, form |-> "plain"]
Word(w)    == [kind |-> w]
Arr(items) == [kind |-> "array", items |-> items, form |-> "plain"]
Obj(pairs) == [kind |-> "object", pairs |-> pairs, form |-> "plain"]
Pair(key, value) == [key |-> key, value |-> value]
Respelt(v) == [v EXCEPT !.form = "respelt"]

Keys(v) == {v.pairs[i].key : i \in DOMAIN v.pairs}

-----------------------------------------------------------------------------
(* from_value, parse_schema_object.                                        *)

Has(s, keyword) == keyword \in DOMAIN s

Field(s, keyword, default) == IF Has(s, keyword) THEN s[keyword] ELSE default

DefaultSchema == [keyword \in {} |-> {}]

RECURSIVE FromValue(_)

\* parse_schema_or_bool: a boolean stays a boolean.
ParseSchemaOrBool(json) == IF Has(json, "bool") THEN json ELSE FromValue(json)

ParseDependency(json) ==
    IF Has(json, "names") THEN json ELSE [schema |-> FromValue(json.schema)]

\* One keyword of parse_schema_object.
ParseField(keyword, json) ==
    CASE keyword \in {"propertyNames", "contains", "not", "if", "then", "else"} ->
            FromValue(json)
      [] keyword \in {"items", "additionalItems", "additionalProperties"} ->
            ParseSchemaOrBool(json)
      [] keyword \in {"prefixItems", "allOf", "anyOf", "oneOf", "properties",
                      "dependentSchemas", "definitions"} ->
            [k \in DOMAIN json |-> FromValue(json[k])]
      [] keyword = "patternProperties" ->
            [i \in DOMAIN json |->
                [re |-> json[i].re, schema |-> FromValue(json[i].schema)]]
      [] keyword = "dependencies" ->
            [k \in DOMAIN json |-> ParseDependency(json[k])]
      [] OTHER -> json

\* false is not: {}, true and whatever is no object is the default schema.
FromValue(json) ==
    CASE Has(json, "bool")  -> IF json.bool THEN DefaultSchema
                               ELSE [not |-> DefaultSchema]
      [] Has(json, "array") -> DefaultSchema
      [] OTHER -> [keyword \in DOMAIN json |-> ParseField(keyword, json[keyword])]

-----------------------------------------------------------------------------
(* resolve_path_segment.  A segment is a key or, for an array, an index     *)
(* from 0; the result is None or the schema found.                          *)

None == [none |-> TRUE]

Composed(s) == Field(s, "allOf", <<>>) \o Field(s, "anyOf", <<>>) \o Field(s, "oneOf", <<>>)

Branches(s) ==
    (IF Has(s, "then") THEN <<s.then>> ELSE <<>>) \o
    (IF Has(s, "else") THEN <<s.else>> ELSE <<>>)

RECURSIVE ResolvePathSegment(_, _), FirstResolved(_, _)

\* The first of these schemas that resolves the segment decides.
FirstResolved(schemas, seg) ==
    IF schemas = <<>> THEN None
    ELSE LET found == ResolvePathSegment(Head(schemas), seg)
         IN  IF found # None THEN found ELSE FirstResolved(Tail(schemas), seg)

AsIndex(seg) == IF seg = "0" THEN 1 ELSE IF seg = "1" THEN 2 ELSE 0

ResolvePathSegment(s, seg) ==
    LET i      == AsIndex(seg)
        prefix == Field(s, "prefixItems", <<>>)
        rest   == FirstResolved(Composed(s) \o Branches(s), seg)
    IN  CASE seg \in DOMAIN Field(s, "properties", DefaultSchema) -> s.properties[seg]
          [] i # 0 /\ i <= Len(prefix) -> prefix[i]
          [] i > Len(prefix) /\ Has(s, "items") /\ ~Has(s.items, "bool") -> s.items
          [] OTHER ->
                IF rest # None THEN rest
                ELSE IF Has(s, "additionalProperties") /\ ~Has(s.additionalProperties, "bool")
                     THEN s.additionalProperties ELSE None
=============================================================================
