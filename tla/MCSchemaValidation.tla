------------------------- MODULE MCSchemaValidation --------------------------
(* Instances of SchemaValidation for TLC. *)
EXTENDS ValidationProperties, TLC

One == Integer(1)

Two == Integer(2)

PairOf(k, l) == Obj(<<Pair(k, One), Pair(l, One)>>)

\* Arrays with an element that occurs twice, written alike or not: "a" and
\* "\\u0061", [1] and [ 1 ], the pairs of an object in another order.
Repeating ==
    {Arr(<<Str("a"), Respelt(Str("a"))>>), Arr(<<Respelt(Str("a")), Respelt(Str("a"))>>),
     Arr(<<Arr(<<One>>), Respelt(Arr(<<One>>))>>), Arr(<<PairOf("a", "b"), PairOf("b", "a")>>)}

\* Values of every kind, nested up to two levels.
MCValues ==
    {One, Two, Decimal(2), Decimal(3), Str("a"), Str("ab"), Word("true"), Word("null"),
     Arr(<<>>), Arr(<<One>>), Arr(<<One, One>>), Arr(<<Str("a"), One>>),
     Arr(<<One, Decimal(3), Two>>), Arr(<<Arr(<<One>>), Arr(<<One>>)>>),
     Obj(<<>>), Obj(<<Pair("a", One)>>), Obj(<<Pair("a", Str("ab"))>>),
     Obj(<<Pair("b", One)>>), Obj(<<Pair("b", Str("a")), Pair("a", One)>>),
     Obj(<<Pair("a", Obj(<<Pair("a", Decimal(3))>>))>>), Respelt(Str("a"))} \union Repeating

\* Assertions of one keyword or of two that interact.
Numeric ==
    {[minimum |-> 2], [minimum |-> 2, exclusiveMinimum |-> [flag |-> TRUE]],
     [minimum |-> 2, exclusiveMinimum |-> [flag |-> FALSE]],
     [exclusiveMinimum |-> [limit |-> 2]], [maximum |-> 3],
     [maximum |-> 3, exclusiveMaximum |-> [flag |-> TRUE]],
     [exclusiveMaximum |-> [limit |-> 3]], [multipleOf |-> 2], [multipleOf |-> 3]}

Textual ==
    {[minLength |-> 2], [maxLength |-> 1], [pattern |-> [matches |-> {"a"}]],
     [pattern |-> [broken |-> TRUE]]}

Typed ==
    {[type |-> {"integer"}], [type |-> {"number"}], [type |-> {"string", "null"}],
     [type |-> {"array", "object"}], [type |-> {"boolean"}],
     [type |-> {"integer"}, minimum |-> 4]}

Enumerated ==
    {[enum |-> {One, Str("a")}], [enum |-> {Arr(<<One>>)}], [const |-> Decimal(3)],
     [const |-> Obj(<<Pair("a", One), Pair("b", Str("a"))>>)]}

Sized ==
    {[minItems |-> 2], [maxItems |-> 1], [uniqueItems |-> TRUE], [minProperties |-> 1],
     [maxProperties |-> 1], [required |-> {"a"}]}

Dependent ==
    {[dependencies |-> [a |-> [names |-> {"b"}]]],
     [dependencies |-> [a |-> [schema |-> [maxProperties |-> 1]]]],
     [dependentRequired |-> [a |-> {"b"}]],
     [dependentSchemas |-> [b |-> [required |-> {"a"}]]]}

\* A format only warns, and so does a deprecation.
Warning == {[format |-> {"a"}], [deprecated |-> TRUE, minLength |-> 2]}

Booleans == {[bool |-> TRUE], [bool |-> FALSE]}

Atoms == Numeric \union Textual \union Typed \union Enumerated \union Sized
             \union Dependent \union Warning \union Booleans

\* Those used where sub-schemas are combined.
Few ==
    {[type |-> {"integer"}], [type |-> {"number"}], [type |-> {"array", "object"}],
     [exclusiveMinimum |-> [limit |-> 2]], [enum |-> {One, Str("a")}], [minLength |-> 2],
     [required |-> {"a"}], [uniqueItems |-> TRUE], [bool |-> FALSE],
     [deprecated |-> TRUE, minLength |-> 2]}

\* Every keyword with sub-schemas, around x and y.
Around(x, y) ==
    {[allOf |-> <<x, y>>], [anyOf |-> <<x, y>>], [oneOf |-> <<x, y>>],
     [not |-> x], [if |-> x, then |-> y], [if |-> x, else |-> y],
     [items |-> x], [prefixItems |-> <<x>>, items |-> y], [prefixItems |-> <<x, y>>],
     [contains |-> x], [contains |-> x, minContains |-> 2],
     [contains |-> x, minContains |-> 0, maxContains |-> 1],
     [properties |-> [a |-> x], additionalProperties |-> y],
     [properties |-> [a |-> x], patternProperties |->
        <<[re |-> [matches |-> {"a", "b"}], schema |-> y]>>],
     [patternProperties |-> <<[re |-> [broken |-> TRUE], schema |-> x]>>,
      additionalProperties |-> y],
     [propertyNames |-> x, properties |-> [b |-> y]]}

\* The same reference in two branches, and two references on one path.
Ref(name, s) == [k \in DOMAIN s \union {"ref"} |-> IF k = "ref" THEN name ELSE s[k]]

Referring ==
    UNION {{[anyOf |-> <<Ref("r", x), Ref("r", y)>>], [allOf |-> <<Ref("r", x), Ref("r", y)>>],
            Ref("q", [properties |-> [a |-> Ref("r", x), b |-> Ref("r", y)]]),
            Ref("r", [not |-> Ref("r", x)])}
             : x \in Few \ Booleans, y \in Few \ Booleans}

Combined == UNION {Around(x, y) : x \in Few, y \in Few}

Nested ==
    UNION {Around(Inner, [anyOf |-> <<[type |-> {"null"}], Inner>>]) :
             Inner \in UNION {Around(x, [type |-> {"integer"}]) : x \in Few \ Booleans}}

\* What completion reads, in each of the places it looks for it.
Offering ==
    {[type |-> {"boolean", "null"}], [type |-> {"boolean"}, enum |-> {Word("true")}],
     [type |-> {"boolean"}, const |-> Word("true")], [const |-> Decimal(3)],
     [type |-> {"integer"}, default |-> Two], [enum |-> {Str("a"), One}, doNotSuggest |-> TRUE]}

Offered ==
    UNION {{[properties |-> [a |-> x, b |-> y]], [prefixItems |-> <<x>>, items |-> y],
            [properties |-> [a |-> [properties |-> [a |-> x], additionalProperties |-> y]]],
            [items |-> [prefixItems |-> <<x, y>>]],
            [anyOf |-> <<[properties |-> [a |-> x]], [properties |-> [b |-> y]]>>],
            [then |-> [properties |-> [a |-> x]], else |-> [properties |-> [a |-> y]]]} :
              x, y \in Offering}

MCSources == Atoms \union Combined \union Nested \union Referring \union Offered

-----------------------------------------------------------------------------
(* The instance in which a statement of the repository fails.              *)

Flat == {Obj(<<Pair("a", One), Pair("b", Two)>>), One}

Siblings ==
    {[allOf |-> <<[properties |-> [a |-> [bool |-> TRUE]]],
                  [properties |-> [b |-> [bool |-> TRUE]]]>>]}
=============================================================================
