-------------------------------- MODULE Sorting ------------------------------
(***************************************************************************)
(* Sorting of a document (src/src/formatting.rs): the text is read, sorted *)
(* and written anew with the indentation it had.                           *)
(***************************************************************************)
EXTENDS Formatting

CONSTANTS
    Spelling,       \* escape_json_string: the token written for the value of a string
    Canonical       \* how serde_json writes a scalar it has read

ASSUME SpellingType ==
    \A s \in Strings : StringValue[Spelling[StringValue[s]]] = StringValue[s]

\* serde_json::from_str: a repeated key keeps its last value.  The entries are in
\* the order of the text, which is the least that serde_json's map promises.
RECURSIVE SerdeValue(_)
SerdeValue(node) ==
    CASE node.kind = "object" ->
            LET pairs == ObjectPairs(node)
                Key(i) == StringValue[PairKey(pairs[i]).tokens[1]]
                last  == SetToSortSeq({i \in DOMAIN pairs :
                            \A j \in (i + 1)..Len(pairs) : Key(i) # Key(j)}, <)
            IN  [kind |-> "object",
                 entries |-> [i \in DOMAIN last |->
                                 <<Key(last[i]), SerdeValue(PairValue(pairs[last[i]]))>>]]
      [] node.kind = "array" ->
            [kind |-> "array",
             items |-> [i \in DOMAIN ArrayItems(node) |-> SerdeValue(ArrayItems(node)[i])]]
      [] node.kind = "string" -> [kind |-> "string", value |-> StringValue[node.tokens[1]]]
      [] OTHER -> [kind |-> "scalar", value |-> Canonical[node.tokens[1]]]

\* from_str wants one value and no comments.
FromStr(t) ==
    LET root == Parse(t)[1]
    IN  IF \E i \in DOMAIN t : t[i] \in Comments THEN <<>>
        ELSE IF Len(root.children) # 1 THEN <<>>
        ELSE <<SerdeValue(root.children[1])>>

ByKey(e, f) == e[1] < f[1]

\* Mutant of SortValue: it does not descend.
SortOnce(val) ==
    IF val.kind = "object" THEN [val EXCEPT !.entries = SortSeq(@, ByKey)] ELSE val

RECURSIVE SortValue(_)
SortValue(val) ==
    CASE val.kind = "object" ->
            [val EXCEPT !.entries =
                SortSeq([i \in DOMAIN @ |-> <<@[i][1], SortValue(@[i][2])>>], ByKey)]
      [] val.kind = "array" -> [val EXCEPT !.items = [i \in DOMAIN @ |-> SortValue(@[i])]]
      [] OTHER -> val

RECURSIVE FormatSerdeValue(_, _, _)
FormatSerdeValue(val, indent, depth) ==
    CASE val.kind = "object" ->
            Block("{", "}",
                  [i \in DOMAIN val.entries |->
                      <<Spelling[val.entries[i][1]], ":", " ">>
                          \o FormatSerdeValue(val.entries[i][2], indent, depth + 1)],
                  indent, depth)
      [] val.kind = "array" ->
            Block("[", "]",
                  [i \in DOMAIN val.items |-> FormatSerdeValue(val.items[i], indent, depth + 1)],
                  indent, depth)
      [] val.kind = "string" -> <<Spelling[val.value]>>
      [] OTHER -> <<val.value>>

\* The places where the lines after the first begin.
LineStarts(t) == {i \in 2..Len(t) : t[i - 1] = "nl"}

\* The white space a line begins with, as far as it is indentation.
IndentAt(t, i) ==
    IF t[i] = "tab" THEN <<"tab">>
    ELSE LET end == CHOOSE j \in i..(Len(t) + 1) :
                        (j <= Len(t) => t[j] # " ") /\ \A k \in i..(j - 1) : t[k] = " "
         IN  Repeat(<<" ">>, end - i)

\* Mutant of DetectIndent: tabs are not looked for.
DetectSpaces(t) ==
    LET lines == {i \in LineStarts(t) : t[i] = " "}
    IN  IF lines = {} THEN <<" ", " ">> ELSE IndentAt(t, Min(lines))

DetectIndent(t) ==
    LET lines == {i \in LineStarts(t) : IndentAt(t, i) # <<>>}
    IN  IF lines = {} THEN <<" ", " ">> ELSE IndentAt(t, Min(lines))

SortDocument(t) ==
    IF HasError(t) THEN <<>>
    ELSE LET vals == FromStr(t)
         IN  Changes(t, [i \in DOMAIN vals |->
                FormatSerdeValue(SortValue(vals[i]), DetectIndent(t), 0) \o <<"nl">>])

\* The request; the client applies the edit at once.
Sort == text' = Applied(text, SortDocument(text))
=============================================================================
