------------------------- MODULE MCDocumentRequests --------------------------
(* An instance of DocumentRequests for TLC. *)
EXTENDS DocumentRequests, TLC

\* Colours that hold every byte once, four in each, and one of each other length.
Four(n) == "#" \o ToString(n)
Fours == {Four(n) : n \in 0..63}
Number(name) == CHOOSE n \in 0..63 : Four(n) = name
Colours == Fours \union {"#f08", "#f08f", "#f089", "#ff0089", "#f0891"}
FourBytes(n) ==
    LET byte(i) == 4 * n + (i - 1) \div 2
    IN  [i \in 1..8 |-> IF i % 2 = 1 THEN byte(i) \div 16 ELSE byte(i) % 16]
MCHexDigits ==
    [s \in Colours \union {"#/a/0", "#"} |->
        CASE s \in Fours -> FourBytes(Number(s))
          [] s = "#f08" -> <<15, 0, 8>>
          [] s = "#f08f" -> <<15, 0, 8, 15>>
          [] s = "#f089" -> <<15, 0, 8, 9>>
          [] s = "#ff0089" -> <<15, 15, 0, 0, 8, 9>>
          [] s = "#f0891" -> <<15, 0, 8, 9, 1>>
          [] s = "#/a/0" -> <<16, 10, 16, 0>>
          [] s = "#" -> <<>>]

MCStringValue ==
    [s \in {"a", "b", "a with an escape", "", "0", "$ref", "#/a/0", "#", "http:", "x,"} \union Colours |->
        CASE s \in Fours -> 100 + Number(s)
          [] s \in Colours \ Fours ->
                400 + SelectInSeq(<<"#f08", "#f08f", "#f089", "#ff0089", "#f0891">>, LAMBDA c : c = s)
          [] s = "" -> 0
          [] s \in {"a", "a with an escape"} -> 1
          [] s = "b" -> 2
          [] s = "$ref" -> 3
          [] s = "#/a/0" -> 4
          [] s = "#" -> 5
          [] s = "http:" -> 6
          [] s = "x," -> 7
          [] s = "0" -> 10]
MCStrings == DOMAIN MCStringValue
MCKeys == {"a", "b", "a with an escape"}
MCScalars == {"1", "1e0"}
MCSpelling ==
    [v \in {MCStringValue[s] : s \in MCStrings} |->
        CHOOSE s \in MCStrings \ {"a with an escape"} : MCStringValue[s] = v]
MCCanonical == [s \in MCScalars |-> "1"]

MCNumeral == [i \in 0..4 |-> 10 + i]
MCRefKey == "$ref"
MCFragment ==
    [s \in {"#/a/0", "#"} |-> IF s = "#" THEN <<>> ELSE <<MCStringValue["a"], MCNumeral[0]>>]
MCWithColon == {"http:"}
MCWithSeparator == {"x,"}
MCUrls == {"http:"}

\* Thirty bytes that are skipped: of one byte each, and ten characters of three.
MCJunkWidths == [i \in 1..30 |-> 1]
Wide == [i \in 1..10 |-> 3]

MCOptions ==
    {[tabSize |-> 1, insertSpaces |-> FALSE, finalNewline |-> TRUE],
     [tabSize |-> 1, insertSpaces |-> TRUE, finalNewline |-> TRUE],
     [tabSize |-> 3, insertSpaces |-> TRUE, finalNewline |-> FALSE]}

\* A container of the given members, without white space.
ContainerOf(open, members, close) ==
    <<open>> \o FlattenSeq([i \in DOMAIN members |->
                    members[i] \o (IF i < Len(members) THEN <<",">> ELSE <<>>)]) \o <<close>>

ContainersOf(values, n) ==
    {ContainerOf("[", m, "]") : m \in UNION {[1..k -> values] : k \in 0..n}}
    \union
    {ContainerOf("{", m, "}") :
        m \in UNION {[1..k -> {<<key, ":">> \o v : key \in MCKeys, v \in values}] : k \in 0..n}}

Small == {<<"1e0">>} \union ContainersOf({<<"1">>}, 2)

\* Containers of containers, up to three levels.
Large ==
    {ContainerOf("[", <<v, w>>, "]") : v \in Small, w \in {<<"1">>, <<"b">>}}
    \union {ContainerOf("{", <<<<"b", ":">> \o v, <<"a", ":">> \o w>>, "}") :
               v \in Small, w \in {<<"1">>, <<"[", "]">>}}
    \union {ContainerOf("[", <<v, w>>, "]") :
               v, w \in {<<"1">>, <<"[", "{", "}", "]">>, <<"{", "a", ":", "[", "]", "}">>}}

\* Any one token of these, anywhere.
Inserted(texts, tokens) ==
    UNION {{InsertAt(t, i, new) : i \in 1..(Len(t) + 1)} : t \in texts, new \in tokens}

\* A missing key or value instead of one that is there.
Missing(texts) ==
    UNION {{[t EXCEPT ![i] = "missing"] : i \in {j \in DOMAIN t : t[j] \in {"a", "1"}}} :
              t \in texts}

\* Values that error recovery leaves, with the mistakes that tests of diagnostics.rs
\* name, around a value; the last three are complete.
Mistaken(v) ==
    {<<"{", "a", ":">> \o v \o end :
        end \in {<<"error(", ",", ")error", "}">>, <<"error(", ",", ",", ")error", "}">>,
                <<"error(", ",", " ", ")error", "nl", "}">>,
                <<"error(", ",", ")error", "comment", "}">>, <<"missing }">>}} \union
    {<<"[">> \o v \o end :
        end \in {<<",", "missing", "]">>, <<"error(", ",", ")error", ",", "1", "]">>,
                <<",", "comment", "missing", "]">>, <<"comment", ",", "missing", "]">>,
                <<"error(", ",", ")error", ",", "missing", "]">>, <<"missing ]">>,
                <<"error(", "}", ")error", "]">>}} \union
    {<<"{", "error(pair", "a", ":">> \o v \o <<")error", "b", ":", "1", "}">>,
     <<"{", "error(", ",", ")error", "}">>, <<"[", "error(", ",", ")error", "]">>,
     <<"{", "a", ":", "missing", "}">>, <<"{", "error(", "a", ":", ")error", "}">>,
     <<"{", "error(", "a", "1", ")error", "}">>, <<"{", "error(", ":", "a", ")error", "}">>,
     <<"[">> \o v \o <<"]">>, <<"{", "a", ":">> \o v \o <<"}">>, <<"1">>}

\* Recovery that gives up the container: its parts are left beside each other.
Dissolved(v) ==
    {<<"error(", "{", "error", ":", ")error">> \o v \o <<"error(", "}", ")error">>,
     <<"error(", "{", "1", ":", ")error">> \o v \o <<"error(", "}", ")error">>,
     <<"error(", "{", "a", ":", "quote", "content", ")error">>,
     v \o <<"error(", "}", ")error">>, <<"junk">>, <<"error(", "[", "error", ")error">>}

Mistaken1 == Mistaken(<<"1">>)

Broken ==
    UNION {Mistaken(v) \union Dissolved(v) : v \in Mistaken1} \union
    {<<"[">> \o v \o <<",">> \o w \o <<"]">> : v, w \in Mistaken1}

\* References, pointers that need an index or a key that spells one, strings with a
\* colon or a comma, and values between comments.
Referring ==
    {<<"{", "$ref", ":", "#/a/0", ",", "a", ":", "[", "1", ",", "1", "]", "}">>,
     <<"{", "a", ":", "{", "0", ":", "{", "$ref", ":", "#/a/0", "}", "}", "}">>,
     <<"[", "{", "", ":", "{", "$ref", ":", "#", "}", "}", ",", "1", "]">>,
     <<"{", "", ":", "1", ",", "a", ":", "{", "", ":", "http:", "}", "}">>,
     <<"{", "http:", ":", "[", "http:", ",", "{", "b", ":", "http:", "}", "]", "}">>,
     <<"{", "x,", ":", "[", "x,", "]", ",", "a", ":", "{", "b", ":", "x,", "}", "}">>,
     <<"{", "a", ":", "{", "b", ":", "1", ",", "a", ":", "[", "]", "}", ",", "b", ":", "http:", "}">>}

\* The parser recovers from errors only.
Recoverable(t) == HasError(t) /\ Parse(t) # <<>> => HasError(Written(t))

MCTexts ==
    {<<>>} \union Large
    \union {t \in Missing(Small) \union Broken : Recoverable(t)}
    \union Inserted(Small, {" ", "nl", "tab", "comment", "error", "1e0", ",", "{"})
    \union Inserted(Inserted(ContainersOf({<<"1">>}, 1), {" ", "comment"}), {"nl"})
    \union {<<c>> : c \in Colours}
    \union {<<"{", c, ":", "[", c, ",", "comment", d, "]", "}">> :
               c \in {"#f08", "#f0891"}, d \in {"#f08f", "#"}}
    \union Inserted(Referring, {" ", "comment", "comment:", "error"})

\* These texts, and what formatting and sorting make of them, are among those the proofs
\* are about, and their trees are as the proofs say.
ASSUME TreesWellFormed ==
    \A t \in MCTexts \union {Applied(t, SortDocument(t)) : t \in MCTexts}
               \union {Applied(t, FormatDocument(t, options)) :
                          t \in MCTexts, options \in MCOptions} :
        /\ \A i \in DOMAIN t : t[i] \in Tokens
        /\ Parse(t) # <<>> => WellFormed(Parse(t)[1]) /\ Grammatical(Parse(t)[1])

-----------------------------------------------------------------------------
(* The texts that show what the code does not keep.                        *)

SkippedTexts == Inserted(Mistaken1, {"junk"})
=============================================================================
