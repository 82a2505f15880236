-------------------------- MODULE DocumentRequests ---------------------------
(***************************************************************************)
(* One document and the requests that read it: formatting, sorting and     *)
(* symbols, in any order, one at a time, as the main thread handles them.  *)
(* The client applies each edit before its next request.  Between requests *)
(* the diagnostics and what is found at a cursor are functions of the text.*)
(***************************************************************************)
EXTENDS Sorting, FormattedText, SyntaxDiagnostics, Links, CompletionContext, Colors, LeadingPaths

CONSTANT Texts      \* the texts the document may have at first

Writer == INSTANCE Symbols

writing == <<root, phase, calls, cursor, buf>>

vars == <<text, writing>>

Init == text \in Texts /\ Writer!Init

OnFormatting ==
    /\ Idle
    /\ \E options \in Options : Format(options)
    /\ UNCHANGED writing

OnSort ==
    /\ Idle
    /\ Sort
    /\ UNCHANGED writing

\* Only trees of the modelled form can be walked.
OnDocumentSymbol ==
    /\ Parse(text) # <<>>
    /\ Writer!Start(Parse(text)[1])
    /\ UNCHANGED text

WriterStep == Writer!Step /\ UNCHANGED text

Next == OnFormatting \/ OnSort \/ OnDocumentSymbol \/ WriterStep

\* The thread goes on with what it has begun; the client owes no request.
Spec == Init /\ [][Next]_vars /\ WF_vars(WriterStep)

-----------------------------------------------------------------------------
(* Formatting and sorting.  Texts change between requests only.            *)

\* A formatted text gets no further edit from the same formatting, nor a sorted
\* one from sorting.
Settles ==
    Idle =>
        /\ \A options \in Options :
              FormatDocument(Applied(text, FormatDocument(text, options)), options) = <<>>
        /\ SortDocument(Applied(text, SortDocument(text))) = <<>>

RECURSIVE Meaning(_), OrderedKeys(_)

\* What a value means: an object is a function of its keys.
Meaning(val) ==
    CASE val.kind = "object" ->
            LET Entry(key) == CHOOSE e \in {val.entries[i] : i \in DOMAIN val.entries} : e[1] = key
            IN  [key \in {val.entries[i][1] : i \in DOMAIN val.entries} |-> Meaning(Entry(key)[2])]
      [] val.kind = "array" -> [i \in DOMAIN val.items |-> Meaning(val.items[i])]
      [] OTHER -> <<val.kind, val.value>>

OrderedKeys(node) ==
    LET keys == [i \in DOMAIN ObjectPairs(node) |->
                    StringValue[PairKey(ObjectPairs(node)[i]).tokens[1]]]
    IN  /\ node.kind = "object" => \A i, j \in DOMAIN keys : i < j => keys[i] < keys[j]
        /\ \A i \in DOMAIN node.children : OrderedKeys(node.children[i])

\* Sorting keeps the value of the document, and afterwards the keys of every
\* object, within arrays too, are in order and each there once.
SortKeepsMeaning ==
    LET new == Applied(text, SortDocument(text))
    IN  Idle /\ ~HasError(text) /\ FromStr(text) # <<>> =>
            /\ ~HasError(new)
            /\ Meaning(FromStr(new)[1]) = Meaning(FromStr(text)[1])
            /\ OrderedKeys(Parse(new)[1])

\* Sorting preserves the indent style (the comment of sort_document): a formatted
\* text that is sorted is still formatted.
IndentPreserved ==
    Idle /\ ~HasError(text) =>
        \A options \in {o \in Options : o.finalNewline /\ (o.insertSpaces => o.tabSize > 0)} :
            LET formatted == Applied(text, FormatDocument(text, options))
                sorted    == Applied(formatted, SortDocument(formatted))
            IN  FormatDocument(sorted, options) = <<>>

-----------------------------------------------------------------------------
(* Symbols.                                                                *)

\* Every request for symbols ends: the restored cursor never goes round in a
\* container.
SymbolsAnswered == ~Idle ~> Idle
-----------------------------------------------------------------------------
(* Syntax diagnostics.                                                     *)

\* The text without what error recovery has added to it.
Written(t) == SelectSeq(t, LAMBDA token : token \notin NoBytes)

\* Token i is a comma with a value before it and a closing bracket behind it, but for
\* the tokens of between.
IsTrailingComma(t, i, between) ==
    LET before == SelectSeq(SubSeq(t, 1, i - 1), LAMBDA token : token \notin between)
        after  == SelectSeq(SubSeq(t, i + 1, Len(t)), LAMBDA token : token \notin between)
    IN  /\ t[i] = ","
        /\ before # <<>> /\ Last(before) \in Strings \union Scalars \union {"}", "]"}
        /\ after # <<>> /\ Head(after) \in {"}", "]"}

\* The text is correct but for trailing commas.
CorrectButForCommas(t, between) ==
    LET kept == SelectSeq([i \in DOMAIN t |-> i], LAMBDA i : ~IsTrailingComma(t, i, between))
    IN  ~HasError([i \in DOMAIN kept |-> t[kept[i]]])

\* README: trailing commas "silently accepted", "double/leading commas still
\* reported".  A document without a syntax diagnostic is correct but for trailing
\* commas, and comments around them: neither the tolerance nor what suppresses the
\* artefacts of recovery ever hides the only sign of an error.  And a document that
\* is correct but for trailing commas has no diagnostic, unless a comment is between
\* the comma and the value or the bracket.
ErrorsReported ==
    Idle /\ Parse(text) # <<>> =>
        LET silent == SyntaxErrors(Parse(text)[1]) = {}
        IN  /\ silent => CorrectButForCommas(Written(text), White \union Comments)
            /\ CorrectButForCommas(Written(text), White) => silent

\* Some object has two keys that are spelled differently and mean the same.
SameKeySpelledTwice(root1) ==
    LET RECURSIVE In(_)
        In(node) ==
            \/ /\ node.kind = "object"
               /\ \E p, q \in ToSet(ObjectPairs(node)) :
                     KeyOf(p) = KeyOf(q) /\ PairKey(p).tokens # PairKey(q).tokens
            \/ \E child \in ToSet(node.children) : In(child)
    IN  In(root1)

\* Sorting keeps one of several pairs with the same key.  It drops none unless a
\* duplicate key was reported or the key was spelled in another way, and it drops
\* one whenever a duplicate is reported.
LossIsWarned ==
    Idle /\ ~HasError(text) /\ FromStr(text) # <<>> =>
        LET new    == Applied(text, SortDocument(text))
            Pairs(t) == Len(SelectSeq(t, LAMBDA token : token = ":"))
            warned == DuplicateKeys(Parse(text)[1]) # {}
        IN  /\ warned => Pairs(new) < Pairs(text)
            /\ Pairs(new) < Pairs(text) => warned \/ SameKeySpelledTwice(Parse(text)[1])

\* describe_error: "Fallback: show the unexpected text (truncated)."  Every syntax
\* error gets a diagnostic, whatever the text is.
ErrorsDescribed ==
    Idle /\ Parse(text) # <<>> =>
        \A d \in SyntaxErrors(Parse(text)[1]) : d.message # "panic"

-----------------------------------------------------------------------------
(* Cursors.                                                                *)

\* The token of the innermost bracket that is open before token i, or 0.
InnermostOpen(t, i) ==
    LET Step(open, j) == CASE t[j] \in {"{", "["} -> Append(open, j)
                           [] t[j] \in {"}", "]"} -> Front(open)
                           [] OTHER -> open
    IN  Last(FoldLeftDomain(Step, <<0>>, SubSeq(t, 1, i - 1)))

\* The key before the last colon that is in the object of the open brace.
LastKey(t, open, i) ==
    LET colons == {j \in open..(i - 1) : t[j] = ":" /\ InnermostOpen(t, j) = open}
        key    == Max({j \in open..Max(colons) : t[j] \in Strings})
    IN  IF colons = {} THEN <<>> ELSE <<StringValue[t[key]]>>

\* The context at token i fits the innermost open bracket and the token before.
ContextFits(t, tree, i, ctx, open, prev) ==
    IF open = 0 THEN ctx.kind = "none"
    ELSE /\ ctx.kind # "none"
         /\ NodeAt(tree, ctx.in).start = Offset(t, open)
         /\ (t[open] = "[") = (ctx.kind = "item")
         /\ t[open] = "{" /\ prev \in {"{", ","} => ctx.kind = "name"
         /\ prev = ":" => ctx.kind = "value" /\ ~ctx.hasValue
         /\ ctx.kind = "value" /\ prev \notin Strings => <<ctx.key>> = LastKey(t, open, i)

\* At white space in a correct text, completion is for the innermost container: for
\* the name of a property where one is to come, for a value of the key before the
\* colon where one is to come.  Nesting, strings that hold colons and commas, and
\* those of inner containers do not mislead the search in the text; comments with a
\* colon or a comma do, and are left out.  Behind a value both are possible.
CompletionFits ==
    Idle /\ ~HasError(text) /\ ToSet(text) \intersect {"comment:", "comment,"} = {} =>
        \A i \in {j \in DOMAIN text : text[j] \in White} :
            LET before == SelectSeq(SubSeq(text, 1, i - 1),
                                    LAMBDA token : token \notin White \union Comments)
            IN  ContextFits(text, Parse(text)[1], i,
                    DetermineContext(text, Parse(text)[1], [at |-> i, inside |-> FALSE]),
                    InnermostOpen(text, i), IF before = <<>> THEN "" ELSE Last(before))

-----------------------------------------------------------------------------
(* Colours.                                                                *)

\* The digits of a colour without short cuts: "#f08" is "#ff0088", and full opacity
\* is not written.
LongForm(hex) ==
    LET long == IF Len(hex) > 4 THEN hex ELSE FlattenSeq([i \in DOMAIN hex |-> <<hex[i], hex[i]>>])
    IN  IF Len(long) = 8 /\ SubSeq(long, 7, 8) = <<15, 15>> THEN SubSeq(long, 1, 6) ELSE long

\* Every string of the document that is a hex colour, and no other, is shown as one,
\* and what is offered for it is the same colour: the way through f32, there and back
\* with the fraction cut off, changes no byte.
ColorsKept ==
    Idle /\ Parse(text) # <<>> =>
        LET Wellformed(hex) == 16 \notin ToSet(hex) /\ Len(hex) \in {3, 4, 6, 8}
            strings == {s \in ToSet(text) \intersect DOMAIN HexDigits : Wellformed(HexDigits[s])}
        IN  {<<NodeAt(Parse(text)[1], c.on).tokens[1], HexPresentation(c.color)>> :
                c \in DocumentColors(Parse(text)[1])}
                = {<<s, LongForm(HexDigits[s])>> : s \in strings}
=============================================================================
