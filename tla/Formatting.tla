------------------------------ MODULE Formatting -----------------------------
(***************************************************************************)
(* Formatting of a document (src/src/formatting.rs), and what becomes of   *)
(* the text when the client applies the edit it gets.                      *)
(***************************************************************************)
EXTENDS OpenDocument

CONSTANT Options    \* FormattingOptions: tab_size, insert_spaces, insert_final_newline

ASSUME OptionsType ==
    Options \subseteq [tabSize : Nat, insertSpaces : BOOLEAN, finalNewline : BOOLEAN]

Repeat(s, n) == FlattenSeq([i \in 1..n |-> s])

\* What format_node and format_serde_value have in common: a container with each
\* of its parts on a line of its own.
Block(open, close, parts, indent, depth) ==
    IF parts = <<>> THEN <<open, close>>
    ELSE <<open, "nl">>
         \o FlattenSeq([i \in DOMAIN parts |->
                Repeat(indent, depth + 1) \o parts[i]
                    \o (IF i < Len(parts) THEN <<",">> ELSE <<>>) \o <<"nl">>])
         \o Repeat(indent, depth) \o <<close>>

\* format_node: the text of a node from a depth on.
FormatNode(tree, indent) ==
    LET format[node \in Nodes(tree)] ==
            [depth \in Nat |->
                CASE node.kind = "object" ->
                        LET pairs == ObjectPairs(node)
                        IN  Block("{", "}",
                                  [i \in DOMAIN pairs |->
                                      PairKey(pairs[i]).tokens \o <<":", " ">>
                                          \o format[PairValue(pairs[i])][depth + 1]],
                                  indent, depth)
                  [] node.kind = "array" ->
                        LET items == ArrayItems(node)
                        IN  Block("[", "]",
                                  [i \in DOMAIN items |-> format[items[i]][depth + 1]],
                                  indent, depth)
                  [] OTHER -> node.tokens]
    IN  format

Indent(options) == IF options.insertSpaces THEN Repeat(<<" ">>, options.tabSize) ELSE <<"tab">>

\* reformat: the new text, or nothing when the document is empty.
Reformat(t, options) ==
    LET tree   == Parse(t)[1]
        values == RootValue(tree)
    IN  [i \in DOMAIN values |->
            FormatNode(tree, Indent(options))[values[i]][0]
                \o (IF options.finalNewline THEN <<"nl">> ELSE <<>>)]

\* The text once the client has applied the edits of a handler: none, or one.
Applied(t, edits) == IF edits = <<>> THEN t ELSE edits[1]

\* An edit is sent only if it changes something.
Changes(t, new) == IF new = <<t>> THEN <<>> ELSE new

\* Mutant of FormatDocument: recovered trees are formatted too.
FormatDespiteErrors(t, options) ==
    IF Parse(t) = <<>> THEN <<>> ELSE Changes(t, Reformat(t, options))

\* Mutant of FormatDocument: the edit is sent even if it changes nothing.
FormatAlways(t, options) == IF HasError(t) THEN <<>> ELSE Reformat(t, options)

FormatDocument(t, options) ==
    IF HasError(t) THEN <<>> ELSE Changes(t, Reformat(t, options))

\* The request; the client applies the edit at once.
Format(options) == text' = Applied(text, FormatDocument(text, options))
=============================================================================
