----------------------------- MODULE SyntaxTrees -----------------------------
(***************************************************************************)
(* Texts and their syntax trees, as the requests on a document see them.   *)
(*                                                                         *)
(* A text is a sequence of tokens: brackets, ",", ":", strings, other      *)
(* scalars, white space and comments, of one byte each, and the marks that *)
(* the parser's error recovery leaves.  "error" and "junk" are bytes it    *)
(* skipped; "missing", "missing }" and "missing ]" are what it made up, of *)
(* no bytes; the tokens between "error(" and ")error" are those of an      *)
(* ERROR node, which are its children as they stand ("quote" and "content" *)
(* are those of a string that does not end), or, after "error(pair", those *)
(* of a pair in it.  The grammar is that of tree-sitter-json; Parse is     *)
(* tree-sitter on texts of that form.                                      *)
(***************************************************************************)
EXTENDS Integers, Sequences, SequencesExt, FiniteSets, FiniteSetsExt

CONSTANTS
    Strings,        \* tokens that are JSON strings
    Scalars,        \* tokens that are numbers, true, false or null
    StringValue     \* what a string token stands for; strings compare as numbers do

White    == {" ", "tab", "nl"}
Comments == {"comment", "comment:", "comment,"}     \* two hold a colon or a comma
Skipped  == {"error", "junk"}
Extras   == Comments \union Skipped
Leaves   == Strings \union Scalars \union {"missing"}
Marks    == {"error(", "error(pair", ")error"}
NoBytes  == {"missing", "missing }", "missing ]"} \union Marks

\* The tokens: a text is any sequence of them.
Tokens ==
    Strings \union Scalars \union White \union Extras \union NoBytes \union
        {"{", "}", "[", "]", ",", ":", "quote", "content"}

ASSUME TokensDisjoint ==
    (Strings \union Scalars) \intersect
        (White \union Extras \union NoBytes \union
         {"{", "}", "[", "]", ",", ":", "quote", "content"}) = {}

ASSUME StringValueType == StringValue \in [Strings -> Nat]

Container == [b \in {"{", "}", "[", "]"} |->
                IF b \in {"{", "}"} THEN "object" ELSE "array"]

\* The bytes before the i-th token.
Offset(text, i) == Cardinality({j \in 1..(i - 1) : text[j] \notin NoBytes})

Kind(token) ==
    CASE token \in Strings -> "string"
      [] token \in Scalars \union {"missing"} -> "number"
      [] token \in Comments -> "comment"
      [] token \in Skipped -> "error"
      [] token = "missing }" -> "}"
      [] token = "missing ]" -> "]"
      [] OTHER -> token

\* A node over the tokens first..last.
Node(text, kind, first, last, children) ==
    [kind |-> kind, start |-> Offset(text, first), end |-> Offset(text, last + 1),
     tokens |-> SubSeq(text, first, last), children |-> children]

Leaf(text, i) == Node(text, Kind(text[i]), i, i, <<>>)

-----------------------------------------------------------------------------
(* The parser.                                                             *)

\* An unfinished node: where it began, its children, and what may follow them.
\* "first" is a member or the closing bracket, "any" is any token, "end" means that
\* the node is complete.
Unfinished(kind, first, children, expect) ==
    [kind |-> kind, first |-> first, children |-> children, expect |-> expect]

\* What is expected after a value, or a pair, in a node of each kind.
AfterMember ==
    [document |-> "member", array |-> "comma", object |-> "comma", pair |-> "end",
     error |-> "any"]

\* A node gets a child, and something else may follow.
WithChild(frame, node, expect) ==
    Unfinished(frame.kind, frame.first, Append(frame.children, node), expect)

\* The innermost node gets a child.
Put(frames, node, expect) == Append(Front(frames), WithChild(Last(frames), node, expect))

PutMember(frames, node) == Put(frames, node, AfterMember[Last(frames).kind])

\* The innermost node, if it is complete at the i-th token, is a child of the next.
Settle(text, i, frames) ==
    LET top == Last(frames)
    IN  IF top.expect = "end"
        THEN PutMember(Front(frames), Node(text, top.kind, top.first, i, top.children))
        ELSE frames

\* An ERROR node ends before the i-th token, which is its closing mark.
PutError(text, i, frames) ==
    LET top == Last(frames)
    IN  Put(Front(frames), Node(text, "error", top.first + 1, i - 1, top.children),
            Last(Front(frames)).expect)

\* The frames after the i-th token, or none at an error.  Comments, skipped bytes
\* and ERROR nodes become children of the node they are in; an ERROR node is there only
\* for bytes.
ShiftLeaf(text, i, frames, top, leaf) ==
    LET token  == text[i]
        member == top.expect \in {"first", "member"}
        keyed  == top.kind \in {"object", "error"}
    IN  CASE token \in White  -> frames
          [] token \in Extras -> Put(frames, leaf, top.expect)
          [] token = "error(" -> Append(frames, Unfinished("error", i, <<>>, "any"))
          [] token = "error(pair" -> Append(frames, Unfinished("error", i, <<>>, "member"))
          [] top.expect = "any" /\ token = ")error" /\ Offset(text, top.first) < Offset(text, i) ->
                PutError(text, i, frames)
          [] top.expect = "any" /\ token \notin White \union Extras \union Marks ->
                Put(frames, leaf, "any")
          [] member /\ keyed /\ token \in Strings \union {"missing"} ->
                Append(frames, Unfinished("pair", i, <<leaf>>, "colon"))
          [] member /\ ~keyed /\ token \in Leaves -> PutMember(frames, leaf)
          [] member /\ ~keyed /\ token \in {"{", "["} ->
                Append(frames, Unfinished(Container[token], i, <<leaf>>, "first"))
          [] token = ":" /\ top.expect = "colon" -> Put(frames, leaf, "member")
          [] token = "," /\ top.expect = "comma" -> Put(frames, leaf, "member")
          [] leaf.kind \in {"}", "]"} /\ top.kind = Container[leaf.kind]
                /\ top.expect \in {"first", "comma"} -> Put(frames, leaf, "end")
          [] OTHER -> <<>>

\* A container that ends may complete a pair.
SettleTwice(text, i, frames) ==
    IF frames = <<>> THEN <<>> ELSE Settle(text, i, Settle(text, i, frames))

Shift(text, i, frames) ==
    IF frames = <<>> THEN <<>>
    ELSE SettleTwice(text, i, ShiftLeaf(text, i, frames, Last(frames), Leaf(text, i)))

\* The document is what remains, if all else is complete.
Document(text, frames) ==
    IF Len(frames) = 1
    THEN <<Node(text, "document", 1, Len(text), frames[1].children)>>
    ELSE <<>>

\* The tree of a text, or nothing if the text has another form.
Parse(text) ==
    LET frames[i \in 0..Len(text)] ==
            IF i = 0 THEN <<Unfinished("document", 1, <<>>, "member")>>
            ELSE Shift(text, i, frames[i - 1])
    IN  Document(text, frames[Len(text)])

EmptyDocument == Parse(<<>>)[1]

HasError(text) ==
    \/ Parse(text) = <<>>
    \/ \E i \in DOMAIN text : text[i] \in Skipped \union NoBytes

-----------------------------------------------------------------------------
(* Nodes (tree.rs).                                                        *)

IsValueNode(node) == node.kind \in {"object", "array", "string", "number"}

PairKey(pair) == Head(pair.children)

PairValue(pair) == Last(pair.children)

\* The elements that pass a test: SelectSeq by a definition, for the proofs.
Chosen(s, Test(_)) == FlattenSeq([i \in DOMAIN s |-> IF Test(s[i]) THEN <<s[i]>> ELSE <<>>])

ObjectPairs(object) == Chosen(object.children, LAMBDA n : n.kind = "pair")

ArrayItems(array) == Chosen(array.children, IsValueNode)

\* A text without the tokens of a set.
Without(s, set) == Chosen(s, LAMBDA token : token \notin set)

\* root_value: the first value of the document, or nothing.
RootValue(root) ==
    LET values == {i \in DOMAIN root.children : IsValueNode(root.children[i])}
    IN  IF values = {} THEN <<>> ELSE <<root.children[Min(values)]>>

\* The nodes of a tree, level by level.
Nodes(root) ==
    LET level[k \in 0..(Len(root.tokens) + 1)] ==
            IF k = 0 THEN {root}
            ELSE UNION {ToSet(node.children) : node \in level[k - 1]}
    IN  UNION {level[k] : k \in DOMAIN level}

\* What tree-sitter promises: the children of a node follow each other within it, those
\* of a container come after its opening bracket, and a pair has a key.
WellFormed(root) ==
    /\ root \in Nodes(root)
    /\ \A node \in Nodes(root) :
          /\ node.start \in Nat /\ node.end \in Nat /\ node.start <= node.end
          /\ node.children \in Seq(Nodes(root))
          /\ \A i \in DOMAIN node.children :
                /\ node.start <= node.children[i].start
                /\ node.children[i].end <= node.end
                /\ \A j \in 1..(i - 1) : node.children[j].end <= node.children[i].start
          /\ node.kind \in {"object", "array"} =>
                /\ node.start < node.end
                /\ \A i \in DOMAIN node.children :
                      node.children[i].kind \in {"object", "array", "pair"} =>
                          node.start < node.children[i].start
          /\ node.kind = "pair" => node.children # <<>>

\* What its grammar promises: which nodes have children, and which ones.  The first
\* child of a pair is its key; a value in it is that or its last child, which begins
\* after the beginnings of the others.
Grammatical(root) ==
    /\ root.kind = "document"
    /\ \A node \in Nodes(root) :
          /\ node.children # <<>> =>
                node.kind \in {"document", "object", "array", "pair", "error"}
          /\ node.kind = "string" => node.start < node.end
          /\ node.kind = "pair" =>
                /\ Len(node.children) > 1 /\ node.children[1].kind \in {"string", "number"}
                /\ \A i \in 1..(Len(node.children) - 1) :
                      node.children[i].start < Last(node.children).start
          /\ \A i \in DOMAIN node.children :
                LET child == node.children[i]
                IN  /\ child.kind # "document"
                    /\ child.kind = "pair" => node.kind \in {"object", "error"}
                    /\ IsValueNode(child) =>
                          /\ node.kind # "object"
                          /\ node.kind = "pair" => i \in {1, Len(node.children)}
=============================================================================
