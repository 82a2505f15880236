-------------------------- MODULE CompletionContext --------------------------
(***************************************************************************)
(* What is to be completed at a cursor: determine_context of               *)
(* src/src/completion.rs.  It looks at the node there and, in an object, at*)
(* the text before the cursor.                                             *)
(***************************************************************************)
EXTENDS Cursors

\* The strings with a colon, comma or opening brace in them, by the last of these.
CONSTANTS WithColon, WithSeparator

ASSUME WithColonType ==
    /\ WithColon \subseteq Strings /\ WithSeparator \subseteq Strings
    /\ WithColon \intersect WithSeparator = {}

Colons     == {":", "comment:"} \union WithColon
Separators == {",", "{", "comment,"} \union WithSeparator

NoContext == [kind |-> "none"]
Name(object) == [kind |-> "name", in |-> object]
Value(object, key, hasValue) ==
    [kind |-> "value", in |-> object, key |-> key, hasValue |-> hasValue]
Item(array, index) == [kind |-> "item", in |-> array, index |-> index]

\* rfind: the last token before the cursor that contains one of these, or 0.
LastOf(text, cursor, tokens) ==
    Max({0} \union {i \in 1..(cursor.at - 1) : text[i] \in tokens})

\* find_key_at_colon: of the pairs whose colon is not after the one of the text, the
\* key of the nearest, or nothing.
FindKeyAtColon(text, object, colon) ==
    LET Colon(pair) == pair.children[SelectInSeq(pair.children, LAMBDA n : n.kind = ":")]
        pairs == SelectSeq(ObjectPairs(object),
                           LAMBDA p : Colon(p).start <= Offset(text, colon))
    IN  IF pairs = <<>> THEN <<>> ELSE <<KeyOf(Last(pairs))>>

\* Mutant of InObject: a comma does not end the value before it.
InObjectDespiteComma(text, root, path, cursor) ==
    LET colon == LastOf(text, cursor, Colons)
        key   == FindKeyAtColon(text, NodeAt(root, path), colon)
    IN  IF colon > LastOf(text, cursor, Separators \ {","}) /\ key # <<>>
        THEN Value(path, key[1], FALSE)
        ELSE Name(path)

\* White space or punctuation of an object: a value if a colon is nearer than a comma
\* or an opening brace, wherever in the text they are.
InObject(text, root, path, cursor) ==
    LET colon == LastOf(text, cursor, Colons)
        key   == FindKeyAtColon(text, NodeAt(root, path), colon)
    IN  IF colon > LastOf(text, cursor, Separators) /\ key # <<>>
        THEN Value(path, key[1], FALSE)
        ELSE Name(path)

\* A string that is a key or a value, at one of its quotes.
AtString(root, path) ==
    LET pair == NodeAt(root, Front(path))
    IN  CASE pair.kind # "pair" -> NoContext
          [] pair.kind = "pair" /\ Last(path) = 1 -> Name(Front(Front(path)))
          [] OTHER -> Value(Front(Front(path)), KeyOf(pair), TRUE)

\* Any other node: its parent tells.
AtLeaf(root, path) ==
    LET parent == NodeAt(root, Front(path))
        node   == NodeAt(root, path)
    IN  CASE path = <<>> -> NoContext
          [] path # <<>> /\ parent.kind = "pair" ->
                Value(Front(Front(path)), KeyOf(parent), TRUE)
          [] path # <<>> /\ parent.kind = "array" ->
                Item(Front(path), IF IsValueNode(node) THEN IndexOf(parent, Last(path)) ELSE 0)
          [] OTHER -> NoContext

\* What the node found at the cursor tells.
ContextOf(text, root, path, node, cursor) ==
    CASE node.kind = "object" -> InObject(text, root, path, cursor)
      [] node.kind = "array"  -> Item(path, Len(ArrayItems(node)))
      [] node.kind = "string" -> AtString(root, path)
      [] node.kind = "pair"   -> Value(Front(path), KeyOf(node), FALSE)
      [] OTHER                -> AtLeaf(root, path)

\* A pair within an ERROR node has no object.
InDocument(root, ctx) ==
    IF ctx.kind \in {"name", "value"} /\ NodeAt(root, ctx.in).kind # "object"
    THEN NoContext ELSE ctx

\* The content of a string is no node that has a context.
ContextFound(text, root, found, cursor) ==
    IF found.content THEN NoContext
    ELSE InDocument(root, ContextOf(text, root, found.path, NodeAt(root, found.path), cursor))

DetermineContext(text, root, cursor) ==
    ContextFound(text, root, NodeAtOffset(text, root, cursor), cursor)
=============================================================================
