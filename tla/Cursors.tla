------------------------------- MODULE Cursors -------------------------------
(***************************************************************************)
(* Where a request at a cursor is: the node at the cursor (node_at_offset  *)
(* of src/src/tree.rs).                                                    *)
(*                                                                         *)
(* A cursor is before a token, or inside it if that is a string:           *)
(* [at |-> token, inside |-> b].  The content of a string is a child of    *)
(* the string in tree-sitter; here it is the string with content |-> TRUE. *)
(***************************************************************************)
EXTENDS JsonPaths

Cursors(text) ==
    {[at |-> i, inside |-> FALSE] : i \in 1..(Len(text) + 1)} \union
    {[at |-> i, inside |-> TRUE] : i \in {j \in DOMAIN text : text[j] \in Strings}}

-----------------------------------------------------------------------------
(* tree-sitter.                                                            *)

Anonymous == {"{", "}", "[", "]", ",", ":", "quote"}

\* The first child that ends after the byte, or at it if the child is empty; the
\* search goes on there if the child does not begin after the byte.
ChildAt(node, byte) ==
    LET reach == {i \in DOMAIN node.children :
                    LET child == node.children[i]
                    IN  IF child.start = child.end THEN child.end >= byte ELSE child.end > byte}
    IN  IF reach # {} /\ node.children[Min(reach)].start <= byte THEN Min(reach) ELSE 0

\* One step of the search, if there is one to a named node.
Descend(root, path, byte) ==
    LET node == NodeAt(root, path)
        i    == ChildAt(node, byte)
    IN  IF i = 0 \/ node.children[i].kind \in Anonymous THEN path ELSE Append(path, i)

\* The path to the innermost named node; no node is deeper than it has tokens.
DescendantAt(root, byte) ==
    LET path[k \in 0..(Len(root.tokens) + 1)] ==
            IF k = 0 THEN <<>> ELSE Descend(root, path[k - 1], byte)
    IN  path[Len(root.tokens) + 1]

NodeAtOffset(text, root, cursor) ==
    LET path == DescendantAt(root, Offset(text, cursor.at))
    IN  [path |-> path, content |-> cursor.inside /\ NodeAt(root, path).kind = "string"]
=============================================================================
