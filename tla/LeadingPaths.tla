----------------------------- MODULE LeadingPaths ----------------------------
(***************************************************************************)
(* What the requests at a cursor promise about the open document.  Paths   *)
(* of keys and indexes lead where they come from: what json_path makes of  *)
(* a value, resolve_pointer resolves to it.  And go-to-definition finds    *)
(* the references that the links of the document show.                     *)
(***************************************************************************)
EXTENDS Links, OpenDocument, CollectedSymbols

\* The addresses of the values that no ERROR node contains.
ValuePaths(tree) ==
    {path \in Paths(tree) :
        /\ path # <<>> /\ IsValueNode(NodeAt(tree, path))
        /\ NodeAt(tree, Front(path)).kind = "pair" => Last(path) # 1
        /\ \A k \in 1..Len(path) : NodeAt(tree, SubSeq(path, 1, k)).kind # "error"}

\* No object repeats a key, in whatever spelling.
KeysDistinct(tree) ==
    \A node \in Nodes(tree) : node.kind = "object" =>
        \A i, j \in {k \in DOMAIN node.children : node.children[k].kind = "pair"} :
            KeyOf(node.children[i]) = KeyOf(node.children[j]) => i = j

\* The path that hover shows for a value, and along which hover and completion find
\* its schema, leads go-to-definition to that value, past comments, errors, other
\* items and pairs.  Left out are later values of the document, repeated keys, and
\* the pointer "/", which leads to the whole document.
PathsLead ==
    Idle /\ Parse(text) # <<>> =>
        LET tree == Parse(text)[1]
        IN  KeysDistinct(tree) =>
                \A path \in ValuePaths(tree) :
                    JsonPath(tree, path) # <<EmptyString>>
                      /\ <<SubSeq(path, 1, 1)>> = RootValuePath(tree) =>
                        ResolvePointer(tree, JsonPath(tree, path)) = <<path>>

\* Go-to-definition and the links of the document agree: from every cursor on the
\* string of a "$ref", its quotes and its content alike, the definition is where the
\* pointer leads, and nowhere else is there a definition.
DefinitionsFound ==
    Idle /\ Parse(text) # <<>> =>
        LET tree  == Parse(text)[1]
            links == {link \in DocumentLinks(tree) : link.toDefinition}
            On(c) == {link \in links : LET node == NodeAt(tree, link.on)
                                       IN  Offset(text, c.at) \in node.start..(node.end - 1)}
            Target(link) == LET val == NodeAt(tree, link.on).tokens[1]
                            IN  IF val \in DOMAIN Fragment
                                THEN ResolvePointer(tree, Fragment[val]) ELSE <<>>
        IN  \A c \in Cursors(text) :
                /\ On(c) = {} => FindDefinition(text, tree, c) = <<>>
                /\ \A link \in On(c) : FindDefinition(text, tree, c) = Target(link)
=============================================================================
