-------------------------------- MODULE Links --------------------------------
(***************************************************************************)
(* Links in a document and the definition a reference leads to             *)
(* (src/src/links.rs).                                                     *)
(***************************************************************************)
EXTENDS Cursors

CONSTANTS
    RefKey,     \* the spelling of "$ref"
    Urls,       \* strings that begin with http:// or https://
    Fragment    \* of the strings that begin with "#": the segments of the pointer

ASSUME LinksType ==
    /\ RefKey \in Strings /\ Urls \subseteq Strings
    /\ DOMAIN Fragment \subseteq Strings \ (Urls \union {RefKey})

IsRef(pair) == PairKey(pair).tokens = <<RefKey>>

\* What collect_links looks at: the value of a pair, and whether it is a link.
PairValueAt(root, path) == Append(path, Len(NodeAt(root, path).children))

IsLink(pair) ==
    LET val == PairValue(pair)
    IN  val.kind = "string" /\ (IsRef(pair) \/ val.tokens[1] \in Urls)

\* collect_links: values that are strings, under "$ref" whatever they are, elsewhere
\* if they are URLs.
DocumentLinks(root) ==
    {LET pair == NodeAt(root, path)
     IN  [on           |-> PairValueAt(root, path),
          toDefinition |-> IsRef(pair),
          url          |-> PairValue(pair).tokens[1] \in Urls] :
        path \in {p \in Paths(root) : NodeAt(root, p).kind = "pair" /\ IsLink(NodeAt(root, p))}}

\* Mutant of RefString: only the quotes of the string count.
RefStringItself(found) == IF found.content THEN <<>> ELSE <<found.path>>

\* From the content of a string to the string.
RefString(found) == <<found.path>>

\* find_definition: the path to the target, or nothing.
FindDefinition(text, root, cursor) ==
    LET found == RefString(NodeAtOffset(text, root, cursor))
        path  == found[1]
        pair  == NodeAt(root, Front(path))
        val   == NodeAt(root, path).tokens[1]
    IN  IF /\ found # <<>>
           /\ path # <<>>
           /\ NodeAt(root, path).kind = "string"
           /\ pair.kind = "pair" /\ IsRef(pair)
           /\ val \in DOMAIN Fragment
        THEN ResolvePointer(root, Fragment[val])
        ELSE <<>>
=============================================================================
