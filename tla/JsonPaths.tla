------------------------------ MODULE JsonPaths ------------------------------
(***************************************************************************)
(* The path of keys and indexes that leads to a node (json_path of         *)
(* src/src/tree.rs), and the node that such a path leads to                *)
(* (resolve_pointer of src/src/links.rs).                                  *)
(*                                                                         *)
(* A node is addressed by the indexes of children that lead to it from the *)
(* root.  A segment of a path is the value of a string.                    *)
(***************************************************************************)
EXTENDS SyntaxTrees

CONSTANT Numeral    \* what the string stands for that spells an index

ASSUME NumeralType ==
    /\ DOMAIN Numeral \subseteq Nat
    /\ \A i \in DOMAIN Numeral : Numeral[i] \in Nat \ {0}
    /\ IsInjective(Numeral)

EmptyString == 0    \* the value of the string without characters

\* The node at an address.
NodeAt(root, path) ==
    LET node[k \in 0..Len(path)] == IF k = 0 THEN root ELSE node[k - 1].children[path[k]]
    IN  node[Len(path)]

\* The addresses of all nodes, level by level.
Paths(root) ==
    LET level[k \in 0..Len(root.tokens) + 1] ==
            IF k = 0 THEN {<<>>}
            ELSE UNION {{Append(path, i) : i \in DOMAIN NodeAt(root, path).children} :
                            path \in level[k - 1]}
    IN  UNION {level[k] : k \in DOMAIN level}

-----------------------------------------------------------------------------
(* The path to a node.                                                     *)

\* The key of a pair, unescaped; one that error recovery made up is empty.
KeyOf(pair) ==
    LET key == PairKey(pair).tokens[1]
    IN  IF key \in Strings THEN StringValue[key] ELSE EmptyString

\* The number of array items before a child.
IndexOf(array, i) == Cardinality({j \in 1..(i - 1) : IsValueNode(array.children[j])})

\* Mutant of Segment: comments and errors count as items.
SegmentOfNamed(parent, i) ==
    CASE parent.kind = "pair"  -> <<KeyOf(parent)>>
      [] parent.kind = "array" ->
            <<Numeral[Cardinality({j \in 1..(i - 1) : parent.children[j].kind \notin {"[", ","}})]>>
      [] OTHER -> <<>>

\* What the step to the i-th child of a node adds to the path.
Segment(parent, i) ==
    CASE parent.kind = "pair"  -> <<KeyOf(parent)>>
      [] parent.kind = "array" -> <<Numeral[IndexOf(parent, i)]>>
      [] OTHER -> <<>>

\* json_path collects the segments from the node upwards and reverses them.
JsonPath(root, path) ==
    LET segments[k \in 0..Len(path)] ==
            IF k = 0 THEN <<>>
            ELSE segments[k - 1] \o Segment(NodeAt(root, SubSeq(path, 1, k - 1)), path[k])
    IN  segments[Len(path)]

-----------------------------------------------------------------------------
(* The node at the end of a path.                                          *)

\* The path to the first value of the document, or nothing.
RootValuePath(root) ==
    LET values == {i \in DOMAIN root.children : IsValueNode(root.children[i])}
    IN  IF values = {} THEN <<>> ELSE <<<<Min(values)>>>>

\* One segment of resolve_pointer: the value of the first pair with that key, or
\* the item with that index.
ResolveSegment(root, found, segment) ==
    IF found = <<>> THEN <<>>
    ELSE LET node  == NodeAt(root, found[1])
             pairs == {i \in DOMAIN node.children :
                         node.children[i].kind = "pair" /\ KeyOf(node.children[i]) = segment}
             items == {i \in DOMAIN node.children :
                         /\ IsValueNode(node.children[i])
                         /\ IndexOf(node, i) \in DOMAIN Numeral
                         /\ Numeral[IndexOf(node, i)] = segment}
         IN  CASE node.kind = "object" /\ pairs # {} ->
                    <<found[1] \o <<Min(pairs), Len(node.children[Min(pairs)].children)>>>>
               [] node.kind = "array" /\ items # {} -> <<Append(found[1], Min(items))>>
               [] OTHER -> <<>>

\* The path to the node a pointer leads to, or nothing.  The first "/" is cut off,
\* and what remains of "/" is the pointer to the whole.
ResolvePointer(root, segments) ==
    LET found[k \in 0..Len(segments)] ==
            IF k = 0 THEN RootValuePath(root)
            ELSE ResolveSegment(root, found[k - 1], segments[k])
    IN  IF segments = <<EmptyString>> THEN RootValuePath(root) ELSE found[Len(segments)]

=============================================================================
