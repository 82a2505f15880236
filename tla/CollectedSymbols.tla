-------------------------- MODULE CollectedSymbols ---------------------------
(***************************************************************************)
(* The symbols of a document as document_symbols collects them             *)
(* (src/src/symbols.rs), from the children up.  This is what the writer of *)
(* Symbols, which works through the tree from the front, is to write.      *)
(*                                                                         *)
(* Names, details and ranges of a symbol are its nodes; the JSON of a list *)
(* is a sequence of symbols and of the brackets and commas between them.   *)
(***************************************************************************)
EXTENDS SyntaxTrees

VARIABLES
    root,       \* the root node of the document asked for
    phase,      \* where write_object_children or write_array_children is, or
                \* "idle" between requests
    calls,      \* their activations, the innermost last
    cursor,     \* the node the cursor was reset to, and the child it is at, or 0
    buf         \* what has been written

\* No symbols are being written; only then do requests begin and texts change.
Idle == phase = "idle"

-----------------------------------------------------------------------------
(* The symbols, collected.                                                 *)

\* string_content_fast: an empty node has no content.
HasContent(node) == node.start < node.end

\* A list of symbols is represented by its JSON, without the outer brackets.  The
\* symbol of a value has children if the value is a container, then perhaps none.
Children(lists, val) ==
    IF val.kind \in {"object", "array"} THEN <<"[">> \o lists[val] \o <<"]">> ELSE <<>>

\* One round of the loop in collect_object or collect_array.  Pairs without a key are
\* left out; items have their index as name.
Collect(lists, node, child, before) ==
    LET Push(name, val) ==
            [result |-> before.result
                \o (IF before.index = 0 THEN <<>> ELSE <<",">>)
                \o <<[name |-> name, node |-> child]>> \o Children(lists, val) \o <<"}">>,
             index |-> before.index + 1]
    IN  CASE node.kind = "object" /\ child.kind = "pair" /\ HasContent(PairKey(child)) ->
                Push(PairKey(child).tokens, PairValue(child))
          [] node.kind = "array" /\ IsValueNode(child) -> Push(before.index, child)
          [] OTHER -> before

\* The symbols after each round, and how many they are.
Rounds(lists, node) ==
    LET after[i \in 0..Len(node.children)] ==
            IF i = 0 THEN [result |-> <<>>, index |-> 0]
            ELSE Collect(lists, node, node.children[i], after[i - 1])
    IN  after

Collected(tree) ==
    LET lists[node \in Nodes(tree)] == Rounds(lists, node)[Len(node.children)].result
    IN  lists

DocumentSymbols(tree) ==
    LET values == RootValue(tree)
    IN  IF values # <<>> /\ values[1].kind \in {"object", "array"}
        THEN Children(Collected(tree), values[1])
        ELSE <<"[", "]">>

-----------------------------------------------------------------------------
\* At every moment what has been written is the beginning of the JSON of
\* document_symbols: no symbol is left out, repeated or misplaced by the cursor
\* that the nested calls share, and no comma or bracket is wrong.
WritesTheSymbols ==
    /\ phase # "idle" => IsPrefix(buf, DocumentSymbols(root))
    /\ phase = "done" => buf = DocumentSymbols(root)
=============================================================================
