------------------------------- MODULE Symbols -------------------------------
(***************************************************************************)
(* Document symbols (src/src/symbols.rs).  document_symbols builds them as *)
(* a tree; write_document_symbols, which the server uses, writes their     *)
(* JSON in one pass, with one tree cursor that all the nested calls share  *)
(* and that each of them has to put back for its caller.                   *)
(*                                                                         *)
(* Names, details and ranges of a symbol are its nodes; the buffer is a    *)
(* sequence of symbols and of the brackets and commas between them.        *)
(***************************************************************************)
EXTENDS CollectedSymbols

vars == <<root, phase, calls, cursor, buf>>

-----------------------------------------------------------------------------
(* The tree cursor of tree-sitter.                                         *)

Current == cursor.parent.children[cursor.child]

AtFirstChild(node) ==
    [parent |-> node, child |-> IF node.children = <<>> THEN 0 ELSE 1]

\* goto_first_child_for_byte: the first child that ends after the byte.
FirstChildForByte(node, byte) ==
    LET past == {i \in DOMAIN node.children : node.children[i].end > byte}
    IN  [parent |-> node, child |-> IF past = {} THEN 0 ELSE Min(past)]

\* goto_next_sibling: nothing happens at the last child, or above the children.
HasNext == cursor.child \in 1..(Len(cursor.parent.children) - 1)

-----------------------------------------------------------------------------
(* The writer.                                                             *)

Call(node, restore) == [node |-> node, first |-> TRUE, index |-> 0, restore |-> restore]

Frame == Last(calls)

WithFrame(frame) == Append(Front(calls), frame)

\* A call has written the beginning of a symbol, and a symbol is complete.
Began(frame) == [frame EXCEPT !.first = FALSE]

Counted(frame) == [frame EXCEPT !.index = @ + 1]

\* The beginning of write_object_children or write_array_children for a container.
Enter(callers, node, restore) ==
    /\ calls' = Append(callers, Call(node, restore))
    /\ cursor' = AtFirstChild(node)
    /\ phase' = IF node.children = <<>> THEN "return" ELSE "visit"

Init ==
    /\ root = EmptyDocument
    /\ phase = "idle"
    /\ calls = <<>>
    /\ cursor = AtFirstChild(EmptyDocument)
    /\ buf = <<>>

\* write_document_symbols, for the tree of the document.
Start(tree) ==
    /\ phase = "idle"
    /\ root' = tree
    /\ LET values == RootValue(tree)
       IN  IF values # <<>> /\ values[1].kind \in {"object", "array"}
           THEN /\ buf' = <<"[">>
                /\ Enter(<<>>, values[1], 0)
           ELSE /\ buf' = <<"[", "]">>
                /\ phase' = "done"
                /\ UNCHANGED <<calls, cursor>>

\* A symbol for a pair or an item; a container is written by a call of its own.
Symbol(name, node, value) ==
    LET head == (IF Frame.first THEN <<>> ELSE <<",">>)
                    \o <<[name |-> name, node |-> node]>>
    IN  IF value.kind \in {"object", "array"}
        THEN /\ buf' = buf \o head \o <<"[">>
             /\ Enter(WithFrame(Began(Frame)), value, node.start)
        ELSE /\ buf' = buf \o head \o <<"}">>
             /\ calls' = WithFrame(Counted(Began(Frame)))
             /\ phase' = "next"
             /\ UNCHANGED cursor

\* One child of the innermost container.
Visit ==
    /\ phase = "visit"
    /\ IF Frame.node.kind = "object" /\ Current.kind = "pair" /\ HasContent(PairKey(Current))
       THEN Symbol(PairKey(Current).tokens, Current, PairValue(Current))
       ELSE IF Frame.node.kind = "array" /\ IsValueNode(Current)
       THEN Symbol(Frame.index, Current, Current)
       ELSE phase' = "next" /\ UNCHANGED <<calls, cursor, buf>>
    /\ UNCHANGED root

\* Mutant of NextSibling: the loop does not end at the last child.
NextSiblingForever ==
    /\ phase = "next"
    /\ IF HasNext THEN cursor' = [cursor EXCEPT !.child = @ + 1] ELSE UNCHANGED cursor
    /\ phase' = IF HasNext THEN "visit" ELSE "next"
    /\ UNCHANGED <<root, calls, buf>>

NextSibling ==
    /\ phase = "next"
    /\ IF HasNext THEN cursor' = [cursor EXCEPT !.child = @ + 1] ELSE UNCHANGED cursor
    /\ phase' = IF HasNext THEN "visit" ELSE "return"
    /\ UNCHANGED <<root, calls, buf>>

\* Mutant of RestoredCursor: the caller goes on where the call has left the cursor.
CursorLeft(parent, restoreByte) == cursor

\* write_children puts the cursor back to the caller's child.
RestoredCursor(parent, restoreByte) == FirstChildForByte(parent, restoreByte)

\* The end of a call.
Return ==
    /\ phase = "return"
    /\ IF Len(calls) = 1
       THEN /\ buf' = Append(buf, "]")
            /\ calls' = <<>>
            /\ phase' = "done"
            /\ UNCHANGED cursor
       ELSE LET caller == calls[Len(calls) - 1]
            IN  /\ buf' = buf \o <<"]", "}">>
                /\ calls' = Append(SubSeq(calls, 1, Len(calls) - 2), Counted(caller))
                /\ cursor' = RestoredCursor(caller.node, Frame.restore)
                /\ phase' = "next"
    /\ UNCHANGED root

\* on_document_symbol sends what has been written.
Send ==
    /\ phase = "done"
    /\ root' = EmptyDocument
    /\ phase' = "idle"
    /\ cursor' = AtFirstChild(EmptyDocument)
    /\ buf' = <<>>
    /\ UNCHANGED calls

Step == Visit \/ NextSibling \/ Return \/ Send

=============================================================================
