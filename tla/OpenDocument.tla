---------------------------- MODULE OpenDocument -----------------------------
(***************************************************************************)
(* The open document that the requests read (src/src/document.rs): as far  *)
(* as they are concerned its text, from which everything else is computed. *)
(***************************************************************************)
EXTENDS SyntaxTrees

VARIABLE text       \* Document::text

\* The text is one of some texts and is replaced by others of them, as opening, editing,
\* formatting and sorting do.
Edits(texts) == text \in texts /\ [][text' \in texts]_text
=============================================================================
