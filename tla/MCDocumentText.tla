--------------------------- MODULE MCDocumentText ----------------------------
(* An instance of DocumentText for TLC. *)
EXTENDS DocumentText

\* Nothing, a narrow character, one of two units, and a line break before one of
\* one unit and two bytes; deletions leave either of these alone.
MCInserts == {<<>>, <<"a">>, <<"g">>, <<"n", "e">>}
=============================================================================
