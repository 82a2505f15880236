---------------------------- MODULE FormattedText ----------------------------
(***************************************************************************)
(* What formatting promises about the open document.                       *)
(***************************************************************************)
EXTENDS Formatting, CollectedSymbols

\* The tokens formatting is to keep: those of the first value, but no comments.
Kept(t) ==
    LET values == RootValue(Parse(t)[1])
    IN  IF values = <<>> THEN <<>> ELSE Without(values[1].tokens, White \union Extras)

\* Formatting loses white space, comments and what follows the first value, but
\* no bracket, comma, spelling of a number or string, order or repetition of
\* keys; a text with a syntax error, a tolerated trailing comma included, it
\* leaves alone.
FormatKeepsTokens ==
    Idle =>
        \A options \in Options :
            LET new == Applied(text, FormatDocument(text, options))
            IN  IF HasError(text) \/ Kept(text) = <<>> THEN new = text
                ELSE Without(new, White) = Kept(text)
=============================================================================
