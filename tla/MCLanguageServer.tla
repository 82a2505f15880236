-------------------------- MODULE MCLanguageServer ---------------------------
(* Instances of LanguageServer for TLC. *)
EXTENDS ServerProperties, TLC

CONSTANTS u1, u2, s1, s2, s3

\* A text with a syntax error, one that leaves its schema to the
\* configuration and one that names its schema.
MCTexts ==
    {[clean |-> FALSE, inline |-> None],
     [clean |-> TRUE, inline |-> None],
     [clean |-> TRUE, inline |-> s1]}

\* Two documents: no association, or one schema for both.
MCSettings == {<<>>, <<[fileMatch |-> {u1, u2}, uri |-> s1]>>}

\* Nothing tells the two documents apart.
Documents == Permutations({u1, u2})

\* One document that moves between three schemas, more than the cache holds.
CacheTexts == [clean : {TRUE}, inline : {None, s1, s2, s3}]

\* The first matching association wins over a second one.
CacheSettings ==
    {<<[fileMatch |-> {u1}, uri |-> s1], [fileMatch |-> {u1}, uri |-> s2]>>,
     <<[fileMatch |-> {}, uri |-> s1], [fileMatch |-> {u1}, uri |-> s3]>>}
=============================================================================
