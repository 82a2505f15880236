-------------------------- MODULE SyntaxDiagnostics --------------------------
(***************************************************************************)
(* Syntax errors and duplicate keys (src/src/diagnostics.rs), read off the *)
(* ERROR and MISSING nodes of error recovery.                              *)
(*                                                                         *)
(* A diagnostic is the node it points at and what it says; where the range *)
(* is one end of the node or goes on to the end of its parent is left out. *)
(***************************************************************************)
EXTENDS Cursors

CONSTANT JunkWidths     \* the bytes of each character of the token "junk"

ASSUME JunkWidthsType == JunkWidths \in Seq(1..4)

IsErrorNode(node) == node.kind = "error"

IsMissing(node) == Len(node.tokens) = 1 /\ node.tokens[1] \in NoBytes

\* node_text, without the white space and marks within.
NodeText(node) == SelectSeq(node.tokens, LAMBDA t : t \notin White \union NoBytes)

\* The siblings of a node, nearest first; none at the end.
Before(root, path) == Reverse(SubSeq(NodeAt(root, Front(path)).children, 1, Last(path) - 1))

After(root, path) ==
    LET all == NodeAt(root, Front(path)).children IN SubSeq(all, Last(path) + 1, Len(all))

\* is_some_and on the first of them.
Next1(siblings, Test(_)) == siblings # <<>> /\ Test(siblings[1])

-----------------------------------------------------------------------------
(* What is not reported.                                                   *)

\* Mutant of IsTrailingCommaError: nothing has to come before the comma.
IsCommaBeforeClose(root, path) ==
    /\ NodeText(NodeAt(root, path)) = <<",">>
    /\ Next1(After(root, path), LAMBDA s : s.kind \in {"}", "]"})

\* One comma between an element, or a comma, and a closing bracket.
IsTrailingCommaError(root, path) ==
    /\ NodeText(NodeAt(root, path)) = <<",">>
    /\ Next1(After(root, path), LAMBDA s : s.kind \in {"}", "]"})
    /\ Next1(Before(root, path), LAMBDA s : s.kind \in {"pair", ","} \/ IsValueNode(s))

\* A value made up between a comma after a value and a closing bracket.
IsTrailingCommaMissing(root, path) ==
    LET before == Before(root, path)
    IN  /\ Next1(before, LAMBDA s : s.kind = ",")
        /\ Next1(After(root, path), LAMBDA s : s.kind = "]")
        /\ Next1(Tail(before), IsValueNode)

\* Mutant of IsOrphanCloseBracket: the opening bracket is not looked for.
IsCloseBracket(root, path) == NodeText(NodeAt(root, path)) \in {<<"}">>, <<"]">>}

\* A closing bracket whose opening bracket is in an ERROR node before it.
IsOrphanCloseBracket(root, path) ==
    LET text == NodeText(NodeAt(root, path))
        open == IF text = <<"}">> THEN "{" ELSE "["
    IN  /\ text \in {<<"}">>, <<"]">>}
        /\ \E s \in ToSet(Before(root, path)) :
              IsErrorNode(s) /\ \E c \in ToSet(s.children) : c.kind = open

-----------------------------------------------------------------------------
(* Messages.                                                               *)

\* &text[..20]: the characters up to the first 20 bytes, if they end there.
Truncated(widths) ==
    LET end(n) == FoldLeft(+, 0, SubSeq(widths, 1, n))
    IN  IF \E n \in DOMAIN widths : end(n) = 20 THEN "unexpected text" ELSE "panic"

\* The text that is shown when nothing else is known.
Fallback(node) ==
    LET bytes  == SelectSeq(node.tokens, LAMBDA t : t \notin NoBytes)
        widths == FlattenSeq([i \in DOMAIN bytes |->
                                IF bytes[i] = "junk" THEN JunkWidths ELSE <<1>>])
    IN  IF FoldLeft(+, 0, widths) <= 20 THEN "unexpected text" ELSE Truncated(widths)

\* describe_error: the first of these rules that applies.  A rule points at a child,
\* at a sibling or, with child 0, at the node.
DescribeError(root, path) ==
    LET node    == NodeAt(root, path)
        kids    == node.children
        First(Test(_)) == SelectInSeq(kids, Test)
        At(kind) == First(LAMBDA n : n.kind = kind)
        open    == At("{") # 0 \/ At("[") # 0
        colon   == At(":")
        error   == First(IsErrorNode)
        Word(i) == i # 0 /\ NodeText(kids[i]) = <<"error">>
        next    == Next1(After(root, path), LAMBDA s : s.kind = "pair")
        Between(s) == IsValueNode(s) \/ s.kind = ","
        rules   ==
            <<<<open /\ At("quote") # 0,                 At("quote"), "unterminated string">>,
              <<error < colon /\ Word(error),            error, "key not quoted">>,
              <<colon # 0 /\ At("number") \in 1..colon,  At("number"), "key not quoted">>,
              <<colon # 0 /\ At("string") \in 1..colon,  colon, "expected a value">>,
              <<colon # 0,                               colon, "expected a property name">>,
              <<open /\ Word(error),                     error, "key not quoted">>,
              <<At("string") # 0 /\ First(LAMBDA n : IsValueNode(n) /\ n.kind # "string") # 0,
                                                         At("string"), "expected a colon">>,
              <<At("pair") # 0 /\ next,                  -1, "expected a comma">>,
              <<At("pair") # 0,                          0, "expected a comma">>,
              <<NodeText(node) \in {<<"}">>, <<"]">>},   0, "unexpected bracket">>,
              <<kids # <<>> /\ ToSet([i \in DOMAIN kids |-> kids[i].kind]) = {","}
                    /\ NodeAt(root, Front(path)).kind = "array"
                    /\ Next1(Before(root, path), Between) /\ Next1(After(root, path), Between),
                                                         0, "expected a value">>,
              <<kids # <<>> /\ ToSet([i \in DOMAIN kids |-> kids[i].kind]) = {","},
                                                         0, "unexpected comma">>,
              <<TRUE,                                    0, Fallback(node)>>>>
        rule    == rules[SelectInSeq(rules, LAMBDA r : r[1])]
    IN  [at |-> CASE rule[2] > 0 -> Append(path, rule[2])
                  [] rule[2] = 0 -> path
                  [] OTHER       -> Append(Front(path), Last(path) + 1),
         message |-> rule[3]]

DescribeMissing(root, path) ==
    LET parent == NodeAt(root, Front(path)).kind
    IN  [at |-> path,
         message |-> CASE NodeAt(root, path).kind \in {"}", "]"} -> "expected a bracket"
                       [] NodeAt(root, path).kind \notin {"}", "]"} /\ parent = "array" ->
                            "expected a value or a bracket"
                       [] parent = "pair" /\ Last(path) = 1 -> "expected a property name"
                       [] OTHER -> "expected a value"]

-----------------------------------------------------------------------------
\* collect_errors: what is in an ERROR node is reported with it.
SyntaxErrors(root) ==
    LET RECURSIVE Collect(_)
        Collect(path) ==
            LET node == NodeAt(root, path)
            IN  CASE IsErrorNode(node) ->
                        IF IsTrailingCommaError(root, path) \/ IsOrphanCloseBracket(root, path)
                        THEN {} ELSE {DescribeError(root, path)}
                  [] ~IsErrorNode(node) /\ path # <<>> /\ IsMissing(node) ->
                        IF IsTrailingCommaMissing(root, path)
                        THEN {} ELSE {DescribeMissing(root, path)}
                  [] OTHER -> UNION {Collect(Append(path, i)) : i \in DOMAIN node.children}
    IN  Collect(<<>>)

\* Mutant of HoldsObjects: arrays are not searched.
IsObjectOrPair(node) == node.kind \in {"object", "pair"}

HoldsObjects(node) == node.kind \in {"object", "array", "pair"}

\* collect_duplicate_keys: the keys that stand in their object before, as spelled.
DuplicateKeys(root) ==
    LET RECURSIVE Collect(_)
        Collect(path) ==
            LET kids == NodeAt(root, path).children
                Repeated(i) == \E j \in 1..(i - 1) :
                    kids[j].kind = "pair" /\ PairKey(kids[j]).tokens = PairKey(kids[i]).tokens
            IN  (IF NodeAt(root, path).kind = "object"
                 THEN {path \o <<i, 1>> : i \in {k \in DOMAIN kids :
                                                    kids[k].kind = "pair" /\ Repeated(k)}}
                 ELSE {})
                \union UNION {Collect(Append(path, i)) :
                                i \in {k \in DOMAIN kids : HoldsObjects(kids[k])}}
    IN  Collect(<<>>)
=============================================================================
