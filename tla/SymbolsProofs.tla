---------------------------- MODULE SymbolsProofs ----------------------------
(***************************************************************************)
(* The writer of document symbols writes what document_symbols collects,   *)
(* for every tree that is as tree-sitter makes them (WellFormed).          *)
(*                                                                         *)
(* What is collected is defined by recursion over the nodes of a tree, so  *)
(* it has to be shown to exist, by recursion over the bytes that a         *)
(* container covers.  Then the rounds of the collecting loop are compared  *)
(* with the pieces that are written.  The last part is about the stack of  *)
(* calls.  The invariant says that each call was made when what   *)
(* had been written, continued with the list of its own node, would be a   *)
(* beginning of the symbols of the document, and that after it its caller  *)
(* finds the child it was at by the child's first byte.                    *)
(***************************************************************************)
EXTENDS Symbols, TreeProofs

-----------------------------------------------------------------------------
(* Sequences.                                                              *)

\* A prefix is continued by the rest.
LEMMA PrefixMeans ==
    ASSUME NEW S, NEW s \in Seq(S), NEW t \in Seq(S)
    PROVE  IsPrefix(s, t) <=> \E u \in Seq(S) : t = s \o u
<1>1. Len(s) \in Nat /\ Len(t) \in Nat
  BY LenProperties
<1>2. ASSUME IsPrefix(s, t) PROVE \E u \in Seq(S) : t = s \o u
  <2>1. Len(s) <= Len(t) /\ SubSeq(s, 1, Len(s)) = SubSeq(t, 1, Len(s))
    BY <1>2 DEF IsPrefix
  <2>2. SubSeq(s, 1, Len(s)) = s /\ SubSeq(t, 1, Len(t)) = t
    OBVIOUS
  <2>3. SubSeq(t, Len(s) + 1, Len(t)) \in Seq(S)
    BY <1>1, <2>1
  <2>4. SubSeq(t, 1, Len(s)) \o SubSeq(t, Len(s) + 1, Len(t)) = SubSeq(t, 1, Len(t))
    <3>1. 1 \in 1..(Len(t) + 1) /\ Len(s) \in (1 - 1)..Len(t) /\ Len(t) \in Len(s)..Len(t)
      BY <1>1, <2>1
    <3> QED
      BY <3>1, ConcatAdjacentSubSeq
  <2> QED
    BY <2>1, <2>2, <2>3, <2>4
<1>3. ASSUME NEW u \in Seq(S), t = s \o u PROVE IsPrefix(s, t)
  <2>1. Len(u) \in Nat
    BY LenProperties
  <2>2. Len(t) = Len(s) + Len(u)
    BY <1>3, ConcatProperties
  <2>3. SubSeq(s, 1, Len(s)) = SubSeq(s \o u, 1, Len(s))
    OBVIOUS
  <2> QED
    BY <1>1, <1>3, <2>1, <2>2, <2>3 DEF IsPrefix
<1> QED
  BY <1>2, <1>3

\* A sequence of two elements.
LEMMA TwoElements ==
    ASSUME NEW S, NEW a \in S, NEW b \in S
    PROVE  <<a>> \in Seq(S) /\ <<b>> \in Seq(S) /\ <<a, b>> = <<a>> \o <<b>>
<1>1. <<a>> \in Seq(S) /\ <<b>> \in Seq(S)
  OBVIOUS
<1>2. <<a, b>> = Append(<<a>>, b)
  OBVIOUS
<1> DEFINE one == <<a>>
<1> HIDE DEF one
<1>3. Append(one, b) = one \o <<b>>
  BY <1>1, AppendIsConcat DEF one
<1> QED
  BY <1>1, <1>2, <1>3 DEF one

\* What continues a prefix continues it further.
LEMMA PrefixTransitive ==
    ASSUME NEW S, NEW s \in Seq(S), NEW t \in Seq(S), NEW u \in Seq(S),
           IsPrefix(s, t), IsPrefix(t, u)
    PROVE  IsPrefix(s, u)
<1>1. PICK v \in Seq(S) : t = s \o v
  BY PrefixMeans
<1>2. PICK w \in Seq(S) : u = t \o w
  BY PrefixMeans
<1>3. u = s \o (v \o w) /\ v \o w \in Seq(S)
  <2>1. v \o w \in Seq(S)
    BY <1>1, <1>2, ConcatProperties
  <2>2. u = (s \o v) \o w
    BY <1>1, <1>2
  <2>3. (s \o v) \o w = s \o (v \o w)
    BY <1>1, <1>2, ConcatAssociative
  <2> QED
    BY <2>1, <2>2, <2>3
<1> QED
  BY <1>3, PrefixMeans

\* What is in front of both does not matter.
LEMMA PrefixAfter ==
    ASSUME NEW S, NEW s \in Seq(S), NEW t \in Seq(S), NEW u \in Seq(S), IsPrefix(t, u)
    PROVE  IsPrefix(s \o t, s \o u)
<1>1. PICK v \in Seq(S) : u = t \o v
  BY PrefixMeans
<1>2. s \o u = (s \o t) \o v
  BY <1>1, ConcatAssociative
<1>3. s \o t \in Seq(S) /\ s \o u \in Seq(S)
  BY ConcatProperties
<1> QED
  BY <1>2, <1>3, PrefixMeans

\* A sequence begins with itself, and with what was there before something was added.
LEMMA PrefixOfConcat ==
    ASSUME NEW S, NEW s \in Seq(S), NEW t \in Seq(S)
    PROVE  IsPrefix(s, s) /\ IsPrefix(s, s \o t)
<1>1. s \o t \in Seq(S) /\ s = s \o <<>> /\ <<>> \in Seq(S)
  BY ConcatProperties, ConcatEmptySeq, EmptySeq
<1> QED
  BY <1>1, PrefixMeans

\* What ConcatAssociative says of three sequences.
Associates(s, t, u) == (s \o t) \o u = s \o (t \o u)

\* Concatenation is associative.
LEMMA AllAssociate ==
    ASSUME NEW S, NEW s \in Seq(S), NEW t \in Seq(S), NEW u \in Seq(S)
    PROVE  Associates(s, t, u)
  BY ConcatAssociative DEF Associates

\* The symbol of a container, written piece by piece or collected as a whole.
Regroups(b, y, o, l, q, e) ==
    (((b \o y) \o o) \o l) \o (q \o e) = b \o ((y \o ((o \o l) \o q)) \o e)

\* Both ways of putting the symbol of a container together give the same.
LEMMA SymbolCollected ==
    ASSUME NEW S, NEW b \in Seq(S), NEW y \in Seq(S), NEW o \in Seq(S), NEW l \in Seq(S),
           NEW q \in Seq(S), NEW e \in Seq(S)
    PROVE  Regroups(b, y, o, l, q, e)
<1> DEFINE x == b \o y
<1> DEFINE z == (o \o l) \o q
<1> DEFINE t == (x \o o) \o l
<1>1. x \in Seq(S) /\ o \o l \in Seq(S)
  BY ConcatProperties
<1>2. z \in Seq(S) /\ x \o o \in Seq(S)
  BY <1>1, ConcatProperties
<1>3. t \in Seq(S) /\ y \o z \in Seq(S)
  BY <1>2, ConcatProperties
<1>4. Associates(x, o, l) /\ Associates(x, o \o l, q)
  BY <1>1, AllAssociate
<1>5. Associates(t, q, e) /\ Associates(b, y, z) /\ Associates(b, y \o z, e)
  BY <1>2, <1>3, AllAssociate
<1>6. t \o q = x \o z
  BY <1>4 DEF Associates
<1> HIDE DEF t, z
<1>7. t \o (q \o e) = b \o ((y \o z) \o e)
  BY <1>5, <1>6 DEF Associates
<1> QED
  BY <1>7 DEF Regroups, t, z

-----------------------------------------------------------------------------
(* Trees.                                                                  *)

\* How far a node reaches; recursion over a tree is recursion over this number.
Extent(tree) == [node \in Nodes(tree) |-> node.end - node.start]

\* The extent of a node is a natural number.
LEMMA ExtentType ==
    ASSUME NEW tree, WellFormed(tree)
    PROVE  Extent(tree) \in [Nodes(tree) -> Nat]
<1>1. ASSUME NEW node \in Nodes(tree) PROVE node.end - node.start \in Nat
  <2>1. node.start \in Nat /\ node.end \in Nat /\ node.start <= node.end
    BY DEF WellFormed
  <2> QED
    BY <2>1
<1> QED
  BY <1>1 DEF Extent

\* Values whose symbols have lists of their own.
Containers == {"object", "array"}

\* The child of a container has a symbol, and of which value.
Reports(node, child) ==
    \/ node.kind = "object" /\ child.kind = "pair" /\ HasContent(PairKey(child))
    \/ node.kind = "array" /\ IsValueNode(child)

\* The name of a child's symbol, and the value its list is of.
SymbolName(node, child, index) ==
    IF node.kind = "object" THEN PairKey(child).tokens ELSE index

SymbolValue(node, child) == IF node.kind = "object" THEN PairValue(child) ELSE child

\* A value that has a list of its own reaches less far than the container it is in.
LEMMA ValueIsNode ==
    ASSUME NEW tree, WellFormed(tree), NEW node \in Nodes(tree),
           NEW i \in 1..Len(node.children), Reports(node, node.children[i])
    PROVE  /\ SymbolValue(node, node.children[i]) \in Nodes(tree)
           /\ SymbolValue(node, node.children[i]).kind \in Containers =>
                 Extent(tree)[SymbolValue(node, node.children[i])] < Extent(tree)[node]
<1> DEFINE child == node.children[i]
<1> DEFINE val == SymbolValue(node, child)
<1>1. child \in Nodes(tree)
  BY ChildIsNode
<1>2. /\ node.start \in Nat /\ node.end \in Nat /\ node.start <= node.end
      /\ child.start \in Nat /\ child.end \in Nat /\ child.start <= child.end
      /\ node.start <= child.start /\ child.end <= node.end
  BY <1>1 DEF WellFormed
<1>3. node.kind \in Containers
  BY DEF Reports, Containers
<1>4. child.kind \in {"object", "array", "pair"} => node.start < child.start
  BY <1>3 DEF WellFormed, Containers
<1>5. CASE node.kind = "object"
  <2>1. child.kind = "pair" /\ val = PairValue(child)
    BY <1>5 DEF Reports, SymbolValue
  <2> DEFINE last == Len(child.children)
  <2>2. last \in 1..Len(child.children) /\ val = child.children[last] /\ val \in Nodes(tree)
    BY <1>1, <2>1, KeyAndValue
  <2>3. /\ val.start \in Nat /\ val.end \in Nat
        /\ child.start <= val.start /\ val.end <= child.end
    BY <1>1, <2>2 DEF WellFormed
  <2>4. node.start < val.start /\ val.end <= node.end
    BY <1>2, <1>4, <2>1, <2>3
  <2>5. val.end - val.start < node.end - node.start
    BY <1>2, <2>3, <2>4
  <2> QED
    BY <2>2, <2>5 DEF Extent
<1>6. CASE node.kind # "object"
  <2>1. val = child
    BY <1>6 DEF SymbolValue
  <2>2. ASSUME child.kind \in Containers PROVE child.end - child.start < node.end - node.start
    <3>1. node.start < child.start
      BY <1>4, <2>2 DEF Containers
    <3> QED
      BY <1>2, <3>1
  <2> QED
    BY <1>1, <2>1, <2>2 DEF Extent
<1> QED
  BY <1>5, <1>6

-----------------------------------------------------------------------------
(* The symbols as they are collected.                                      *)

\* What is written: symbols, and the brackets and commas between them.
Event(tree) ==
    {"[", "]", ",", "}"} \union
    [name : Nat \union {node.tokens : node \in Nodes(tree)}, node : Nodes(tree)]

\* What is written, or collected, consists of these.
Json(tree) == Seq(Event(tree))

\* The symbols collected so far, and how many they are.
Count(tree) == [result : Json(tree), index : Nat]

\* No symbol yet, and what separates a symbol from those before it.
Nothing == [result |-> <<>>, index |-> 0]

Comma(index) == IF index = 0 THEN <<>> ELSE <<",">>

\* What comes before a symbol's own children.
SymbolHead(node, child, index) ==
    Comma(index) \o <<[name |-> SymbolName(node, child, index), node |-> child]>>

\* A symbol more.
Pushed(lists, node, child, before) ==
    [result |-> before.result \o Comma(before.index)
        \o <<[name |-> SymbolName(node, child, before.index), node |-> child]>>
        \o Children(lists, SymbolValue(node, child)) \o <<"}">>,
     index |-> before.index + 1]

\* The two cases of a round.
LEMMA CollectCases ==
    ASSUME NEW lists, NEW node, NEW child, NEW before
    PROVE  /\ Reports(node, child) =>
                Collect(lists, node, child, before) = Pushed(lists, node, child, before)
           /\ ~Reports(node, child) => Collect(lists, node, child, before) = before
<1>1. CASE node.kind = "object"
  BY <1>1 DEF Reports, Collect, Pushed, Comma, SymbolName, SymbolValue
<1>2. CASE node.kind = "array"
  BY <1>2 DEF Reports, Collect, Pushed, Comma, SymbolName, SymbolValue
<1>3. CASE node.kind # "object" /\ node.kind # "array"
  BY <1>3 DEF Reports, Collect
<1> QED
  BY <1>1, <1>2, <1>3

\* The pieces of the JSON are of its type.
LEMMA PieceTypes ==
    ASSUME NEW tree, WellFormed(tree)
    PROVE  /\ <<"[">> \in Json(tree) /\ <<"]">> \in Json(tree) /\ <<"}">> \in Json(tree)
           /\ <<"]", "}">> = <<"]">> \o <<"}">> /\ <<"]", "}">> \in Json(tree)
           /\ <<>> \in Json(tree)
           /\ \A index : Comma(index) \in Json(tree)
<1>1. /\ "[" \in Event(tree) /\ "]" \in Event(tree)
      /\ "," \in Event(tree) /\ "}" \in Event(tree)
  BY DEF Event
<1>2. /\ <<"[">> \in Json(tree) /\ <<"]">> \in Json(tree)
      /\ <<",">> \in Json(tree) /\ <<"}">> \in Json(tree)
      /\ <<"]", "}">> = <<"]">> \o <<"}">>
  BY <1>1, TwoElements DEF Json
<1>3. <<"]", "}">> \in Json(tree)
  <2> DEFINE q == <<"]">>
  <2> DEFINE e == <<"}">>
  <2>1. q \in Seq(Event(tree)) /\ e \in Seq(Event(tree))
    BY <1>2 DEF Json
  <2> HIDE DEF q, e
  <2>2. q \o e \in Seq(Event(tree))
    BY <2>1, ConcatProperties
  <2> QED
    BY <2>2, <1>2 DEF Json, q, e
<1>4. <<>> \in Json(tree)
  BY EmptySeq DEF Json
<1>5. ASSUME NEW index PROVE Comma(index) \in Json(tree)
  BY <1>2, <1>4 DEF Comma
<1> QED
  BY <1>2, <1>3, <1>4, <1>5

\* A symbol of a node of the tree, with its comma or without.
LEMMA SymbolType ==
    ASSUME NEW tree, WellFormed(tree), NEW node \in Nodes(tree),
           NEW i \in 1..Len(node.children), Reports(node, node.children[i]), NEW index \in Nat
    PROVE  /\ <<[name |-> SymbolName(node, node.children[i], index),
                 node |-> node.children[i]]>> \in Json(tree)
           /\ SymbolHead(node, node.children[i], index) \in Json(tree)
<1> DEFINE child == node.children[i]
<1> DEFINE name == SymbolName(node, child, index)
<1>1. child \in Nodes(tree)
  BY ChildIsNode
<1>2. name \in Nat \union {n.tokens : n \in Nodes(tree)}
  <2>1. CASE node.kind = "object"
    <3>1. child.kind = "pair"
      BY <2>1 DEF Reports
    <3>2. PairKey(child) \in Nodes(tree)
      BY <1>1, <3>1, KeyAndValue
    <3> QED
      BY <2>1, <3>2 DEF SymbolName
  <2>2. CASE node.kind # "object"
    BY <2>2 DEF SymbolName
  <2> QED
    BY <2>1, <2>2
<1> HIDE DEF child, name
<1>3. [name |-> name, node |-> child] \in Event(tree)
  BY <1>1, <1>2 DEF Event
<1> DEFINE symbol == <<[name |-> name, node |-> child]>>
<1>4. symbol \in Seq(Event(tree))
  BY <1>3
<1>5. Comma(index) \in Seq(Event(tree))
  BY PieceTypes DEF Json
<1> DEFINE comma == Comma(index)
<1> HIDE DEF comma, symbol
<1>6. comma \o symbol \in Seq(Event(tree))
  BY <1>4, <1>5, ConcatProperties DEF comma
<1> QED
  BY <1>4, <1>6 DEF Json, SymbolHead, child, name, comma, symbol

\* The list of a container is of the type of its symbols.
LEMMA ChildrenType ==
    ASSUME NEW tree, WellFormed(tree), NEW lists, NEW val,
           val.kind \in Containers => lists[val] \in Json(tree)
    PROVE  Children(lists, val) \in Json(tree)
<1>1. CASE val.kind \in Containers
  <2> DEFINE o == <<"[">>
  <2> DEFINE q == <<"]">>
  <2> DEFINE l == lists[val]
  <2>1. o \in Seq(Event(tree)) /\ q \in Seq(Event(tree)) /\ l \in Seq(Event(tree))
    BY <1>1, PieceTypes DEF Json
  <2>2. Children(lists, val) = o \o l \o q
    BY <1>1 DEF Children, Containers
  <2> HIDE DEF o, q, l
  <2>3. o \o l \in Seq(Event(tree))
    BY <2>1, ConcatProperties
  <2>4. (o \o l) \o q \in Seq(Event(tree))
    BY <2>1, <2>3, ConcatProperties
  <2> QED
    BY <2>2, <2>4 DEF Json
<1>2. CASE val.kind \notin Containers
  BY <1>2, PieceTypes DEF Children, Containers
<1> QED
  BY <1>1, <1>2

\* A round makes a list from a list.
LEMMA CollectType ==
    ASSUME NEW tree, WellFormed(tree), NEW node \in Nodes(tree),
           NEW i \in 1..Len(node.children), NEW lists, NEW before \in Count(tree),
           Reports(node, node.children[i])
             /\ SymbolValue(node, node.children[i]).kind \in Containers =>
               lists[SymbolValue(node, node.children[i])] \in Json(tree)
    PROVE  Collect(lists, node, node.children[i], before) \in Count(tree)
<1> DEFINE child == node.children[i]
<1>1. before.result \in Seq(Event(tree)) /\ before.index \in Nat
  BY DEF Count, Json
<1>2. CASE Reports(node, child)
  <2> DEFINE r == before.result
  <2> DEFINE c == Comma(before.index)
  <2> DEFINE s == <<[name |-> SymbolName(node, child, before.index), node |-> child]>>
  <2> DEFINE v == Children(lists, SymbolValue(node, child))
  <2> DEFINE e == <<"}">>
  <2>1. Collect(lists, node, child, before)
          = [result |-> (((r \o c) \o s) \o v) \o e, index |-> before.index + 1]
    BY <1>2, CollectCases DEF Pushed
  <2>2. r \in Seq(Event(tree)) /\ c \in Seq(Event(tree)) /\ e \in Seq(Event(tree))
    BY <1>1, PieceTypes DEF Json
  <2>3. s \in Seq(Event(tree))
    BY <1>1, <1>2, SymbolType DEF Json
  <2>4. v \in Seq(Event(tree))
    BY <1>2, ChildrenType DEF Json
  <2> HIDE DEF r, c, s, v, e
  <2>5. r \o c \in Seq(Event(tree))
    BY <2>2, ConcatProperties
  <2>6. (r \o c) \o s \in Seq(Event(tree))
    BY <2>3, <2>5, ConcatProperties
  <2>7. ((r \o c) \o s) \o v \in Seq(Event(tree))
    BY <2>4, <2>6, ConcatProperties
  <2>8. (((r \o c) \o s) \o v) \o e \in Seq(Event(tree))
    BY <2>2, <2>7, ConcatProperties
  <2> QED
    BY <1>1, <2>1, <2>8 DEF Count, Json
<1>3. CASE ~Reports(node, child)
  BY <1>3, CollectCases
<1> QED
  BY <1>2, <1>3

\* The lists of the containers among the values in a node are lists of symbols.
Known(tree, lists, node) ==
    \A i \in 1..Len(node.children) :
        Reports(node, node.children[i])
          /\ SymbolValue(node, node.children[i]).kind \in Containers =>
            lists[SymbolValue(node, node.children[i])] \in Json(tree)

\* The rounds of collect_object and collect_array for such a node.
LEMMA RoundsOf ==
    ASSUME NEW tree, WellFormed(tree), NEW node \in Nodes(tree), NEW lists,
           Known(tree, lists, node)
    PROVE  /\ Rounds(lists, node) \in [0..Len(node.children) -> Count(tree)]
           /\ Rounds(lists, node)[0] = Nothing
           /\ \A i \in 1..Len(node.children) :
                 Rounds(lists, node)[i]
                   = Collect(lists, node, node.children[i], Rounds(lists, node)[i - 1])
<1> DEFINE n == Len(node.children)
<1> DEFINE T == Count(tree)
<1> DEFINE round(i, before) == Collect(lists, node, node.children[i], before)
<1> DEFINE step == [p \in (1..n) \X T |-> round(p[1], p[2])]
<1>1. n \in Nat /\ Nothing \in T
  <2>1. <<>> \in Json(tree)
    BY PieceTypes
  <2> QED
    BY <2>1, ChildIsNode DEF Count, Nothing
<1>2. \A i \in 1..n : \A before \in T : round(i, before) \in T
  BY CollectType DEF Known
<1>3. step \in Steps(n, T)
  <2> USE DEF Steps
  <2> SUFFICES ASSUME NEW p \in (1..n) \X T PROVE round(p[1], p[2]) \in T
    OBVIOUS
  <2> QED
    BY <1>2
<1>4. \A i \in 1..n : \A before \in T : step[<<i, before>>] = round(i, before)
  OBVIOUS
<1> HIDE DEF round, T, n
<1>5. PICK h \in [0..n -> T] : After(n, Nothing, step, h)
  <2> HIDE DEF step
  <2> QED
    BY <1>1, <1>3, StepsExist
<1> HIDE DEF step
<1>6. \A i \in 0..n : h[i] = IF i = 0 THEN Nothing ELSE round(i, h[i - 1])
  <2> TAKE i \in 0..n
  <2>1. i # 0 => i \in 1..n /\ i - 1 \in 0..n
    BY <1>1
  <2> QED
    BY <1>4, <1>5, <2>1 DEF After
<1> DEFINE Follows(g) == g = [i \in 0..n |-> IF i = 0 THEN Nothing ELSE round(i, g[i - 1])]
<1>7. Follows(h)
  BY <1>6
<1> DEFINE after == CHOOSE g : Follows(g)
<1>8. Follows(after)
  BY <1>7
<1>9. Rounds(lists, node) = after
  BY DEF Rounds, n, round, Nothing
<1> HIDE DEF after
<1>10. ASSUME NEW i \in 0..n
       PROVE  after[i] = IF i = 0 THEN Nothing ELSE round(i, after[i - 1])
  BY <1>8
<1>11. after = [i \in 0..n |-> after[i]]
  BY <1>8
<1> HIDE DEF Follows
<1>12. \A i \in 0..n : after[i] \in T
  <2> DEFINE Bad == {i \in 0..n : after[i] \notin T}
  <2> SUFFICES ASSUME Bad # {} PROVE FALSE
    OBVIOUS
  <2>1. Bad \in SUBSET Nat
    BY <1>1
  <2>2. PICK i \in Bad : \A j \in Bad : i <= j
    <3> HIDE DEF Bad
    <3> QED
      BY <2>1, LeastNatural
  <2>3. i \in 0..n /\ after[i] \notin T
    BY <2>2
  <2>4. CASE i = 0
    BY <2>3, <2>4, <1>1, <1>10
  <2>5. CASE i # 0
    <3>1. i \in 1..n /\ i - 1 \in 0..n /\ ~(i <= i - 1)
      BY <1>1, <2>3, <2>5
    <3>2. after[i - 1] \in T
      BY <2>2, <3>1
    <3>3. after[i] \in T
      BY <1>2, <1>10, <2>3, <2>5, <3>1, <3>2
    <3> QED
      BY <2>3, <3>3
  <2> QED
    BY <2>4, <2>5
<1>13. after \in [0..n -> T]
  BY <1>11, <1>12
<1>14. 0 \in 0..n /\ \A i \in 1..n : i \in 0..n /\ i # 0
  BY <1>1
<1>15. after[0] = Nothing /\ \A i \in 1..n : after[i] = round(i, after[i - 1])
  BY <1>10, <1>14
<1> QED
  BY <1>9, <1>13, <1>15 DEF n, T, round

\* Only these lists matter.
LEMMA SameRounds ==
    ASSUME NEW tree, WellFormed(tree), NEW node \in Nodes(tree), NEW g, NEW h,
           Known(tree, g, node), Known(tree, h, node),
           \A i \in 1..Len(node.children) :
              Reports(node, node.children[i])
                /\ SymbolValue(node, node.children[i]).kind \in Containers =>
                  g[SymbolValue(node, node.children[i])] = h[SymbolValue(node, node.children[i])]
    PROVE  \A i \in 0..Len(node.children) : Rounds(g, node)[i] = Rounds(h, node)[i]
<1> DEFINE n == Len(node.children)
<1> DEFINE a == Rounds(g, node)
<1> DEFINE b == Rounds(h, node)
<1>1. n \in Nat
  BY ChildIsNode
<1>2. ASSUME NEW i \in 1..n, NEW before
      PROVE  Collect(g, node, node.children[i], before) = Collect(h, node, node.children[i], before)
  <2> DEFINE child == node.children[i]
  <2>1. CASE Reports(node, child)
    <3>1. Children(g, SymbolValue(node, child)) = Children(h, SymbolValue(node, child))
      BY <2>1 DEF Children, Containers
    <3>2. Pushed(g, node, child, before) = Pushed(h, node, child, before)
      BY <3>1 DEF Pushed
    <3>3. /\ Collect(g, node, child, before) = Pushed(g, node, child, before)
          /\ Collect(h, node, child, before) = Pushed(h, node, child, before)
      BY <2>1, CollectCases
    <3> QED
      BY <3>2, <3>3
  <2>2. CASE ~Reports(node, child)
    BY <2>2, CollectCases
  <2> QED
    BY <2>1, <2>2
<1>3. /\ a[0] = b[0]
      /\ \A i \in 1..n : /\ a[i] = Collect(g, node, node.children[i], a[i - 1])
                         /\ b[i] = Collect(h, node, node.children[i], b[i - 1])
  BY RoundsOf
<1> HIDE DEF a, b, n
<1> DEFINE Bad == {i \in 0..n : a[i] # b[i]}
<1>4. Bad = {}
  <2> SUFFICES ASSUME Bad # {} PROVE FALSE
    OBVIOUS
  <2>1. Bad \in SUBSET Nat
    BY <1>1
  <2>2. PICK i \in Bad : \A j \in Bad : i <= j
    <3> HIDE DEF Bad
    <3> QED
      BY <2>1, LeastNatural
  <2>3. i \in 0..n /\ a[i] # b[i] /\ i # 0
    BY <1>3, <2>2
  <2>4. i \in 1..n /\ i - 1 \in 0..n /\ ~(i <= i - 1)
    BY <1>1, <2>3
  <2>5. a[i - 1] = b[i - 1]
    BY <2>2, <2>4
  <2>6. Collect(g, node, node.children[i], a[i - 1]) = Collect(h, node, node.children[i], b[i - 1])
    BY <1>2, <2>4, <2>5
  <2> QED
    BY <1>3, <2>3, <2>4, <2>6
<1> QED
  BY <1>4 DEF a, b, n

\* Collected is defined for every tree: the list of a node is what its rounds give, with
\* the lists of the values in it.
LEMMA CollectedOf ==
    ASSUME NEW tree, WellFormed(tree)
    PROVE  \A node \in Nodes(tree) :
              /\ Collected(tree)[node] \in Json(tree)
              /\ Known(tree, Collected(tree), node)
              /\ Collected(tree)[node]
                   = Rounds(Collected(tree), node)[Len(node.children)].result
<1> DEFINE N == Nodes(tree)
<1> DEFINE T == Json(tree)
<1> DEFINE m == Extent(tree)
<1> DEFINE total(g, node) == Rounds(g, node)[Len(node.children)].result
<1> DEFINE F == [p \in [N -> T] \X N |-> total(p[1], p[2])]
<1>1. m \in [N -> Nat] /\ <<>> \in T
  BY ExtentType, PieceTypes
<1>2. ASSUME NEW g, NEW node \in N, Known(tree, g, node) PROVE total(g, node) \in T
  <2> DEFINE n == Len(node.children)
  <2>1. n \in 0..n
    <3>1. n \in Nat
      BY ChildIsNode
    <3> QED
      BY <3>1
  <2>2. Rounds(g, node) \in [0..n -> Count(tree)]
    BY <1>2, RoundsOf
  <2> HIDE DEF n
  <2>3. Rounds(g, node)[n] \in Count(tree)
    BY <2>1, <2>2
  <2> QED
    BY <2>3 DEF Count, n
<1>3. ASSUME NEW g \in [N -> T], NEW node \in N PROVE Known(tree, g, node)
  BY ValueIsNode DEF Known
<1>4. F \in Rules(N, T)
  <2> SUFFICES ASSUME NEW p \in [N -> T] \X N PROVE total(p[1], p[2]) \in T
    BY DEF Rules
  <2>1. p[1] \in [N -> T] /\ p[2] \in N
    OBVIOUS
  <2> HIDE DEF total, N, T
  <2> QED
    BY <1>2, <1>3, <2>1
<1>5. \A g \in [N -> T] : \A node \in N : F[<<g, node>>] = total(g, node)
  OBVIOUS
<1>6. ASSUME NEW node \in N, NEW g \in [N -> T], NEW h \in [N -> T],
             \A other \in N : m[other] < m[node] => g[other] = h[other]
      PROVE  total(g, node) = total(h, node)
  <2>1. Known(tree, g, node) /\ Known(tree, h, node)
    BY <1>3
  <2>2. \A i \in 1..Len(node.children) :
          Reports(node, node.children[i])
            /\ SymbolValue(node, node.children[i]).kind \in Containers =>
              g[SymbolValue(node, node.children[i])] = h[SymbolValue(node, node.children[i])]
    BY <1>6, ValueIsNode
  <2>3. \A i \in 0..Len(node.children) : Rounds(g, node)[i] = Rounds(h, node)[i]
    BY <2>1, <2>2, SameRounds
  <2>4. Len(node.children) \in 0..Len(node.children)
    <3>1. Len(node.children) \in Nat
      BY ChildIsNode
    <3> QED
      BY <3>1
  <2> QED
    BY <2>3, <2>4
<1> HIDE DEF total
<1>7. UsesLess(N, T, m, F)
  <2> HIDE DEF F, N, T, m
  <2> QED
    BY <1>5, <1>6 DEF UsesLess
<1>8. PICK f \in [N -> T] : Solves(f, N, F)
  <2> HIDE DEF F, N, T, m
  <2> QED
    BY <1>1, <1>4, <1>7, RecursionExists
<1>9. f = [node \in N |-> total(f, node)]
  BY <1>5, <1>8 DEF Solves
<1> DEFINE Follows(lists) == lists = [node \in N |-> total(lists, node)]
<1> DEFINE lists == CHOOSE lists : Follows(lists)
<1>10. Follows(lists)
  BY <1>9
<1>11. Collected(tree) = lists
  BY DEF Collected, total
<1> HIDE DEF lists
<1>12. \A node \in N : lists[node] = total(lists, node)
  BY <1>10
<1>13. ASSUME NEW node \in N, NEW Bad \in SUBSET N, \A x \in N : x \notin Bad => lists[x] \in T,
              \A x \in N : m[x] < m[node] => x \notin Bad
       PROVE  Known(tree, lists, node)
  BY <1>13, ValueIsNode DEF Known
<1>14. \A node \in N : lists[node] \in T
  <2> DEFINE Bad == {node \in N : lists[node] \notin T}
  <2> SUFFICES ASSUME Bad # {} PROVE FALSE
    OBVIOUS
  <2>1. Bad \in SUBSET N
    OBVIOUS
  <2>2. PICK node \in Bad : \A x \in N : m[x] < m[node] => x \notin Bad
    <3> HIDE DEF Bad, N, m
    <3> QED
      BY <1>1, <2>1, LeastMeasure
  <2>3. node \in N /\ lists[node] \notin T
    BY <2>2
  <2>4. \A x \in N : x \notin Bad => lists[x] \in T
    OBVIOUS
  <2>5. Known(tree, lists, node)
    <3> HIDE DEF Bad, N, T, m
    <3> QED
      BY <1>13, <2>1, <2>2, <2>3, <2>4
  <2> QED
    BY <1>2, <1>12, <2>3, <2>5
<1>15. ASSUME NEW node \in N PROVE Known(tree, lists, node)
  BY <1>14, ValueIsNode DEF Known
<1> QED
  BY <1>11, <1>12, <1>14, <1>15 DEF total

-----------------------------------------------------------------------------
(* The rounds of the collected symbols.                                    *)

\* The list after i rounds for a node, and how many symbols it has.
Result(tree, node, i) == Rounds(Collected(tree), node)[i].result

Index(tree, node, i) == Rounds(Collected(tree), node)[i].index

\* They are a list and a number, nothing at first and the whole list in the end.
LEMMA RoundTypes ==
    ASSUME NEW tree, WellFormed(tree), NEW node \in Nodes(tree)
    PROVE  /\ Collected(tree)[node] \in Json(tree)
           /\ \A i \in 0..Len(node.children) :
                 Result(tree, node, i) \in Json(tree) /\ Index(tree, node, i) \in Nat
           /\ Result(tree, node, 0) = <<>> /\ Index(tree, node, 0) = 0
           /\ Result(tree, node, Len(node.children)) = Collected(tree)[node]
<1>1. /\ Collected(tree)[node] \in Json(tree)
      /\ Known(tree, Collected(tree), node)
      /\ Collected(tree)[node] = Rounds(Collected(tree), node)[Len(node.children)].result
  BY CollectedOf
<1> DEFINE R == Rounds(Collected(tree), node)
<1>2. R \in [0..Len(node.children) -> Count(tree)] /\ R[0] = Nothing
  BY <1>1, RoundsOf
<1> HIDE DEF R
<1>3. \A i \in 0..Len(node.children) : R[i].result \in Json(tree) /\ R[i].index \in Nat
  BY <1>2 DEF Count
<1>4. R[0].result = <<>> /\ R[0].index = 0
  BY <1>2 DEF Nothing
<1> QED
  BY <1>1, <1>3, <1>4 DEF R, Result, Index

\* A round without a symbol.
LEMMA RoundSkips ==
    ASSUME NEW tree, WellFormed(tree), NEW node \in Nodes(tree),
           NEW i \in 1..Len(node.children), ~Reports(node, node.children[i])
    PROVE  /\ Result(tree, node, i) = Result(tree, node, i - 1)
           /\ Index(tree, node, i) = Index(tree, node, i - 1)
<1> DEFINE R == Rounds(Collected(tree), node)
<1>1. R[i] = Collect(Collected(tree), node, node.children[i], R[i - 1])
  BY CollectedOf, RoundsOf
<1> HIDE DEF R
<1>2. R[i] = R[i - 1]
  BY <1>1, CollectCases
<1> QED
  BY <1>2 DEF R, Result, Index

\* A round with a symbol, in pieces.
LEMMA RoundPushes ==
    ASSUME NEW tree, WellFormed(tree), NEW node \in Nodes(tree),
           NEW i \in 1..Len(node.children), Reports(node, node.children[i])
    PROVE  /\ Index(tree, node, i) = Index(tree, node, i - 1) + 1
           /\ Index(tree, node, i - 1) \in Nat
           /\ Result(tree, node, i - 1) \in Json(tree)
           /\ SymbolHead(node, node.children[i], Index(tree, node, i - 1)) \in Json(tree)
           /\ Children(Collected(tree), SymbolValue(node, node.children[i])) \in Json(tree)
           /\ Result(tree, node, i) =
                 ((Result(tree, node, i - 1)
                     \o SymbolHead(node, node.children[i], Index(tree, node, i - 1)))
                   \o Children(Collected(tree), SymbolValue(node, node.children[i])))
                 \o <<"}">>
<1> DEFINE R == Rounds(Collected(tree), node)
<1> DEFINE child == node.children[i]
<1> DEFINE lists == Collected(tree)
<1>1. R[i] = Collect(lists, node, child, R[i - 1])
  BY CollectedOf, RoundsOf
<1>2. i - 1 \in 0..Len(node.children)
  BY ChildIsNode
<1>3. R[i - 1].result \in Json(tree) /\ R[i - 1].index \in Nat
  BY <1>2, RoundTypes DEF Result, Index
<1> HIDE DEF R
<1>4. R[i] = Pushed(lists, node, child, R[i - 1])
  BY <1>1, CollectCases
<1> DEFINE r == R[i - 1].result
<1> DEFINE c == Comma(R[i - 1].index)
<1> DEFINE s == <<[name |-> SymbolName(node, child, R[i - 1].index), node |-> child]>>
<1> DEFINE v == Children(lists, SymbolValue(node, child))
<1> DEFINE e == <<"}">>
<1>5. R[i].index = R[i - 1].index + 1 /\ R[i].result = (((r \o c) \o s) \o v) \o e
  <2> DEFINE before == R[i - 1]
  <2> DEFINE pushed == Pushed(lists, node, child, before)
  <2> HIDE DEF before
  <2>1. pushed.index = before.index + 1
    BY DEF Pushed
  <2>2. pushed.result = before.result \o Comma(before.index)
          \o <<[name |-> SymbolName(node, child, before.index), node |-> child]>>
          \o Children(lists, SymbolValue(node, child)) \o <<"}">>
    BY DEF Pushed
  <2> HIDE DEF pushed
  <2>3. R[i] = pushed
    BY <1>4 DEF pushed, before
  <2> QED
    BY <2>1, <2>2, <2>3 DEF before
<1>6. c \in Seq(Event(tree)) /\ s \in Seq(Event(tree)) /\ r \in Seq(Event(tree))
  BY <1>3, PieceTypes, SymbolType DEF Json
<1>7. v \in Json(tree)
  BY CollectedOf, ValueIsNode, ChildrenType
<1>8. (r \o c) \o s = r \o (c \o s)
  <2> HIDE DEF r, c, s
  <2> QED
    BY <1>6, ConcatAssociative
<1>9. c \o s = SymbolHead(node, child, R[i - 1].index)
  BY DEF SymbolHead
<1>10. SymbolHead(node, child, R[i - 1].index) \in Json(tree)
  BY <1>3, SymbolType
<1>11. R[i].result = ((r \o SymbolHead(node, child, R[i - 1].index)) \o v) \o e
  BY <1>5, <1>8, <1>9
<1> QED
  BY <1>3, <1>5, <1>7, <1>10, <1>11 DEF R, Result, Index

\* Symbols are only added.
LEMMA RoundGrows ==
    ASSUME NEW tree, WellFormed(tree), NEW node \in Nodes(tree), NEW i \in 1..Len(node.children)
    PROVE  IsPrefix(Result(tree, node, i - 1), Result(tree, node, i))
<1> DEFINE r == Result(tree, node, i - 1)
<1>1. i - 1 \in 0..Len(node.children)
  BY ChildIsNode
<1>2. r \in Seq(Event(tree))
  BY <1>1, RoundTypes DEF Json
<1>3. CASE Reports(node, node.children[i])
  <2> DEFINE h == SymbolHead(node, node.children[i], Index(tree, node, i - 1))
  <2> DEFINE v == Children(Collected(tree), SymbolValue(node, node.children[i]))
  <2> DEFINE e == <<"}">>
  <2>1. Result(tree, node, i) = ((r \o h) \o v) \o e
    BY <1>3, RoundPushes
  <2>2. h \in Seq(Event(tree)) /\ v \in Seq(Event(tree))
    BY <1>3, RoundPushes DEF Json
  <2>3. e \in Seq(Event(tree))
    BY PieceTypes DEF Json
  <2> HIDE DEF r, h, v, e
  <2>4. r \o h \in Seq(Event(tree)) /\ IsPrefix(r, r \o h)
    BY <1>2, <2>2, ConcatProperties, PrefixOfConcat
  <2> DEFINE rh == r \o h
  <2>5. rh \o v \in Seq(Event(tree)) /\ IsPrefix(rh, rh \o v)
    <3>1. rh \in Seq(Event(tree))
      BY <2>4
    <3> HIDE DEF rh
    <3> QED
      BY <2>2, <3>1, ConcatProperties, PrefixOfConcat
  <2> DEFINE rhv == rh \o v
  <2>6. rhv \o e \in Seq(Event(tree)) /\ IsPrefix(rhv, rhv \o e)
    <3>1. rhv \in Seq(Event(tree))
      BY <2>5
    <3> HIDE DEF rhv
    <3> QED
      BY <2>3, <3>1, ConcatProperties, PrefixOfConcat
  <2> DEFINE rhve == rhv \o e
  <2>7. /\ r \in Seq(Event(tree)) /\ rh \in Seq(Event(tree))
        /\ rhv \in Seq(Event(tree)) /\ rhve \in Seq(Event(tree))
        /\ IsPrefix(r, rh) /\ IsPrefix(rh, rhv) /\ IsPrefix(rhv, rhve)
    BY <1>2, <2>4, <2>5, <2>6
  <2> HIDE DEF rh, rhv, rhve
  <2>8. IsPrefix(r, rhve)
    <3>1. IsPrefix(r, rhv)
      BY <2>7, PrefixTransitive
    <3> QED
      BY <2>7, <3>1, PrefixTransitive
  <2> QED
    BY <2>1, <2>8 DEF rh, rhv, rhve, r
<1>4. CASE ~Reports(node, node.children[i])
  BY <1>2, <1>4, RoundSkips, PrefixOfConcat
<1> QED
  BY <1>3, <1>4

\* The list after any round is the beginning of the whole one.
LEMMA RoundsGrow ==
    ASSUME NEW tree, WellFormed(tree), NEW node \in Nodes(tree)
    PROVE  \A i \in 0..Len(node.children) :
              IsPrefix(Result(tree, node, i), Collected(tree)[node])
<1> DEFINE n == Len(node.children)
<1> DEFINE r(i) == Result(tree, node, i)
<1> DEFINE S == Seq(Event(tree))
<1>1. n \in Nat /\ r(n) = Collected(tree)[node] /\ \A i \in 0..n : r(i) \in S
  BY ChildIsNode, RoundTypes DEF Json
<1>2. \A i \in 1..n : IsPrefix(r(i - 1), r(i))
  BY RoundGrows
<1> HIDE DEF n, r
<1> DEFINE Bad == {k \in 0..n : ~IsPrefix(r(n - k), r(n))}
<1>3. Bad = {}
  <2> SUFFICES ASSUME Bad # {} PROVE FALSE
    OBVIOUS
  <2>1. Bad \in SUBSET Nat
    BY <1>1
  <2>2. PICK k \in Bad : \A j \in Bad : k <= j
    <3> HIDE DEF Bad
    <3> QED
      BY <2>1, LeastNatural
  <2>3. k \in 0..n /\ ~IsPrefix(r(n - k), r(n))
    BY <2>2
  <2>4. n \in 0..n /\ n - 0 = n
    BY <1>1
  <2>5. IsPrefix(r(n), r(n))
    <3>1. r(n) \in S
      BY <1>1, <2>4
    <3> QED
      BY <3>1, PrefixOfConcat
  <2>6. k # 0
    BY <2>3, <2>4, <2>5
  <2>7. /\ k - 1 \in 0..n /\ ~(k <= k - 1) /\ n - k + 1 \in 1..n
        /\ n - (k - 1) = n - k + 1 /\ (n - k + 1) - 1 = n - k
        /\ n - k \in 0..n /\ n - k + 1 \in 0..n
    BY <1>1, <2>3, <2>6
  <2>8. IsPrefix(r(n - (k - 1)), r(n))
    BY <2>2, <2>7
  <2> DEFINE a == r(n - k)
  <2> DEFINE b == r(n - k + 1)
  <2> DEFINE c == r(n)
  <2>9. IsPrefix(a, b) /\ IsPrefix(b, c)
    BY <1>2, <2>7, <2>8
  <2>10. a \in S /\ b \in S /\ c \in S
    BY <1>1, <2>4, <2>7
  <2> HIDE DEF a, b, c
  <2>11. IsPrefix(a, c)
    BY <2>9, <2>10, PrefixTransitive
  <2> QED
    BY <2>3, <2>11 DEF a, c
<1>4. ASSUME NEW i \in 0..n PROVE IsPrefix(r(i), r(n))
  <2>1. n - i \in 0..n /\ n - (n - i) = i
    BY <1>1
  <2> QED
    BY <1>3, <2>1
<1> QED
  BY <1>1, <1>4 DEF n, r

\* A symbol that is no container, and one that is, behind what was written before the
\* rounds of this node.
LEMMA PlainSymbol ==
    ASSUME NEW tree, WellFormed(tree), NEW node \in Nodes(tree),
           NEW i \in 1..Len(node.children), Reports(node, node.children[i]),
           SymbolValue(node, node.children[i]).kind \notin Containers,
           NEW base \in Json(tree)
    PROVE  base \o Result(tree, node, i) =
             ((base \o Result(tree, node, i - 1))
                 \o SymbolHead(node, node.children[i], Index(tree, node, i - 1))) \o <<"}">>
<1> DEFINE r == Result(tree, node, i - 1)
<1> DEFINE h == SymbolHead(node, node.children[i], Index(tree, node, i - 1))
<1> DEFINE e == <<"}">>
<1>1. Children(Collected(tree), SymbolValue(node, node.children[i])) = <<>>
  BY DEF Children, Containers
<1>2. Result(tree, node, i) = ((r \o h) \o <<>>) \o e
  BY <1>1, RoundPushes
<1>3. /\ r \in Seq(Event(tree)) /\ h \in Seq(Event(tree))
      /\ e \in Seq(Event(tree)) /\ base \in Seq(Event(tree))
  BY RoundPushes, PieceTypes DEF Json
<1> HIDE DEF r, h, e
<1>4. r \o h \in Seq(Event(tree))
  BY <1>3, ConcatProperties
<1>5. (r \o h) \o <<>> = r \o h
  BY <1>4, ConcatEmptySeq
<1>6. Associates(base, r, h) /\ Associates(base, r \o h, e)
  BY <1>3, <1>4, AllAssociate
<1>7. base \o ((r \o h) \o e) = ((base \o r) \o h) \o e
  BY <1>6 DEF Associates
<1> QED
  BY <1>2, <1>5, <1>7 DEF r, h, e

\* The same for a container: what is written is the head, a bracket, its list, and the ends.
LEMMA ContainerSymbol ==
    ASSUME NEW tree, WellFormed(tree), NEW node \in Nodes(tree),
           NEW i \in 1..Len(node.children), Reports(node, node.children[i]),
           SymbolValue(node, node.children[i]).kind \in Containers,
           NEW base \in Json(tree)
    PROVE  base \o Result(tree, node, i) =
             ((((base \o Result(tree, node, i - 1))
                  \o SymbolHead(node, node.children[i], Index(tree, node, i - 1)))
                \o <<"[">>)
               \o Collected(tree)[SymbolValue(node, node.children[i])])
              \o <<"]", "}">>
<1> DEFINE r == Result(tree, node, i - 1)
<1> DEFINE h == SymbolHead(node, node.children[i], Index(tree, node, i - 1))
<1> DEFINE o == <<"[">>
<1> DEFINE l == Collected(tree)[SymbolValue(node, node.children[i])]
<1> DEFINE q == <<"]">>
<1> DEFINE e == <<"}">>
<1>1. Children(Collected(tree), SymbolValue(node, node.children[i])) = (o \o l) \o q
  BY DEF Children, Containers
<1>2. Result(tree, node, i) = ((r \o h) \o ((o \o l) \o q)) \o e
  BY <1>1, RoundPushes
<1>3. /\ r \in Seq(Event(tree)) /\ h \in Seq(Event(tree)) /\ base \in Seq(Event(tree))
      /\ o \in Seq(Event(tree)) /\ q \in Seq(Event(tree)) /\ e \in Seq(Event(tree))
      /\ <<"]", "}">> = q \o e
  BY RoundPushes, PieceTypes DEF Json
<1>4. l \in Seq(Event(tree))
  BY ValueIsNode, CollectedOf DEF Json
<1> HIDE DEF r, h, o, l, q, e
<1>5. r \o h \in Seq(Event(tree))
  BY <1>3, ConcatProperties
<1>6. Associates(base, r, h)
  BY <1>3, AllAssociate
<1> DEFINE y == r \o h
<1>7. y \in Seq(Event(tree)) /\ base \o y = (base \o r) \o h
  BY <1>5, <1>6 DEF Associates
<1> HIDE DEF y
<1>8. Regroups(base, y, o, l, q, e)
  BY <1>3, <1>4, <1>7, SymbolCollected
<1>9. Result(tree, node, i) = (y \o ((o \o l) \o q)) \o e
  BY <1>2 DEF y
<1> QED
  BY <1>3, <1>7, <1>8, <1>9 DEF Regroups, r, h, o, l, q, e

\* The cursor finds the child at which it was left.
LEMMA ChildRestored ==
    ASSUME NEW tree, WellFormed(tree), NEW node \in Nodes(tree),
           NEW i \in 1..Len(node.children), node.children[i].start < node.children[i].end
    PROVE  FirstChildForByte(node, node.children[i].start) = [parent |-> node, child |-> i]
<1> DEFINE past == {j \in DOMAIN node.children : node.children[j].end > node.children[i].start}
<1>1. /\ node.children \in Seq(Nodes(tree)) /\ Len(node.children) \in Nat
      /\ \A j \in 1..Len(node.children) : node.children[j] \in Nodes(tree)
  BY ChildIsNode
<1>2. DOMAIN node.children = 1..Len(node.children)
  BY <1>1, LenProperties
<1>3. \A j \in 1..Len(node.children) :
         node.children[j].start \in Nat /\ node.children[j].end \in Nat
  BY <1>1 DEF WellFormed
<1>4. i \in past
  BY <1>2, <1>3
<1>5. ASSUME NEW j \in past PROVE i <= j
  <2>1. j \in 1..Len(node.children) /\ node.children[j].end > node.children[i].start
    BY <1>2, <1>5
  <2>2. \A k \in 1..(i - 1) : node.children[k].end <= node.children[i].start
    BY <1>2 DEF WellFormed
  <2>3. ASSUME j < i PROVE FALSE
    <3>1. j \in 1..(i - 1)
      BY <1>1, <2>1, <2>3
    <3>2. node.children[j].end <= node.children[i].start
      BY <2>2, <3>1
    <3> QED
      BY <1>3, <2>1, <3>2
  <2> QED
    BY <1>1, <2>1, <2>3
<1>6. past \subseteq Nat
  BY <1>1, <1>2
<1>7. Min(past) = i
  <2> HIDE DEF past
  <2>1. \A x \in past : (\A y \in past : x <= y) => x = i
    BY <1>4, <1>5, <1>6
  <2> QED
    BY <1>4, <1>5, <2>1 DEF Min
<1>8. past # {}
  BY <1>4
<1> QED
  BY <1>7, <1>8 DEF FirstChildForByte

-----------------------------------------------------------------------------
(* The nested calls.                                                       *)

\* A call, as the writer keeps it.
Activation(tree) == [node : Nodes(tree), first : BOOLEAN, index : Nat, restore : Nat]

\* The calls are for containers, the first of them for the value of the document.
CallsOf(tree, cs) ==
    /\ cs \in Seq(Activation(tree))
    /\ cs # <<>>
    /\ \A k \in 1..Len(cs) : cs[k].node.kind \in Containers
    /\ DocumentSymbols(tree) = <<"[">> \o Collected(tree)[cs[1].node] \o <<"]">>

\* A call waits for the one that writes the value of its at-th child.  Once that is done,
\* the caller has written what is collected up to this child, finds the child by its first
\* byte, and counts it.  base and next are what had been written when each was called.
Suspended(tree, caller, at, callee, base, next) ==
    /\ at \in 1..Len(caller.node.children)
    /\ caller.node.children[at].start < caller.node.children[at].end
    /\ callee.restore = caller.node.children[at].start
    /\ ~caller.first
    /\ Index(tree, caller.node, at) = caller.index + 1
    /\ base \o Result(tree, caller.node, at)
         = (next \o Collected(tree)[callee.node]) \o <<"]", "}">>

\* What each call was called with leads to the symbols of the document.
Stack(tree, cs, base, at) ==
    /\ base[1] = <<"[">>
    /\ \A k \in 1..Len(cs) :
          IsPrefix(base[k] \o Collected(tree)[cs[k].node], DocumentSymbols(tree))
    /\ \A k \in 1..(Len(cs) - 1) :
          Suspended(tree, cs[k], at[k], cs[k + 1], base[k], base[k + 1])

\* Where the innermost call is: it has written the symbols of its first children.
Position(tree, frame, done, base, out) ==
    /\ frame.index = Index(tree, frame.node, done)
    /\ frame.first <=> frame.index = 0
    /\ out = base \o Result(tree, frame.node, done)

\* The beginning of a sequence.
LEMMA Beginning ==
    ASSUME NEW S, NEW s \in Seq(S), NEW m \in 0..Len(s)
    PROVE  /\ SubSeq(s, 1, m) \in Seq(S)
           /\ Len(SubSeq(s, 1, m)) = m
           /\ \A k \in 1..m : SubSeq(s, 1, m)[k] = s[k]
<1>1. Len(s) \in Nat /\ \A k \in 1..Len(s) : s[k] \in S
  BY LenProperties, ElementOfSeq
<1>2. m \in Nat /\ \A k \in 1..m : s[k] \in S
  BY <1>1
<1>3. SubSeq(s, 1, m) \in Seq(S)
  BY <1>2
<1>4. Len(SubSeq(s, 1, m)) = m
  BY <1>1, <1>2
<1>5. \A k \in 1..m : SubSeq(s, 1, m)[k] = s[k]
  BY <1>1, <1>2
<1> QED
  BY <1>3, <1>4, <1>5

\* A sequence with a last element is not empty.
LEMMA AppendIsNotEmpty ==
    ASSUME NEW S, NEW s \in Seq(S), NEW e \in S
    PROVE  Append(s, e) # <<>>
  BY AppendProperties

\* An element appended to a sequence.
LEMMA Appended ==
    ASSUME NEW S, NEW s \in Seq(S), NEW e \in S
    PROVE  /\ Append(s, e) \in Seq(S)
           /\ Append(s, e) # <<>>
           /\ Len(Append(s, e)) = Len(s) + 1
           /\ \A k \in 1..Len(s) : Append(s, e)[k] = s[k]
           /\ Append(s, e)[Len(s) + 1] = e
<1>1. Append(s, e) \in Seq(S)
  BY AppendProperties
<1>2. Append(s, e) # <<>>
  BY AppendProperties
<1>3. Len(Append(s, e)) = Len(s) + 1
  BY AppendProperties
<1>4. \A k \in 1..Len(s) : Append(s, e)[k] = s[k]
  BY AppendProperties
<1>5. Append(s, e)[Len(s) + 1] = e
  BY AppendProperties
<1> QED
  BY <1>1, <1>2, <1>3, <1>4, <1>5

\* The last element of a sequence replaced, and dropped together with the one before it.
LEMMA LastReplaced ==
    ASSUME NEW S, NEW s \in Seq(S), s # <<>>, NEW e \in S
    PROVE  /\ Append(Front(s), e) \in Seq(S)
           /\ Append(Front(s), e) # <<>>
           /\ Len(Append(Front(s), e)) = Len(s)
           /\ \A k \in 1..(Len(s) - 1) : Append(Front(s), e)[k] = s[k]
           /\ Append(Front(s), e)[Len(s)] = e
<1> DEFINE f == Front(s)
<1>1. Len(s) \in Nat /\ Len(s) # 0
  BY LenProperties
<1>2. f \in Seq(S) /\ Len(f) = Len(s) - 1 /\ \A k \in 1..(Len(s) - 1) : f[k] = s[k]
  <2>1. Len(s) - 1 \in 0..Len(s)
    BY <1>1
  <2> QED
    BY <2>1, Beginning DEF Front
<1> HIDE DEF f
<1>3. /\ Append(f, e) \in Seq(S) /\ Append(f, e) # <<>> /\ Len(Append(f, e)) = Len(f) + 1
      /\ \A k \in 1..Len(f) : Append(f, e)[k] = f[k]
      /\ Append(f, e)[Len(f) + 1] = e
  BY <1>2, AppendProperties
<1>4. Len(f) + 1 = Len(s) /\ Len(f) = Len(s) - 1
  BY <1>1, <1>2
<1> QED
  BY <1>2, <1>3, <1>4 DEF f

\* The last two elements of a sequence replaced by one.
LEMMA TwoReplaced ==
    ASSUME NEW S, NEW s \in Seq(S), Len(s) > 1, NEW e \in S
    PROVE  /\ Append(SubSeq(s, 1, Len(s) - 2), e) \in Seq(S)
           /\ Append(SubSeq(s, 1, Len(s) - 2), e) # <<>>
           /\ Len(Append(SubSeq(s, 1, Len(s) - 2), e)) = Len(s) - 1
           /\ \A k \in 1..(Len(s) - 2) : Append(SubSeq(s, 1, Len(s) - 2), e)[k] = s[k]
           /\ Append(SubSeq(s, 1, Len(s) - 2), e)[Len(s) - 1] = e
<1> DEFINE f == SubSeq(s, 1, Len(s) - 2)
<1>1. Len(s) \in Nat
  BY LenProperties
<1>2. f \in Seq(S) /\ Len(f) = Len(s) - 2 /\ \A k \in 1..(Len(s) - 2) : f[k] = s[k]
  <2>1. Len(s) - 2 \in 0..Len(s)
    BY <1>1
  <2> QED
    BY <2>1, Beginning
<1> HIDE DEF f
<1>3. /\ Append(f, e) \in Seq(S) /\ Append(f, e) # <<>> /\ Len(Append(f, e)) = Len(f) + 1
      /\ \A k \in 1..Len(f) : Append(f, e)[k] = f[k]
      /\ Append(f, e)[Len(f) + 1] = e
  BY <1>2, AppendProperties
<1>4. Len(f) + 1 = Len(s) - 1
  BY <1>1, <1>2
<1> QED
  BY <1>2, <1>3, <1>4 DEF f

\* Calls, the innermost of which is this one, on the same stack.
Calls(tree, cs, base, at, n, frame) ==
    /\ CallsOf(tree, cs)
    /\ Stack(tree, cs, base, at)
    /\ Len(cs) = n
    /\ Last(cs) = frame

\* A call goes on: its counters change, not its node.
LEMMA FrameChanges ==
    ASSUME NEW tree, NEW cs, NEW base, NEW at, CallsOf(tree, cs), Stack(tree, cs, base, at),
           NEW frame \in Activation(tree),
           frame.node = Last(cs).node, frame.restore = Last(cs).restore
    PROVE  Calls(tree, Append(Front(cs), frame), base, at, Len(cs), frame)
<1> DEFINE ds == Append(Front(cs), frame)
<1> DEFINE n == Len(cs)
<1>1. cs \in Seq(Activation(tree)) /\ cs # <<>>
  BY DEF CallsOf
<1>2. n \in Nat /\ n >= 1
  BY <1>1, LenProperties
<1>3. /\ ds \in Seq(Activation(tree)) /\ ds # <<>> /\ Len(ds) = n
      /\ \A k \in 1..(n - 1) : ds[k] = cs[k]
      /\ ds[n] = frame
  BY <1>1, LastReplaced
<1>4. frame.node = cs[n].node /\ frame.restore = cs[n].restore
  BY DEF Last
<1> HIDE DEF ds, n
<1>5. \A k \in 1..n : ds[k].node = cs[k].node /\ ds[k].restore = cs[k].restore
  <2> TAKE k \in 1..n
  <2>1. k = n \/ k \in 1..(n - 1)
    BY <1>2
  <2> QED
    BY <1>3, <1>4, <2>1
<1>6. 1 \in 1..n
  BY <1>2
<1>7. CallsOf(tree, ds)
  BY <1>3, <1>5, <1>6 DEF CallsOf, n
<1>8. \A k \in 1..(n - 1) : k + 1 \in 1..n /\ k \in 1..n
  BY <1>2
<1>9. ASSUME NEW k \in 1..(n - 1)
      PROVE  Suspended(tree, ds[k], at[k], ds[k + 1], base[k], base[k + 1])
  <2>1. Suspended(tree, cs[k], at[k], cs[k + 1], base[k], base[k + 1])
    BY DEF Stack, n
  <2>2. ds[k] = cs[k]
    BY <1>3
  <2>3. ds[k + 1].node = cs[k + 1].node /\ ds[k + 1].restore = cs[k + 1].restore
    BY <1>5, <1>8
  <2> QED
    BY <2>1, <2>2, <2>3 DEF Suspended
<1>10. Stack(tree, ds, base, at)
  BY <1>3, <1>5, <1>9 DEF Stack, n
<1>11. Last(ds) = frame
  BY <1>3 DEF Last
<1>12. Calls(tree, ds, base, at, n, frame)
  BY <1>3, <1>7, <1>10, <1>11 DEF Calls
<1> QED
  BY <1>12 DEF ds, n

\* The innermost call has just been made.
Entered(tree, cs, call, next) ==
    /\ CallsOf(tree, cs)
    /\ Last(cs) = call
    /\ \E base \in [Nat -> Json(tree)], at \in [Nat -> Nat] :
          Stack(tree, cs, base, at) /\ base[Len(cs)] = next

\* A call put on the stack of the one that waits for it.
LEMMA CallEntered ==
    ASSUME NEW tree, NEW cs, NEW base \in [Nat -> Json(tree)], NEW at \in [Nat -> Nat],
           CallsOf(tree, cs), Stack(tree, cs, base, at),
           NEW call \in Activation(tree), call.node.kind \in Containers,
           NEW c \in Nat, NEW next \in Json(tree),
           Suspended(tree, Last(cs), c, call, base[Len(cs)], next),
           IsPrefix(next \o Collected(tree)[call.node], DocumentSymbols(tree))
    PROVE  Entered(tree, Append(cs, call), call, next)
<1> DEFINE ds == Append(cs, call)
<1> DEFINE n == Len(cs)
<1>1. cs \in Seq(Activation(tree)) /\ cs # <<>>
  BY DEF CallsOf
<1>2. n \in Nat /\ n >= 1
  BY <1>1, LenProperties
<1>3. /\ ds \in Seq(Activation(tree)) /\ ds # <<>> /\ Len(ds) = n + 1
      /\ \A k \in 1..n : ds[k] = cs[k]
      /\ ds[n + 1] = call
  <2> DEFINE S == Activation(tree)
  <2>1. cs \in Seq(S) /\ call \in S
    BY <1>1
  <2> HIDE DEF S
  <2>2. Append(cs, call) \in Seq(S)
    BY <2>1, Appended
  <2>3. Len(Append(cs, call)) = Len(cs) + 1
    BY <2>1, Appended
  <2>4. Append(cs, call) # <<>>
    BY <2>1, AppendIsNotEmpty
  <2>5. \A k \in 1..Len(cs) : Append(cs, call)[k] = cs[k]
    BY <2>1, Appended
  <2>6. Append(cs, call)[Len(cs) + 1] = call
    BY <2>1, Appended
  <2> QED
    BY <2>2, <2>3, <2>4, <2>5, <2>6 DEF S
<1> HIDE DEF ds, n
<1>4. CallsOf(tree, ds)
  <2>1. \A k \in 1..(n + 1) : k = n + 1 \/ k \in 1..n
    BY <1>2
  <2>2. 1 \in 1..n
    BY <1>2
  <2>3. ds[1] = cs[1]
    BY <1>3, <2>2
  <2>4. ASSUME NEW k \in 1..Len(ds) PROVE ds[k].node.kind \in Containers
    <3>1. k = n + 1 \/ k \in 1..n
      BY <1>3, <2>1
    <3> QED
      BY <1>3, <3>1 DEF CallsOf, n
  <2> QED
    BY <1>3, <2>3, <2>4 DEF CallsOf
<1> DEFINE b == [base EXCEPT ![n + 1] = next]
<1> DEFINE a == [at EXCEPT ![n] = c]
<1>5. b \in [Nat -> Json(tree)] /\ a \in [Nat -> Nat] /\ b[n + 1] = next /\ a[n] = c
  <2>1. n + 1 \in Nat
    BY <1>2
  <2>2. b \in [Nat -> Json(tree)] /\ b[n + 1] = next
    BY <2>1
  <2>3. a \in [Nat -> Nat] /\ a[n] = c
    BY <1>2
  <2> QED
    BY <2>2, <2>3
<1>6. /\ \A k \in 1..n : b[k] = base[k]
      /\ \A k \in 1..(n - 1) : a[k] = at[k]
  <2>1. \A k \in 1..n : k \in Nat /\ k # n + 1
    BY <1>2
  <2>2. \A k \in 1..(n - 1) : k \in Nat /\ k # n
    BY <1>2
  <2>3. \A k \in Nat : (k # n + 1 => b[k] = base[k]) /\ (k # n => a[k] = at[k])
    OBVIOUS
  <2> HIDE DEF a, b
  <2> QED
    BY <2>1, <2>2, <2>3
<1> HIDE DEF b, a
<1>7. b[1] = <<"[">>
  <2>1. 1 \in 1..n
    BY <1>2
  <2> QED
    BY <1>6, <2>1 DEF Stack
<1>8. ASSUME NEW k \in 1..(n + 1)
      PROVE  IsPrefix(b[k] \o Collected(tree)[ds[k].node], DocumentSymbols(tree))
  <2>1. CASE k = n + 1
    BY <1>3, <1>5, <2>1
  <2>2. CASE k # n + 1
    <3>1. k \in 1..n
      BY <1>2, <2>2
    <3> QED
      BY <1>3, <1>6, <3>1 DEF Stack, n
  <2> QED
    BY <2>1, <2>2
<1>9. ASSUME NEW k \in 1..n
      PROVE  Suspended(tree, ds[k], a[k], ds[k + 1], b[k], b[k + 1])
  <2>1. CASE k = n
    <3>1. n \in 1..n
      BY <1>2
    <3>2. ds[n] = Last(cs) /\ b[n] = base[n]
      BY <1>3, <1>6, <3>1 DEF Last, n
    <3> QED
      BY <1>3, <1>5, <2>1, <3>2 DEF n
  <2>2. CASE k # n
    <3>1. k \in 1..(n - 1) /\ k \in 1..n /\ k + 1 \in 1..n
      BY <1>2, <2>2
    <3> QED
      BY <1>3, <1>6, <3>1 DEF Stack, n
  <2> QED
    BY <2>1, <2>2
<1>10. Len(ds) - 1 = n
  BY <1>2, <1>3
<1>11. Stack(tree, ds, b, a)
  BY <1>3, <1>7, <1>8, <1>9, <1>10 DEF Stack
<1>12. Last(ds) = call
  BY <1>3 DEF Last
<1>13. Entered(tree, ds, call, next)
  BY <1>3, <1>4, <1>5, <1>11, <1>12 DEF Entered
<1> QED
  BY <1>13 DEF ds

\* The end of a call: its caller goes on.
LEMMA CallEnded ==
    ASSUME NEW tree, NEW cs, NEW base, NEW at, CallsOf(tree, cs), Stack(tree, cs, base, at),
           Len(cs) > 1, NEW frame \in Activation(tree),
           frame.node = cs[Len(cs) - 1].node, frame.restore = cs[Len(cs) - 1].restore
    PROVE  Calls(tree, Append(SubSeq(cs, 1, Len(cs) - 2), frame), base, at, Len(cs) - 1, frame)
<1> DEFINE ds == Append(SubSeq(cs, 1, Len(cs) - 2), frame)
<1> DEFINE n == Len(cs)
<1>1. cs \in Seq(Activation(tree))
  BY DEF CallsOf
<1>2. n \in Nat /\ n > 1
  BY <1>1, LenProperties
<1>3. /\ ds \in Seq(Activation(tree)) /\ ds # <<>> /\ Len(ds) = n - 1
      /\ \A k \in 1..(n - 2) : ds[k] = cs[k]
      /\ ds[n - 1] = frame
  BY <1>1, TwoReplaced
<1> HIDE DEF ds
<1>4. \A k \in 1..(n - 1) : ds[k].node = cs[k].node /\ ds[k].restore = cs[k].restore
  <2> TAKE k \in 1..(n - 1)
  <2>1. k = n - 1 \/ k \in 1..(n - 2)
    BY <1>2
  <2> QED
    BY <1>3, <2>1
<1> HIDE DEF n
<1>5. 1 \in 1..(n - 1) /\ \A k \in 1..(n - 1) : k \in 1..n
  BY <1>2
<1>6. CallsOf(tree, ds)
  BY <1>3, <1>4, <1>5 DEF CallsOf, n
<1>7. \A k \in 1..((n - 1) - 1) : k + 1 \in 1..(n - 1) /\ k \in 1..(n - 1) /\ k \in 1..(n - 2)
  BY <1>2
<1>8. ASSUME NEW k \in 1..((n - 1) - 1)
      PROVE  Suspended(tree, ds[k], at[k], ds[k + 1], base[k], base[k + 1])
  <2>1. Suspended(tree, cs[k], at[k], cs[k + 1], base[k], base[k + 1])
    BY <1>7 DEF Stack, n
  <2>2. ds[k] = cs[k]
    BY <1>3, <1>7
  <2>3. ds[k + 1].node = cs[k + 1].node /\ ds[k + 1].restore = cs[k + 1].restore
    BY <1>4, <1>7
  <2> QED
    BY <2>1, <2>2, <2>3 DEF Suspended
<1>9. Stack(tree, ds, base, at)
  BY <1>3, <1>4, <1>5, <1>8 DEF Stack, n
<1>10. Last(ds) = frame
  BY <1>3 DEF Last
<1>11. Calls(tree, ds, base, at, n - 1, frame)
  BY <1>3, <1>6, <1>9, <1>10 DEF Calls
<1> QED
  BY <1>11 DEF ds, n

-----------------------------------------------------------------------------
(* The steps of the innermost call.                                        *)

\* The innermost call is behind its first children, and what has been written leads to
\* the symbols of the document.
Written(tree, cs, done, out) ==
    \E base \in [Nat -> Json(tree)], at \in [Nat -> Nat] :
        /\ Stack(tree, cs, base, at)
        /\ Position(tree, Last(cs), done, base[Len(cs)], out)

\* The innermost call, as part of the stack.
LEMMA Innermost ==
    ASSUME NEW tree, NEW cs, CallsOf(tree, cs)
    PROVE  /\ Len(cs) \in Nat /\ Len(cs) >= 1 /\ Len(cs) \in 1..Len(cs)
           /\ Last(cs) = cs[Len(cs)]
           /\ Last(cs) \in Activation(tree)
           /\ Last(cs).node \in Nodes(tree)
           /\ Last(cs).node.kind \in Containers
<1>1. cs \in Seq(Activation(tree)) /\ cs # <<>>
  BY DEF CallsOf
<1>2. Len(cs) \in Nat /\ Len(cs) >= 1
  BY <1>1, LenProperties
<1>3. Len(cs) \in 1..Len(cs)
  BY <1>2
<1>4. cs[Len(cs)] \in Activation(tree)
  BY <1>1, <1>3, ElementOfSeq
<1>5. cs[Len(cs)].node.kind \in Containers
  BY <1>3 DEF CallsOf
<1> QED
  BY <1>2, <1>3, <1>4, <1>5 DEF Last, Activation

\* What has been written so far is the beginning of the symbols.
LEMMA WrittenIsPrefix ==
    ASSUME NEW tree, WellFormed(tree), NEW cs, CallsOf(tree, cs),
           NEW done \in 0..Len(Last(cs).node.children), NEW out, Written(tree, cs, done, out),
           DocumentSymbols(tree) \in Json(tree)
    PROVE  IsPrefix(out, DocumentSymbols(tree))
<1>1. PICK base \in [Nat -> Json(tree)], at \in [Nat -> Nat] :
         /\ Stack(tree, cs, base, at)
         /\ Position(tree, Last(cs), done, base[Len(cs)], out)
  BY DEF Written
<1> DEFINE node == Last(cs).node
<1> DEFINE b == base[Len(cs)]
<1> DEFINE r == Result(tree, node, done)
<1> DEFINE l == Collected(tree)[node]
<1> DEFINE S == Event(tree)
<1>2. node \in Nodes(tree)
  BY Innermost
<1>3. IsPrefix(r, l)
  BY <1>2, RoundsGrow
<1>4. b \in Seq(S)
  BY Innermost DEF Json
<1>5. r \in Seq(S) /\ l \in Seq(S)
  BY <1>2, RoundTypes DEF Json
<1>6. out = b \o r
  BY <1>1 DEF Position
<1>7. IsPrefix(b \o l, DocumentSymbols(tree))
  BY <1>1, Innermost DEF Stack
<1> DEFINE d == DocumentSymbols(tree)
<1>8. d \in Seq(S)
  BY DEF Json
<1> HIDE DEF b, r, l, d, S
<1>9. IsPrefix(b \o r, b \o l)
  BY <1>3, <1>4, <1>5, PrefixAfter
<1> DEFINE br == b \o r
<1> DEFINE bl == b \o l
<1>10. br \in Seq(S) /\ bl \in Seq(S)
  BY <1>4, <1>5, ConcatProperties
<1>11. IsPrefix(br, bl) /\ IsPrefix(bl, d)
  BY <1>7, <1>9 DEF d
<1> HIDE DEF br, bl
<1>12. IsPrefix(br, d)
  BY <1>8, <1>10, <1>11, PrefixTransitive
<1> QED
  BY <1>6, <1>12 DEF br, d

\* A child that has no symbol.
LEMMA SkipsChild ==
    ASSUME NEW tree, WellFormed(tree), NEW cs, CallsOf(tree, cs),
           NEW c \in 1..Len(Last(cs).node.children), NEW out, Written(tree, cs, c - 1, out),
           ~Reports(Last(cs).node, Last(cs).node.children[c])
    PROVE  Written(tree, cs, c, out)
<1> DEFINE node == Last(cs).node
<1>1. node \in Nodes(tree)
  BY Innermost
<1>2. /\ Result(tree, node, c) = Result(tree, node, c - 1)
      /\ Index(tree, node, c) = Index(tree, node, c - 1)
  BY <1>1, RoundSkips
<1> QED
  BY <1>2 DEF Written, Position

\* The comma and the symbol that the innermost call writes are those that are collected.
HeadOf(frame, child) ==
    (IF frame.first THEN <<>> ELSE <<",">>)
       \o <<[name |-> SymbolName(frame.node, child, frame.index), node |-> child]>>

\* The writer's flag for the comma agrees with the number of symbols collected.
LEMMA HeadWritten ==
    ASSUME NEW tree, NEW frame, NEW done, NEW base, NEW out, NEW child,
           Position(tree, frame, done, base, out), frame.first \in BOOLEAN
    PROVE  HeadOf(frame, child)
             = SymbolHead(frame.node, child, Index(tree, frame.node, done))
<1>1. frame.index = Index(tree, frame.node, done) /\ (frame.first <=> frame.index = 0)
  BY DEF Position
<1>2. (IF frame.first THEN <<>> ELSE <<",">>) = Comma(frame.index)
  BY <1>1 DEF Comma
<1> QED
  BY <1>1, <1>2 DEF SymbolHead, HeadOf

\* The counters of a call.
LEMMA BeganIsCall ==
    ASSUME NEW tree, NEW top \in Activation(tree)
    PROVE  /\ top.first \in BOOLEAN /\ top.index \in Nat /\ top.index + 1 # 0
           /\ Began(top) \in Activation(tree)
           /\ Began(top).node = top.node /\ Began(top).restore = top.restore
           /\ Began(top).first = FALSE /\ Began(top).index = top.index
<1>1. top.first \in BOOLEAN /\ top.index \in Nat
  BY DEF Activation
<1>2. top.index + 1 # 0
  BY <1>1
<1>3. Began(top) \in Activation(tree)
  BY DEF Activation, Began
<1>4. Began(top).node = top.node /\ Began(top).restore = top.restore
  BY DEF Activation, Began
<1>5. Began(top).first = FALSE /\ Began(top).index = top.index
  BY DEF Activation, Began
<1> QED
  BY <1>1, <1>2, <1>3, <1>4, <1>5

\* A call whose symbols are counted stays one.
LEMMA CountedIsCall ==
    ASSUME NEW tree, NEW top \in Activation(tree)
    PROVE  /\ Counted(top) \in Activation(tree)
           /\ Counted(top).node = top.node /\ Counted(top).restore = top.restore
           /\ Counted(top).first = top.first /\ Counted(top).index = top.index + 1
  BY DEF Activation, Counted

\* A child whose symbol has no children.
LEMMA WritesPlain ==
    ASSUME NEW tree, WellFormed(tree), NEW cs, CallsOf(tree, cs),
           NEW c \in 1..Len(Last(cs).node.children), NEW out, Written(tree, cs, c - 1, out),
           Reports(Last(cs).node, Last(cs).node.children[c]),
           SymbolValue(Last(cs).node, Last(cs).node.children[c]).kind \notin Containers,
           NEW frame, frame = Counted(Began(Last(cs))),
           NEW head, head = HeadOf(Last(cs), Last(cs).node.children[c])
    PROVE  /\ CallsOf(tree, Append(Front(cs), frame))
           /\ Last(Append(Front(cs), frame)) = frame
           /\ Written(tree, Append(Front(cs), frame), c, (out \o head) \o <<"}">>)
<1>1. PICK base \in [Nat -> Json(tree)], at \in [Nat -> Nat] :
         /\ Stack(tree, cs, base, at)
         /\ Position(tree, Last(cs), c - 1, base[Len(cs)], out)
  BY DEF Written
<1> DEFINE ds == Append(Front(cs), frame)
<1> DEFINE node == Last(cs).node
<1> DEFINE child == node.children[c]
<1> DEFINE b == base[Len(cs)]
<1>2. Last(cs) \in Activation(tree) /\ node \in Nodes(tree) /\ b \in Json(tree)
  BY Innermost
<1>3. /\ Last(cs).first \in BOOLEAN /\ Last(cs).index \in Nat /\ Last(cs).index + 1 # 0
      /\ frame \in Activation(tree) /\ frame.node = node /\ frame.restore = Last(cs).restore
      /\ frame.first = FALSE /\ frame.index = Last(cs).index + 1
  <2> DEFINE top == Last(cs)
  <2>1. top \in Activation(tree) /\ frame = Counted(Began(top))
    BY <1>2
  <2> HIDE DEF top
  <2>2. /\ Began(top) \in Activation(tree)
        /\ Began(top).node = top.node /\ Began(top).restore = top.restore
        /\ Began(top).first = FALSE /\ Began(top).index = top.index
        /\ top.first \in BOOLEAN /\ top.index \in Nat /\ top.index + 1 # 0
    BY <2>1, BeganIsCall
  <2> DEFINE began == Began(top)
  <2>3. began \in Activation(tree)
    BY <2>2
  <2> HIDE DEF began
  <2>4. /\ Counted(began) \in Activation(tree)
        /\ Counted(began).node = began.node /\ Counted(began).restore = began.restore
        /\ Counted(began).first = began.first /\ Counted(began).index = began.index + 1
    BY <2>3, CountedIsCall
  <2>5. frame = Counted(began)
    BY <2>1 DEF began
  <2> QED
    BY <2>2, <2>4, <2>5 DEF top, began
<1>4. CallsOf(tree, ds) /\ Stack(tree, ds, base, at) /\ Len(ds) = Len(cs) /\ Last(ds) = frame
  <2>1. frame.node = Last(cs).node /\ frame.restore = Last(cs).restore
    BY <1>3
  <2>2. Calls(tree, Append(Front(cs), frame), base, at, Len(cs), frame)
    BY <1>1, <1>3, <2>1, FrameChanges
  <2> QED
    BY <2>2 DEF Calls
<1>5. Index(tree, node, c) = Index(tree, node, c - 1) + 1
  BY <1>2, RoundPushes
<1>6. Last(cs).index = Index(tree, node, c - 1) /\ out = b \o Result(tree, node, c - 1)
  BY <1>1 DEF Position
<1>7. head = SymbolHead(node, child, Index(tree, node, c - 1))
  <2> DEFINE top == Last(cs)
  <2>1. Position(tree, top, c - 1, b, out) /\ top.first \in BOOLEAN
    BY <1>1, <1>3
  <2>2. head = HeadOf(top, child)
    OBVIOUS
  <2> HIDE DEF top, child, b
  <2>3. head = SymbolHead(top.node, child, Index(tree, top.node, c - 1))
    BY <2>1, <2>2, HeadWritten
  <2> QED
    BY <2>3 DEF top
<1>8. b \o Result(tree, node, c)
        = ((b \o Result(tree, node, c - 1))
             \o SymbolHead(node, child, Index(tree, node, c - 1))) \o <<"}">>
  BY <1>2, PlainSymbol
<1>9. b \o Result(tree, node, c) = (out \o head) \o <<"}">>
  BY <1>6, <1>7, <1>8
<1> HIDE DEF ds, node, b
<1>10. Position(tree, frame, c, b, (out \o head) \o <<"}">>)
  <2>1. frame.index = Index(tree, frame.node, c)
    BY <1>3, <1>5, <1>6
  <2>2. frame.index # 0
    BY <1>3
  <2> QED
    BY <1>3, <1>9, <2>1, <2>2 DEF Position
<1>11. Written(tree, ds, c, (out \o head) \o <<"}">>)
  BY <1>4, <1>10 DEF Written, b
<1> QED
  BY <1>4, <1>11 DEF ds

\* The symbols of a document with a container are a list.
LEMMA SymbolsAreJson ==
    ASSUME NEW tree, WellFormed(tree), NEW cs, CallsOf(tree, cs)
    PROVE  DocumentSymbols(tree) \in Json(tree)
<1>1. cs[1].node \in Nodes(tree)
  <2>1. cs \in Seq(Activation(tree)) /\ 1 \in 1..Len(cs)
    BY Innermost DEF CallsOf
  <2>2. cs[1] \in Activation(tree)
    BY <2>1, ElementOfSeq
  <2> QED
    BY <2>2 DEF Activation
<1> DEFINE l == Collected(tree)[cs[1].node]
<1>2. l \in Json(tree)
  BY <1>1, CollectedOf
<1>3. DocumentSymbols(tree) = <<"[">> \o l \o <<"]">>
  BY DEF CallsOf
<1> DEFINE o == <<"[">>
<1> DEFINE q == <<"]">>
<1> DEFINE S == Event(tree)
<1>4. o \in Seq(S) /\ q \in Seq(S) /\ l \in Seq(S)
  BY <1>2, PieceTypes DEF Json
<1> HIDE DEF o, q, l, S
<1>5. o \o l \in Seq(S)
  BY <1>4, ConcatProperties
<1> DEFINE ol == o \o l
<1>6. ol \in Seq(S)
  BY <1>5
<1> HIDE DEF ol
<1>7. ol \o q \in Seq(S)
  BY <1>4, <1>6, ConcatProperties
<1> QED
  BY <1>3, <1>7 DEF ol, o, q, Json, S

\* The child of a container that has a list of its own is not empty.
LEMMA ChildHasBytes ==
    ASSUME NEW tree, WellFormed(tree), NEW node \in Nodes(tree),
           NEW i \in 1..Len(node.children), Reports(node, node.children[i]),
           SymbolValue(node, node.children[i]).kind \in Containers
    PROVE  /\ node.children[i].start \in Nat
           /\ node.children[i].start < node.children[i].end
<1> DEFINE child == node.children[i]
<1>1. child \in Nodes(tree)
  BY ChildIsNode
<1> HIDE DEF child
<1>2. child.start \in Nat /\ child.end \in Nat
  BY <1>1 DEF WellFormed
<1>3. CASE node.kind = "object" /\ child.kind = "pair" /\ HasContent(PairKey(child))
  <2>1. /\ PairKey(child) = child.children[1]
        /\ PairKey(child) \in Nodes(tree)
        /\ 1 \in 1..Len(child.children)
    BY <1>1, <1>3, ChildIsNode, KeyAndValue
  <2>2. 1 \in DOMAIN child.children
    BY <1>1, <2>1, ChildIsNode, LenProperties
  <2>3. child.start <= child.children[1].start /\ child.children[1].end <= child.end
    BY <1>1, <2>2 DEF WellFormed
  <2> DEFINE key == PairKey(child)
  <2>4. key.start \in Nat /\ key.end \in Nat /\ key.start < key.end
    <3>1. key \in Nodes(tree)
      BY <2>1
    <3>2. key.start < key.end
      BY <1>3 DEF HasContent
    <3> HIDE DEF key
    <3> QED
      BY <3>1, <3>2 DEF WellFormed
  <2>5. child.start <= key.start /\ key.end <= child.end
    BY <2>1, <2>3
  <2> HIDE DEF key
  <2> QED
    BY <1>2, <2>4, <2>5 DEF child
<1>4. CASE node.kind = "array" /\ IsValueNode(child)
  <2>1. child.kind \in Containers
    BY <1>4 DEF SymbolValue, child
  <2>2. child.start < child.end
    BY <1>1, <2>1 DEF WellFormed, Containers
  <2> QED
    BY <1>2, <2>2 DEF child
<1>5. Reports(node, child)
  BY DEF child
<1> QED
  BY <1>3, <1>4, <1>5 DEF Reports

\* A call that begins has written nothing of its list.
LEMMA CallBegins ==
    ASSUME NEW tree, WellFormed(tree), NEW call \in Activation(tree), call.first,
           call.index = 0, NEW next \in Json(tree)
    PROVE  Position(tree, call, 0, next, next)
<1>1. call.node \in Nodes(tree)
  BY DEF Activation
<1>2. Result(tree, call.node, 0) = <<>> /\ Index(tree, call.node, 0) = 0
  BY <1>1, RoundTypes
<1>3. next \o <<>> = next
  BY ConcatEmptySeq DEF Json
<1> QED
  BY <1>2, <1>3 DEF Position

\* What leads to what leads to the symbols.
LEMMA LeadsOn ==
    ASSUME NEW tree, NEW b \in Json(tree), NEW r \in Json(tree), NEW l \in Json(tree),
           NEW d \in Json(tree), NEW w \in Json(tree), NEW rest \in Json(tree),
           IsPrefix(r, l), IsPrefix(b \o l, d), b \o r = w \o rest
    PROVE  IsPrefix(w, d)
<1> DEFINE S == Event(tree)
<1>1. /\ b \in Seq(S) /\ r \in Seq(S) /\ l \in Seq(S)
      /\ d \in Seq(S) /\ w \in Seq(S) /\ rest \in Seq(S)
  BY DEF Json
<1> HIDE DEF S
<1> DEFINE br == b \o r
<1> DEFINE bl == b \o l
<1> DEFINE wr == w \o rest
<1>2. br \in Seq(S) /\ bl \in Seq(S)
  BY <1>1, ConcatProperties
<1>3. IsPrefix(b \o r, b \o l)
  BY <1>1, PrefixAfter
<1>4. IsPrefix(w, w \o rest)
  BY <1>1, PrefixOfConcat
<1>5. IsPrefix(br, bl) /\ IsPrefix(bl, d) /\ IsPrefix(w, br)
  BY <1>3, <1>4
<1> HIDE DEF br, bl
<1>6. IsPrefix(w, bl)
  BY <1>1, <1>2, <1>5, PrefixTransitive
<1> QED
  BY <1>1, <1>2, <1>5, <1>6, PrefixTransitive

\* A child whose symbol has a list, which a call of its own writes.
LEMMA WritesContainer ==
    ASSUME NEW tree, WellFormed(tree), NEW cs, CallsOf(tree, cs),
           NEW c \in 1..Len(Last(cs).node.children), NEW out, Written(tree, cs, c - 1, out),
           Reports(Last(cs).node, Last(cs).node.children[c]),
           NEW val, val = SymbolValue(Last(cs).node, Last(cs).node.children[c]),
           val.kind \in Containers,
           NEW frame, frame = Began(Last(cs)),
           NEW call, call = Call(val, Last(cs).node.children[c].start),
           NEW head, head = HeadOf(Last(cs), Last(cs).node.children[c])
    PROVE  /\ CallsOf(tree, Append(Append(Front(cs), frame), call))
           /\ Last(Append(Append(Front(cs), frame), call)) = call
           /\ Written(tree, Append(Append(Front(cs), frame), call), 0, (out \o head) \o <<"[">>)
<1>1. PICK base \in [Nat -> Json(tree)], at \in [Nat -> Nat] :
         /\ Stack(tree, cs, base, at)
         /\ Position(tree, Last(cs), c - 1, base[Len(cs)], out)
  BY DEF Written
<1> DEFINE ds == Append(Front(cs), frame)
<1> DEFINE node == Last(cs).node
<1> DEFINE child == node.children[c]
<1> DEFINE b == base[Len(cs)]
<1> DEFINE next == (out \o head) \o <<"[">>
<1>2. Last(cs) \in Activation(tree) /\ node \in Nodes(tree) /\ b \in Json(tree)
  BY Innermost
<1>3. /\ Last(cs).first \in BOOLEAN
      /\ frame \in Activation(tree) /\ frame.node = node /\ frame.restore = Last(cs).restore
      /\ frame.first = FALSE /\ frame.index = Last(cs).index
  <2> DEFINE top == Last(cs)
  <2>1. top \in Activation(tree) /\ frame = Began(top)
    BY <1>2
  <2> HIDE DEF top
  <2>2. /\ Began(top) \in Activation(tree)
        /\ Began(top).node = top.node /\ Began(top).restore = top.restore
        /\ Began(top).first = FALSE /\ Began(top).index = top.index
        /\ top.first \in BOOLEAN
    BY <2>1, BeganIsCall
  <2> QED
    BY <2>1, <2>2 DEF top
<1>4. CallsOf(tree, ds) /\ Stack(tree, ds, base, at) /\ Len(ds) = Len(cs) /\ Last(ds) = frame
  <2>1. frame.node = Last(cs).node /\ frame.restore = Last(cs).restore
    BY <1>3
  <2>2. Calls(tree, Append(Front(cs), frame), base, at, Len(cs), frame)
    BY <1>1, <1>3, <2>1, FrameChanges
  <2> QED
    BY <2>2 DEF Calls
<1>5. child.start \in Nat /\ child.start < child.end
  BY <1>2, ChildHasBytes
<1>6. val \in Nodes(tree)
  BY <1>2, ValueIsNode
<1>7. /\ call \in Activation(tree) /\ call.node = val /\ call.first /\ call.index = 0
      /\ call.restore = child.start
  BY <1>5, <1>6 DEF Call, Activation
<1>8. Index(tree, node, c) = Index(tree, node, c - 1) + 1
  BY <1>2, RoundPushes
<1>9. Last(cs).index = Index(tree, node, c - 1) /\ out = b \o Result(tree, node, c - 1)
  BY <1>1 DEF Position
<1>10. head = SymbolHead(node, child, Index(tree, node, c - 1))
  <2> DEFINE top == Last(cs)
  <2>1. Position(tree, top, c - 1, b, out) /\ top.first \in BOOLEAN
    BY <1>1, <1>3
  <2>2. head = HeadOf(top, child)
    OBVIOUS
  <2> HIDE DEF top, child, b
  <2>3. head = SymbolHead(top.node, child, Index(tree, top.node, c - 1))
    BY <2>1, <2>2, HeadWritten
  <2> QED
    BY <2>3 DEF top
<1>11. b \o Result(tree, node, c)
         = ((((b \o Result(tree, node, c - 1))
               \o SymbolHead(node, child, Index(tree, node, c - 1))) \o <<"[">>)
              \o Collected(tree)[val]) \o <<"]", "}">>
  BY <1>2, ContainerSymbol
<1>12. b \o Result(tree, node, c) = (next \o Collected(tree)[val]) \o <<"]", "}">>
  BY <1>9, <1>10, <1>11
<1>13. Suspended(tree, frame, c, call, b, next)
  <2> HIDE DEF next, b
  <2> QED
    BY <1>3, <1>5, <1>7, <1>8, <1>9, <1>12 DEF Suspended
<1>14. next \in Json(tree)
  <2>1. out \in Json(tree)
    <3> DEFINE r == Result(tree, node, c - 1)
    <3> DEFINE S == Event(tree)
    <3>1. b \in Seq(S) /\ r \in Seq(S)
      BY <1>2, RoundPushes DEF Json
    <3> HIDE DEF b, r, S
    <3>2. b \o r \in Seq(S)
      BY <3>1, ConcatProperties
    <3> QED
      BY <1>9, <3>2 DEF r, S, Json
  <2>2. head \in Json(tree)
    BY <1>2, <1>10, RoundPushes
  <2> DEFINE S == Event(tree)
  <2> DEFINE o == <<"[">>
  <2>3. out \in Seq(S) /\ head \in Seq(S) /\ o \in Seq(S)
    BY <2>1, <2>2, PieceTypes DEF Json
  <2> HIDE DEF S, o
  <2> DEFINE written == out \o head
  <2>4. written \in Seq(S)
    BY <2>3, ConcatProperties
  <2> HIDE DEF written
  <2>5. written \o o \in Seq(S)
    BY <2>3, <2>4, ConcatProperties
  <2> QED
    BY <2>5 DEF written, o, S, Json
<1>15. IsPrefix(next \o Collected(tree)[val], DocumentSymbols(tree))
  <2> DEFINE r == Result(tree, node, c)
  <2> DEFINE l == Collected(tree)[node]
  <2> DEFINE d == DocumentSymbols(tree)
  <2> DEFINE w == next \o Collected(tree)[val]
  <2> DEFINE rest == <<"]", "}">>
  <2>1. IsPrefix(r, l) /\ r \in Json(tree) /\ l \in Json(tree)
    <3>1. c \in 0..Len(node.children)
      BY <1>2, ChildIsNode
    <3> QED
      BY <1>2, <3>1, RoundsGrow, RoundTypes
  <2>2. IsPrefix(b \o l, d)
    BY <1>1, Innermost DEF Stack
  <2>3. d \in Json(tree) /\ rest \in Json(tree)
    BY SymbolsAreJson, PieceTypes
  <2>4. w \in Json(tree)
    <3> DEFINE v == Collected(tree)[val]
    <3> DEFINE S == Event(tree)
    <3>1. next \in Seq(S) /\ v \in Seq(S)
      BY <1>6, <1>14, CollectedOf DEF Json
    <3> HIDE DEF next, v, S
    <3>2. next \o v \in Seq(S)
      BY <3>1, ConcatProperties
    <3> QED
      BY <3>2 DEF v, S, Json
  <2>5. b \o r = w \o rest
    BY <1>12
  <2>6. b \in Json(tree)
    BY <1>2
  <2> HIDE DEF b, r, l, d, w, rest
  <2>7. IsPrefix(w, d)
    BY <2>1, <2>2, <2>3, <2>4, <2>5, <2>6, LeadsOn
  <2> QED
    BY <2>7 DEF w, d
<1> DEFINE es == Append(ds, call)
<1> HIDE DEF next, ds
<1>16. Entered(tree, es, call, next)
  <2>1. Suspended(tree, Last(ds), c, call, base[Len(ds)], next)
    BY <1>4, <1>13
  <2>2. /\ call.node.kind \in Containers
        /\ IsPrefix(next \o Collected(tree)[call.node], DocumentSymbols(tree))
    BY <1>7, <1>15
  <2>3. c \in Nat
    BY <1>2, ChildIsNode
  <2> QED
    BY <1>4, <1>7, <1>14, <2>1, <2>2, <2>3, CallEntered
<1>17. Position(tree, call, 0, next, next)
  BY <1>7, <1>14, CallBegins
<1> HIDE DEF es
<1>18. Written(tree, es, 0, next)
  BY <1>16, <1>17 DEF Written, Entered
<1> QED
  BY <1>16, <1>18 DEF es, ds, next, Entered

\* The end of a call that another one waits for: the cursor finds the caller's child.
GoesOn(tree, caller, byte, cs, out) ==
    /\ CallsOf(tree, cs)
    /\ Last(cs).node = caller.node
    /\ \E c \in 1..Len(caller.node.children) :
          /\ FirstChildForByte(caller.node, byte) = [parent |-> caller.node, child |-> c]
          /\ Written(tree, cs, c, out)

\* Return in a nested call leads back to where its caller was.
LEMMA CallReturns ==
    ASSUME NEW tree, WellFormed(tree), NEW cs, CallsOf(tree, cs), Len(cs) > 1, NEW out,
           Written(tree, cs, Len(Last(cs).node.children), out),
           NEW caller, caller = cs[Len(cs) - 1]
    PROVE  GoesOn(tree, caller, Last(cs).restore,
                  Append(SubSeq(cs, 1, Len(cs) - 2), Counted(caller)), out \o <<"]", "}">>)
<1>1. PICK base \in [Nat -> Json(tree)], at \in [Nat -> Nat] :
         /\ Stack(tree, cs, base, at)
         /\ Position(tree, Last(cs), Len(Last(cs).node.children), base[Len(cs)], out)
  BY DEF Written
<1> DEFINE n == Len(cs)
<1> DEFINE c == at[n - 1]
<1> DEFINE ds == Append(SubSeq(cs, 1, n - 2), Counted(caller))
<1> DEFINE top == Last(cs)
<1>2. /\ n \in Nat /\ n - 1 \in 1..(n - 1) /\ n - 1 \in 1..n /\ (n - 1) + 1 = n
      /\ top = cs[n] /\ top.node \in Nodes(tree)
  <2>1. n \in Nat /\ n > 1
    BY Innermost
  <2>2. top = cs[n] /\ top.node \in Nodes(tree)
    BY Innermost
  <2> HIDE DEF n, top
  <2>3. n - 1 \in 1..(n - 1) /\ n - 1 \in 1..n /\ (n - 1) + 1 = n
    BY <2>1
  <2> QED
    BY <2>1, <2>2, <2>3
<1>3. caller \in Activation(tree) /\ caller.node \in Nodes(tree)
  <2>1. cs \in Seq(Activation(tree)) /\ n - 1 \in 1..Len(cs)
    BY <1>2 DEF CallsOf
  <2> HIDE DEF n
  <2>2. cs[n - 1] \in Activation(tree)
    BY <2>1, ElementOfSeq
  <2> QED
    BY <2>2 DEF n, Activation
<1>4. Suspended(tree, caller, c, top, base[n - 1], base[n])
  <2>1. Suspended(tree, cs[n - 1], at[n - 1], cs[(n - 1) + 1], base[n - 1], base[(n - 1) + 1])
    BY <1>1, <1>2 DEF Stack
  <2> QED
    BY <1>2, <2>1
<1>5. /\ Counted(caller) \in Activation(tree)
      /\ Counted(caller).node = caller.node /\ Counted(caller).restore = caller.restore
      /\ Counted(caller).first = caller.first /\ Counted(caller).index = caller.index + 1
      /\ caller.index \in Nat /\ caller.index + 1 # 0
  BY <1>3, BeganIsCall, CountedIsCall
<1>6. CallsOf(tree, ds) /\ Stack(tree, ds, base, at) /\ Len(ds) = n - 1 /\ Last(ds) = Counted(caller)
  <2> DEFINE frame == Counted(caller)
  <2>1. frame \in Activation(tree) /\ frame.node = cs[n - 1].node /\ frame.restore = cs[n - 1].restore
    BY <1>5
  <2> HIDE DEF frame
  <2>2. Calls(tree, Append(SubSeq(cs, 1, Len(cs) - 2), frame), base, at, Len(cs) - 1, frame)
    BY <1>1, <2>1, CallEnded
  <2> QED
    BY <2>2 DEF frame, Calls
<1>7. out = base[n] \o Collected(tree)[top.node]
  BY <1>1, <1>2, RoundTypes DEF Position
<1> HIDE DEF ds, top, n, c
<1>8. /\ c \in 1..Len(caller.node.children)
      /\ caller.node.children[c].start < caller.node.children[c].end
      /\ top.restore = caller.node.children[c].start
      /\ ~caller.first
      /\ Index(tree, caller.node, c) = caller.index + 1
      /\ base[n - 1] \o Result(tree, caller.node, c)
           = (base[n] \o Collected(tree)[top.node]) \o <<"]", "}">>
  BY <1>4 DEF Suspended
<1>9. FirstChildForByte(caller.node, top.restore) = [parent |-> caller.node, child |-> c]
  BY <1>3, <1>8, ChildRestored
<1>10. Position(tree, Counted(caller), c, base[n - 1], out \o <<"]", "}">>)
  <2>1. base[n - 1] \o Result(tree, caller.node, c) = out \o <<"]", "}">>
    BY <1>7, <1>8
  <2>2. caller.index + 1 # 0
    BY <1>5
  <2> DEFINE frame == Counted(caller)
  <2>3. /\ frame.node = caller.node /\ frame.first = caller.first
        /\ frame.index = caller.index + 1
    BY <1>5
  <2> HIDE DEF frame
  <2>4. frame.index = Index(tree, frame.node, c)
    BY <1>8, <2>3
  <2>5. frame.first <=> frame.index = 0
    BY <1>8, <2>2, <2>3
  <2>6. out \o <<"]", "}">> = base[n - 1] \o Result(tree, frame.node, c)
    BY <2>1, <2>3
  <2>7. Position(tree, frame, c, base[n - 1], out \o <<"]", "}">>)
    BY <2>4, <2>5, <2>6 DEF Position
  <2> QED
    BY <2>7 DEF frame
<1>11. Written(tree, ds, c, out \o <<"]", "}">>)
  <2>1. Position(tree, Last(ds), c, base[Len(ds)], out \o <<"]", "}">>)
    BY <1>6, <1>10
  <2> QED
    BY <1>6, <2>1 DEF Written
<1>12. GoesOn(tree, caller, top.restore, ds, out \o <<"]", "}">>)
  BY <1>5, <1>6, <1>8, <1>9, <1>11 DEF GoesOn
<1> QED
  BY <1>12 DEF ds, top, n

\* The end of the first call.
LEMMA LastCallReturns ==
    ASSUME NEW tree, WellFormed(tree), NEW cs, CallsOf(tree, cs), Len(cs) = 1, NEW out,
           Written(tree, cs, Len(Last(cs).node.children), out)
    PROVE  Append(out, "]") = DocumentSymbols(tree)
<1>1. PICK base \in [Nat -> Json(tree)], at \in [Nat -> Nat] :
         /\ Stack(tree, cs, base, at)
         /\ Position(tree, Last(cs), Len(Last(cs).node.children), base[Len(cs)], out)
  BY DEF Written
<1>2. Last(cs) = cs[1] /\ Last(cs).node \in Nodes(tree)
  BY Innermost
<1> DEFINE l == Collected(tree)[cs[1].node]
<1>3. out = <<"[">> \o l
  <2> DEFINE top == Last(cs)
  <2> DEFINE b == base[Len(cs)]
  <2>1. b = <<"[">>
    BY <1>1 DEF Stack
  <2>2. Position(tree, top, Len(top.node.children), b, out) /\ top.node \in Nodes(tree)
    BY <1>1, <1>2
  <2> HIDE DEF top, b
  <2>3. out = b \o Result(tree, top.node, Len(top.node.children))
    BY <2>2 DEF Position
  <2>4. Result(tree, top.node, Len(top.node.children)) = Collected(tree)[top.node]
    BY <2>2, RoundTypes
  <2>5. top.node = cs[1].node
    BY <1>2 DEF top
  <2> QED
    BY <2>1, <2>3, <2>4, <2>5
<1>4. DocumentSymbols(tree) = (<<"[">> \o l) \o <<"]">>
  BY DEF CallsOf
<1>5. Append(out, "]") = out \o <<"]">>
  <2> DEFINE S == Event(tree)
  <2> DEFINE o == <<"[">>
  <2>1. l \in Seq(S) /\ o \in Seq(S)
    BY <1>2, RoundTypes, PieceTypes DEF Json
  <2> HIDE DEF l, o
  <2>2. o \o l \in Seq(S)
    BY <2>1, ConcatProperties
  <2>3. "]" \in S
    BY DEF Event
  <2>4. out \in Seq(S)
    BY <1>3, <2>2 DEF o
  <2> HIDE DEF S
  <2> QED
    BY <2>3, <2>4, AppendIsConcat
<1> QED
  BY <1>3, <1>4, <1>5

\* The call for the value of the document.
LEMMA FirstCall ==
    ASSUME NEW tree, WellFormed(tree), RootValue(tree) # <<>>,
           NEW val, val = RootValue(tree)[1], val.kind \in Containers
    PROVE  /\ CallsOf(tree, Append(<<>>, Call(val, 0)))
           /\ Last(Append(<<>>, Call(val, 0))) = Call(val, 0)
           /\ Written(tree, Append(<<>>, Call(val, 0)), 0, <<"[">>)
<1> DEFINE call == Call(val, 0)
<1> DEFINE cs == Append(<<>>, call)
<1> DEFINE d == DocumentSymbols(tree)
<1>1. val \in Nodes(tree)
  BY RootValueIsNode
<1>2. call \in Activation(tree) /\ call.node = val /\ call.first /\ call.index = 0
  BY <1>1 DEF Call, Activation
<1> HIDE DEF call
<1>3. cs \in Seq(Activation(tree)) /\ cs # <<>> /\ Len(cs) = 1 /\ cs[1] = call
  BY <1>2
<1> HIDE DEF cs
<1>4. d = <<"[">> \o Collected(tree)[val] \o <<"]">>
  BY DEF DocumentSymbols, Children, Containers
<1>5. CallsOf(tree, cs)
  <2>1. ASSUME NEW k \in 1..Len(cs) PROVE cs[k].node.kind \in Containers
    <3>1. k = 1
      BY <1>3
    <3> QED
      BY <1>2, <1>3, <3>1
  <2>2. DocumentSymbols(tree) = <<"[">> \o Collected(tree)[cs[1].node] \o <<"]">>
    BY <1>2, <1>3, <1>4
  <2> QED
    BY <1>3, <2>1, <2>2 DEF CallsOf
<1>6. Last(cs) = call
  BY <1>3 DEF Last
<1> DEFINE base == [k \in Nat |-> <<"[">>]
<1> DEFINE at == [k \in Nat |-> 0]
<1>7. base \in [Nat -> Json(tree)] /\ at \in [Nat -> Nat] /\ base[1] = <<"[">>
  BY PieceTypes
<1>8. IsPrefix(<<"[">> \o Collected(tree)[val], d)
  <2> DEFINE S == Event(tree)
  <2> DEFINE o == <<"[">>
  <2> DEFINE l == Collected(tree)[val]
  <2> DEFINE q == <<"]">>
  <2>1. o \in Seq(S) /\ l \in Seq(S) /\ q \in Seq(S)
    BY <1>1, CollectedOf, PieceTypes DEF Json
  <2>2. d = (o \o l) \o q
    BY <1>4
  <2> HIDE DEF S, o, l, q, d
  <2> DEFINE ol == o \o l
  <2>3. ol \in Seq(S)
    BY <2>1, ConcatProperties
  <2> HIDE DEF ol
  <2>4. IsPrefix(ol, ol \o q)
    BY <2>1, <2>3, PrefixOfConcat
  <2> QED
    BY <2>2, <2>4 DEF o, l, ol
<1> HIDE DEF base, at
<1>9. Stack(tree, cs, base, at)
  <2>1. \A k \in 1..Len(cs) : k = 1
    BY <1>3
  <2>2. 1..(Len(cs) - 1) = {}
    BY <1>3
  <2> QED
    BY <1>2, <1>3, <1>7, <1>8, <2>1, <2>2 DEF Stack
<1>10. Position(tree, call, 0, <<"[">>, <<"[">>)
  BY <1>2, PieceTypes, CallBegins
<1>11. Written(tree, cs, 0, <<"[">>)
  <2>1. Position(tree, Last(cs), 0, base[Len(cs)], <<"[">>)
    BY <1>3, <1>6, <1>7, <1>10
  <2> QED
    BY <1>7, <1>9, <2>1 DEF Written
<1> QED
  BY <1>5, <1>6, <1>11 DEF cs, call

-----------------------------------------------------------------------------
(* The writer.                                                             *)

\* How many of its children the innermost call is done with.
Done ==
    CASE phase = "visit" -> cursor.child - 1
      [] phase = "next" -> cursor.child
      [] OTHER -> Len(Frame.node.children)

\* While a call is at a child, the cursor is there, wherever calls it made have left it.
AtChild ==
    /\ cursor.parent = Frame.node
    /\ cursor.child \in 1..Len(Frame.node.children)

\* While there are calls, they have written what leads to the symbols of the document.
Working == WellFormed(root) /\ CallsOf(root, calls) /\ Written(root, calls, Done, buf)

\* The inductive invariant.
IInv ==
    /\ phase \in {"idle", "visit", "next", "return", "done"}
    /\ phase \in {"visit", "next", "return"} => Working
    /\ phase \in {"visit", "next"} => AtChild
    /\ phase = "done" =>
          buf = DocumentSymbols(root) /\ IsPrefix(buf, DocumentSymbols(root))

\* A call that begins.
LEMMA Entering ==
    ASSUME NEW callers, NEW node, NEW restore, WellFormed(root'),
           Enter(callers, node, restore),
           CallsOf(root', Append(callers, Call(node, restore))),
           Last(Append(callers, Call(node, restore))) = Call(node, restore),
           Written(root', Append(callers, Call(node, restore)), 0, buf')
    PROVE  IInv'
<1> DEFINE cs == Append(callers, Call(node, restore))
<1>1. calls' = cs /\ cursor' = AtFirstChild(node)
  BY DEF Enter
<1>2. Frame'.node = node
  BY <1>1 DEF Frame, Call
<1>3. node.children \in Seq(Nodes(root')) /\ Len(node.children) \in Nat
  <2>1. Last(cs).node \in Nodes(root')
    BY Innermost
  <2>2. node \in Nodes(root')
    BY <2>1 DEF Call
  <2> QED
    BY <2>2, ChildIsNode
<1> HIDE DEF cs
<1>4. CASE node.children = <<>>
  <2>1. phase' = "return" /\ Len(node.children) = 0
    BY <1>4 DEF Enter
  <2>2. Done' = 0
    BY <1>2, <2>1 DEF Done
  <2>3. Working'
    BY <1>1, <2>2 DEF Working, cs
  <2> QED
    BY <2>1, <2>3 DEF IInv
<1>5. CASE node.children # <<>>
  <2>1. phase' = "visit" /\ cursor'.parent = node /\ cursor'.child = 1
    BY <1>1, <1>5 DEF Enter, AtFirstChild
  <2>2. Len(node.children) # 0
    BY <1>3, <1>5, EmptySeq, LenProperties
  <2>3. Done' = 0
    BY <2>1 DEF Done
  <2>4. Working'
    BY <1>1, <2>3 DEF Working, cs
  <2>5. 1 \in 1..Len(node.children)
    BY <1>3, <2>2
  <2>6. AtChild'
    BY <1>2, <2>1, <2>5 DEF AtChild
  <2> QED
    BY <2>1, <2>4, <2>6 DEF IInv
<1> QED
  BY <1>4, <1>5

\* Start: the first call, or no symbols at all.
LEMMA StartKeeps ==
    ASSUME NEW tree, WellFormed(tree), Start(tree)
    PROVE  IInv'
<1>1. root' = tree
  BY DEF Start
<1>2. CASE RootValue(tree) # <<>> /\ RootValue(tree)[1].kind \in {"object", "array"}
  <2> DEFINE val == RootValue(tree)[1]
  <2>1. buf' = <<"[">> /\ Enter(<<>>, val, 0)
    BY <1>2 DEF Start
  <2>2. val.kind \in Containers /\ RootValue(tree) # <<>>
    BY <1>2 DEF Containers
  <2>3. /\ CallsOf(tree, Append(<<>>, Call(val, 0)))
        /\ Last(Append(<<>>, Call(val, 0))) = Call(val, 0)
        /\ Written(tree, Append(<<>>, Call(val, 0)), 0, <<"[">>)
    BY <2>2, FirstCall
  <2> HIDE DEF val
  <2>4. /\ WellFormed(root') /\ CallsOf(root', Append(<<>>, Call(val, 0)))
        /\ Written(root', Append(<<>>, Call(val, 0)), 0, buf')
    BY <1>1, <2>1, <2>3
  <2> QED
    BY <2>1, <2>3, <2>4, Entering
<1>3. CASE ~(RootValue(tree) # <<>> /\ RootValue(tree)[1].kind \in {"object", "array"})
  <2>1. buf' = <<"[", "]">> /\ phase' = "done"
    BY <1>3 DEF Start
  <2>2. DocumentSymbols(tree) = <<"[", "]">>
    BY <1>3 DEF DocumentSymbols
  <2> DEFINE d == <<"[", "]">>
  <2>3. d \in Seq({"[", "]"})
    OBVIOUS
  <2> HIDE DEF d
  <2>4. IsPrefix(d, d)
    BY <2>3, PrefixOfConcat
  <2>5. buf' = DocumentSymbols(root') /\ IsPrefix(buf', DocumentSymbols(root'))
    BY <1>1, <2>1, <2>2, <2>4 DEF d
  <2> QED
    BY <2>1, <2>5 DEF IInv
<1> QED
  BY <1>2, <1>3

\* Visit: nothing is written for a child without a symbol, and what is collected for one
\* with a symbol.
LEMMA VisitKeeps ==
    ASSUME IInv, Visit
    PROVE  IInv'
<1> DEFINE top == Last(calls)
<1> DEFINE c == cursor.child
<1> DEFINE child == top.node.children[c]
<1> DEFINE head == HeadOf(top, child)
<1>1. /\ phase = "visit" /\ root' = root
      /\ WellFormed(root) /\ CallsOf(root, calls) /\ Written(root, calls, Done, buf)
      /\ c \in 1..Len(top.node.children) /\ cursor.parent = top.node
      /\ Current = child /\ Frame = top /\ Done = c - 1
  BY DEF IInv, Visit, Working, AtChild, Frame, Current, Done
<1>2. top.node \in Nodes(root) /\ top.node.kind \in Containers
  BY <1>1, Innermost
<1>3. CASE ~Reports(top.node, child)
  <2>1. phase' = "next" /\ calls' = calls /\ cursor' = cursor /\ buf' = buf
    BY <1>1, <1>3 DEF Visit, Reports
  <2>2. Written(root, calls, c, buf)
    BY <1>1, <1>3, SkipsChild
  <2>3. Done' = c
    BY <2>1 DEF Done
  <2>4. Working'
    BY <1>1, <2>1, <2>2, <2>3 DEF Working
  <2>5. AtChild'
    BY <1>1, <2>1 DEF AtChild, Frame
  <2> QED
    BY <2>1, <2>4, <2>5 DEF IInv
<1>4. ASSUME Reports(top.node, child)
      PROVE  Symbol(SymbolName(top.node, child, top.index), child, SymbolValue(top.node, child))
  <2>1. CASE top.node.kind = "object"
    BY <1>1, <1>4, <2>1 DEF Visit, Reports, SymbolName, SymbolValue
  <2>2. CASE top.node.kind # "object"
    BY <1>1, <1>4, <2>2 DEF Visit, Reports, SymbolName, SymbolValue
  <2> QED
    BY <2>1, <2>2
<1>5. CASE Reports(top.node, child) /\ SymbolValue(top.node, child).kind \notin Containers
  <2> DEFINE frame == Counted(Began(top))
  <2>1. /\ buf' = (buf \o head) \o <<"}">>
        /\ calls' = Append(Front(calls), frame)
        /\ phase' = "next" /\ cursor' = cursor
    BY <1>1, <1>4, <1>5 DEF Symbol, HeadOf, Containers, WithFrame
  <2>2. /\ CallsOf(root, Append(Front(calls), frame))
        /\ Last(Append(Front(calls), frame)) = frame
        /\ Written(root, Append(Front(calls), frame), c, (buf \o head) \o <<"}">>)
    BY <1>1, <1>5, WritesPlain
  <2>3. frame.node = top.node
    <3>1. top \in Activation(root)
      BY <1>1, Innermost
    <3> HIDE DEF top
    <3>2. Began(top) \in Activation(root) /\ Began(top).node = top.node
      BY <3>1, BeganIsCall
    <3> QED
      BY <3>2, CountedIsCall
  <2>4. Frame' = frame
    BY <2>1, <2>2 DEF Frame
  <2>5. Done' = c
    BY <2>1 DEF Done
  <2>6. Working'
    BY <1>1, <2>1, <2>2, <2>5 DEF Working
  <2>7. AtChild'
    BY <1>1, <2>1, <2>3, <2>4 DEF AtChild
  <2> QED
    BY <2>1, <2>6, <2>7 DEF IInv
<1>6. CASE Reports(top.node, child) /\ SymbolValue(top.node, child).kind \in Containers
  <2> DEFINE frame == Began(top)
  <2> DEFINE val == SymbolValue(top.node, child)
  <2> DEFINE callers == Append(Front(calls), frame)
  <2>1. /\ buf' = (buf \o head) \o <<"[">>
        /\ Enter(callers, val, child.start)
    BY <1>1, <1>4, <1>6 DEF Symbol, HeadOf, Containers, WithFrame
  <2>2. /\ CallsOf(root, Append(callers, Call(val, child.start)))
        /\ Last(Append(callers, Call(val, child.start))) = Call(val, child.start)
        /\ Written(root, Append(callers, Call(val, child.start)), 0, (buf \o head) \o <<"[">>)
    BY <1>1, <1>6, WritesContainer
  <2> HIDE DEF callers, val, child, head
  <2>3. /\ WellFormed(root')
        /\ CallsOf(root', Append(callers, Call(val, child.start)))
        /\ Written(root', Append(callers, Call(val, child.start)), 0, buf')
    BY <1>1, <2>1, <2>2
  <2> QED
    BY <2>1, <2>2, <2>3, Entering
<1> QED
  BY <1>3, <1>5, <1>6

\* NextSibling: on to the next child, or to the end of the call after the last one.
LEMMA NextSiblingKeeps ==
    ASSUME IInv, NextSibling
    PROVE  IInv'
<1> DEFINE c == cursor.child
<1> DEFINE n == Len(Frame.node.children)
<1>1. /\ phase = "next" /\ root' = root /\ calls' = calls /\ buf' = buf
      /\ WellFormed(root) /\ CallsOf(root, calls) /\ Written(root, calls, Done, buf)
      /\ c \in 1..n /\ cursor.parent = Frame.node /\ Done = c
  BY DEF IInv, NextSibling, Working, AtChild, Done
<1>2. n \in Nat
  BY <1>1, Innermost, ChildIsNode DEF Frame
<1>3. Frame' = Frame
  BY <1>1 DEF Frame
<1>4. CASE HasNext
  <2>1. phase' = "visit" /\ cursor' = [cursor EXCEPT !.child = @ + 1] /\ c \in 1..(n - 1)
    BY <1>1, <1>4 DEF NextSibling, HasNext
  <2>2. cursor'.child = c + 1 /\ cursor'.parent = Frame.node
    BY <1>1, <2>1
  <2>3. Done' = c
    BY <1>2, <2>1, <2>2 DEF Done
  <2>4. Working'
    BY <1>1, <2>3 DEF Working
  <2>5. AtChild'
    BY <1>2, <1>3, <2>1, <2>2 DEF AtChild
  <2> QED
    BY <2>1, <2>4, <2>5 DEF IInv
<1>5. CASE ~HasNext
  <2>1. phase' = "return"
    BY <1>5 DEF NextSibling
  <2>2. c \notin 1..(n - 1)
    BY <1>1, <1>5 DEF HasNext
  <2> HIDE DEF c, n
  <2>3. c = n
    BY <1>1, <1>2, <2>2
  <2>4. Done' = n
    BY <1>3, <2>1 DEF Done, n
  <2>5. Working'
    BY <1>1, <2>3, <2>4 DEF Working
  <2> QED
    BY <2>1, <2>5 DEF IInv
<1> QED
  BY <1>4, <1>5

\* Return: the caller's cursor is back at the child it made the call for.
LEMMA ReturnKeeps ==
    ASSUME IInv, Return
    PROVE  IInv'
<1>1. /\ phase = "return" /\ root' = root
      /\ WellFormed(root) /\ CallsOf(root, calls)
      /\ Written(root, calls, Len(Last(calls).node.children), buf)
  BY DEF IInv, Return, Working, Done, Frame
<1>2. Len(calls) \in Nat /\ Len(calls) >= 1
  BY <1>1, Innermost
<1>3. CASE Len(calls) = 1
  <2>1. buf' = Append(buf, "]") /\ phase' = "done"
    BY <1>3 DEF Return
  <2>2. Append(buf, "]") = DocumentSymbols(root)
    BY <1>1, <1>3, LastCallReturns
  <2>3. IsPrefix(DocumentSymbols(root), DocumentSymbols(root))
    <3> DEFINE d == DocumentSymbols(root)
    <3>1. d \in Seq(Event(root))
      BY <1>1, SymbolsAreJson DEF Json
    <3> HIDE DEF d
    <3>2. IsPrefix(d, d)
      BY <3>1, PrefixOfConcat
    <3> QED
      BY <3>2 DEF d
  <2> QED
    BY <1>1, <2>1, <2>2, <2>3 DEF IInv
<1>4. CASE Len(calls) # 1
  <2>0. PICK caller : caller = calls[Len(calls) - 1]
    OBVIOUS
  <2> DEFINE cs == Append(SubSeq(calls, 1, Len(calls) - 2), Counted(caller))
  <2>1. /\ buf' = buf \o <<"]", "}">> /\ calls' = cs /\ phase' = "next"
        /\ cursor' = FirstChildForByte(caller.node, Last(calls).restore)
    BY <1>4, <2>0 DEF Return, RestoredCursor, Frame
  <2>2. Len(calls) > 1
    BY <1>2, <1>4
  <2>3. GoesOn(root, caller, Last(calls).restore, cs, buf \o <<"]", "}">>)
    BY <1>1, <2>0, <2>2, CallReturns
  <2> HIDE DEF cs
  <2>4. PICK c \in 1..Len(caller.node.children) :
           /\ FirstChildForByte(caller.node, Last(calls).restore)
                = [parent |-> caller.node, child |-> c]
           /\ Written(root, cs, c, buf \o <<"]", "}">>)
    BY <2>3 DEF GoesOn
  <2>5. cursor'.parent = caller.node /\ cursor'.child = c
    <3>1. cursor' = [parent |-> caller.node, child |-> c]
      BY <2>1, <2>4
    <3> QED
      BY <3>1
  <2>6. Frame'.node = caller.node /\ CallsOf(root, cs)
    BY <2>1, <2>3 DEF Frame, GoesOn
  <2>7. Done' = c
    BY <2>1, <2>5 DEF Done
  <2>8. Working'
    BY <1>1, <2>1, <2>4, <2>6, <2>7 DEF Working
  <2>9. AtChild'
    BY <2>5, <2>6 DEF AtChild
  <2> QED
    BY <2>1, <2>8, <2>9 DEF IInv
<1> QED
  BY <1>3, <1>4

\* Requests for the symbols of any of these trees, one after the other.
Walks(trees) == Init /\ [][(\E tree \in trees : Start(tree)) \/ Step]_vars

\* The invariant, for all trees that are as tree-sitter makes them.
THEOREM Inductive ==
    ASSUME NEW trees, \A tree \in trees : WellFormed(tree)
    PROVE  Walks(trees) => []IInv
<1>1. Init => IInv
  BY DEF Init, IInv
<1>2. IInv /\ [(\E tree \in trees : Start(tree)) \/ Step]_vars => IInv'
  <2> SUFFICES ASSUME IInv, [(\E tree \in trees : Start(tree)) \/ Step]_vars
               PROVE  IInv'
    OBVIOUS
  <2>1. CASE \E tree \in trees : Start(tree)
    BY <2>1, StartKeeps
  <2>2. CASE Visit
    BY <2>2, VisitKeeps
  <2>3. CASE NextSibling
    BY <2>3, NextSiblingKeeps
  <2>4. CASE Return
    BY <2>4, ReturnKeeps
  <2>5. CASE Send
    BY <2>5 DEF Send, IInv
  <2>6. CASE UNCHANGED vars
    BY <2>6 DEF vars, IInv, Working, AtChild, Done, Frame
  <2> QED
    BY <2>1, <2>2, <2>3, <2>4, <2>5, <2>6 DEF Step
<1> QED
  BY <1>1, <1>2, PTL DEF Walks

\* For every tree, however deeply nested and wherever the parser has recovered from
\* errors, write_document_symbols writes what document_symbols would have collected: at
\* every moment a beginning of it, and in the end all of it.
THEOREM WritesAllSymbols ==
    ASSUME NEW trees, \A tree \in trees : WellFormed(tree)
    PROVE  Walks(trees) => []WritesTheSymbols
<1>1. IInv => WritesTheSymbols
  <2> SUFFICES ASSUME IInv PROVE WritesTheSymbols
    OBVIOUS
  <2>1. CASE phase = "idle"
    BY <2>1 DEF WritesTheSymbols
  <2>2. CASE phase = "done"
    BY <2>2 DEF WritesTheSymbols, IInv
  <2>3. CASE phase \in {"visit", "next", "return"}
    <3>1. WellFormed(root) /\ CallsOf(root, calls) /\ Written(root, calls, Done, buf)
      BY <2>3 DEF IInv, Working
    <3>2. Done \in 0..Len(Last(calls).node.children)
      <4> DEFINE n == Len(Frame.node.children)
      <4>1. n \in Nat
        BY <3>1, Innermost, ChildIsNode DEF Frame
      <4>2. phase \in {"visit", "next"} => cursor.child \in 1..n
        BY DEF IInv, AtChild
      <4> HIDE DEF n
      <4>3. Done \in 0..n
        BY <2>3, <4>1, <4>2 DEF Done, n
      <4> QED
        BY <4>3 DEF n, Frame
    <3>3. IsPrefix(buf, DocumentSymbols(root))
      BY <3>1, <3>2, SymbolsAreJson, WrittenIsPrefix
    <3> QED
      BY <2>3, <3>3 DEF WritesTheSymbols
  <2> QED
    BY <2>1, <2>2, <2>3 DEF IInv
<1>2. Walks(trees) => []IInv
  BY Inductive
<1> QED
  BY <1>1, <1>2, PTL

\* And so for whatever documents symbols are asked: what the parser makes of a text is
\* such a tree.
THEOREM WritesSymbolsOfTexts ==
    Walks({Parse(t)[1] : t \in {u \in Seq(Tokens) : Parse(u) # <<>>}}) => []WritesTheSymbols
<1> DEFINE trees == {Parse(t)[1] : t \in {u \in Seq(Tokens) : Parse(u) # <<>>}}
<1>1. ASSUME NEW tree \in trees PROVE WellFormed(tree)
  <2>1. PICK t \in Seq(Tokens) : Parse(t) # <<>> /\ tree = Parse(t)[1]
    OBVIOUS
  <2> QED
    BY <2>1, TreeOfText DEF IsText
<1> HIDE DEF trees
<1>2. Walks(trees) => []WritesTheSymbols
  BY <1>1, WritesAllSymbols
<1> QED
  BY <1>2 DEF trees
=============================================================================
