----------------------------- MODULE TreeProofs ------------------------------
(***************************************************************************)
(* Syntax trees: for every sequence of tokens, what the parser makes of it *)
(* is a tree as tree-sitter and its grammar promise.                       *)
(*                                                                         *)
(* Sets of nodes grow while a text is parsed.  The invariant says, of some *)
(* such set, that its nodes are as they should be (Sound) and have their   *)
(* children in it, and that each unfinished node began within the one      *)
(* around it and has children that follow each other up to the token it    *)
(* has reached (Growing).  The nodes of a tree are collected level by      *)
(* level; that the levels suffice follows from a rank, which the number of *)
(* tokens bounds and which children have less of.                          *)
(***************************************************************************)
EXTENDS SyntaxTrees, WellFoundedInduction, SequenceTheorems, FiniteSetTheorems, TLAPS

-----------------------------------------------------------------------------
(* Recursion over a measure.                                               *)

\* A set of natural numbers that is not empty has a least element.
LEMMA LeastNatural ==
    ASSUME NEW T \in SUBSET Nat, T # {}
    PROVE  \E x \in T : \A y \in T : x <= y
<1>1. IsWellFoundedOn(OpToRel(<, Nat), Nat)
  BY NatLessThanWellFounded
<1>2. PICK x \in T : \A y \in T : <<y, x>> \notin OpToRel(<, Nat)
  BY <1>1, WFMin
<1>3. \A y \in Nat : y < x => <<y, x>> \in OpToRel(<, Nat)
  BY Zenon DEF OpToRel
<1>4. \A y \in T : ~(y < x)
  BY <1>2, <1>3
<1> QED
  BY <1>4

\* Whatever fails somewhere fails where the measure is least.
LEMMA LeastMeasure ==
    ASSUME NEW S, NEW m \in [S -> Nat], NEW Bad \in SUBSET S, Bad # {}
    PROVE  \E x \in Bad : \A y \in S : m[y] < m[x] => y \notin Bad
<1> DEFINE T == {m[x] : x \in Bad}
<1>1. T \in SUBSET Nat /\ T # {}
  OBVIOUS
<1>2. PICK k \in T : \A y \in T : k <= y
  BY <1>1, LeastNatural
<1>3. PICK x \in Bad : k = m[x]
  BY <1>2
<1>4. ASSUME NEW y \in S, m[y] < m[x], y \in Bad PROVE FALSE
  <2>1. m[y] \in T
    BY <1>4
  <2>2. m[x] <= m[y] /\ m[x] \in Nat /\ m[y] \in Nat
    BY <2>1, <1>2, <1>3
  <2> QED
    BY <2>2, <1>4
<1> QED
  BY <1>3, <1>4

\* Rules that give the value of a function at a place from the whole function, and the
\* functions that follow them.
Rules(S, T) == [[S -> T] \X S -> T]

\* A function that is what the rule makes of it.
Solves(f, S, F) == \A x \in S : f[x] = F[<<f, x>>]

\* Only the values where the measure is less are used.
UsesLess(S, T, m, F) ==
    \A x \in S : \A g, h \in [S -> T] :
        (\A y \in S : m[y] < m[x] => g[y] = h[y]) => F[<<g, x>>] = F[<<h, x>>]

\* Such a rule defines a function by recursion.
LEMMA RecursionExists ==
    ASSUME NEW S, NEW T, NEW some \in T, NEW m \in [S -> Nat],
           NEW F \in Rules(S, T), UsesLess(S, T, m, F)
    PROVE  \E f \in [S -> T] : Solves(f, S, F)
<1> USE DEF UsesLess, Rules
<1> DEFINE Good(k) == {g \in [S -> T] : \A x \in S : m[x] < k => g[x] = F[<<g, x>>]}
<1>0. \A Bad \in SUBSET S : Bad # {} =>
         \E x \in Bad : \A y \in S : m[y] < m[x] => y \notin Bad
  BY LeastMeasure
<1>1. \A k \in Nat : Good(k) # {}
  <2> DEFINE Bad == {k \in Nat : Good(k) = {}}
  <2> SUFFICES ASSUME Bad # {} PROVE FALSE
    OBVIOUS
  <2>1. PICK k \in Bad : \A j \in Bad : k <= j
    BY LeastNatural
  <2>2. k \in Nat /\ Good(k) = {}
    BY <2>1
  <2>3. CASE k = 0
    <3>1. [x \in S |-> some] \in [S -> T]
      OBVIOUS
    <3>2. \A x \in S : ~(m[x] < 0)
      OBVIOUS
    <3>3. [x \in S |-> some] \in Good(0)
      BY <3>1, <3>2
    <3> QED
      BY <3>3, <2>2, <2>3
  <2>4. CASE k > 0
    <3>1. k - 1 \in Nat /\ ~(k <= k - 1)
      BY <2>2, <2>4
    <3>2. k - 1 \notin Bad
      BY <2>1, <3>1
    <3>3. PICK g : g \in Good(k - 1)
      BY <3>1, <3>2
    <3>4. g \in [S -> T] /\ \A x \in S : m[x] < k - 1 => g[x] = F[<<g, x>>]
      BY <3>3
    <3> DEFINE h == [x \in S |-> F[<<g, x>>]]
    <3>5. h \in [S -> T]
      BY <3>4
    <3>6. ASSUME NEW x \in S, m[x] < k PROVE h[x] = F[<<h, x>>]
      <4>1. ASSUME NEW y \in S, m[y] < m[x] PROVE g[y] = h[y]
        <5>1. m[y] \in Nat /\ m[x] \in Nat
          OBVIOUS
        <5>2. m[y] < k - 1
          BY <5>1, <4>1, <3>6, <2>2
        <5> QED
          BY <5>2, <3>4
      <4>2. F[<<g, x>>] = F[<<h, x>>]
        BY <4>1, <3>4, <3>5
      <4> QED
        BY <4>2
    <3>7. h \in Good(k)
      BY <3>5, <3>6
    <3> QED
      BY <3>7, <2>2
  <2> QED
    BY <2>2, <2>3, <2>4
<1>2. ASSUME NEW j \in Nat, NEW k \in Nat, NEW g \in Good(j), NEW h \in Good(k)
      PROVE  \A x \in S : m[x] < j /\ m[x] < k => g[x] = h[x]
  <2> DEFINE Bad == {x \in S : m[x] < j /\ m[x] < k /\ g[x] # h[x]}
  <2> SUFFICES ASSUME Bad # {} PROVE FALSE
    OBVIOUS
  <2>0. Bad \in SUBSET S
    OBVIOUS
  <2>1. PICK x \in Bad : \A y \in S : m[y] < m[x] => y \notin Bad
    BY <2>0, <1>0
  <2>2. x \in S /\ m[x] < j /\ m[x] < k /\ g[x] # h[x]
    BY <2>1
  <2>3. g \in [S -> T] /\ h \in [S -> T]
    BY <1>2
  <2>4. ASSUME NEW y \in S, m[y] < m[x] PROVE g[y] = h[y]
    <3>1. m[y] \in Nat /\ m[x] \in Nat
      BY <2>2
    <3>2. m[y] < j /\ m[y] < k
      BY <3>1, <2>2, <2>4
    <3> QED
      BY <3>2, <2>1, <2>4
  <2>5. F[<<g, x>>] = F[<<h, x>>]
    BY <2>2, <2>3, <2>4
  <2>6. g[x] = F[<<g, x>>] /\ h[x] = F[<<h, x>>]
    BY <2>2, <1>2
  <2> QED
    BY <2>2, <2>5, <2>6
<1> DEFINE at == [x \in S |-> CHOOSE g : g \in Good(m[x] + 1)]
<1> DEFINE f  == [x \in S |-> at[x][x]]
<1>3. \A x \in S : at[x] \in Good(m[x] + 1)
  <2> TAKE x \in S
  <2>1. m[x] + 1 \in Nat
    OBVIOUS
  <2>2. \E g : g \in Good(m[x] + 1)
    BY <2>1, <1>1
  <2> QED
    BY <2>2
<1>4. \A x \in S : /\ at[x] \in [S -> T]
                   /\ at[x][x] = F[<<at[x], x>>]
  <2> TAKE x \in S
  <2>1. m[x] < m[x] + 1
    OBVIOUS
  <2> QED
    BY <2>1, <1>3
<1> HIDE DEF at
<1>5. f \in [S -> T]
  BY <1>4
<1>6. \A x \in S : f[x] = F[<<f, x>>]
  <2> TAKE x \in S
  <2>1. ASSUME NEW y \in S, m[y] < m[x] PROVE at[x][y] = f[y]
    <3>1. m[y] \in Nat /\ m[x] \in Nat /\ m[y] + 1 \in Nat /\ m[x] + 1 \in Nat
      OBVIOUS
    <3>2. m[y] < m[y] + 1 /\ m[y] < m[x] + 1
      BY <3>1, <2>1
    <3>3. at[y] \in Good(m[y] + 1) /\ at[x] \in Good(m[x] + 1)
      BY <1>3
    <3>4. at[x][y] = at[y][y]
      <4> DEFINE j == m[y] + 1
      <4> DEFINE k == m[x] + 1
      <4>1. j \in Nat /\ k \in Nat /\ m[y] < j /\ m[y] < k
        BY <3>1, <3>2
      <4>2. at[y] \in Good(j) /\ at[x] \in Good(k)
        BY <3>3
      <4> HIDE DEF j, k, Good
      <4> QED
        BY <1>2, <4>1, <4>2
    <3> QED
      BY <3>4
  <2>2. F[<<at[x], x>>] = F[<<f, x>>]
    BY <2>1, <1>4, <1>5
  <2> QED
    BY <2>2, <1>4
<1> QED
  BY <1>5, <1>6 DEF Solves

\* What the i-th of n steps makes of the value before it, and the values after each.
Steps(n, T) == [(1..n) \X T -> T]

\* The results after each of n steps, from z on.
After(n, z, step, h) ==
    \A i \in 0..n : h[i] = IF i = 0 THEN z ELSE step[<<i, h[i - 1]>>]

\* There are such results, whatever the steps.
LEMMA StepsExist ==
    ASSUME NEW n \in Nat, NEW T, NEW z \in T, NEW step \in Steps(n, T)
    PROVE  \E h \in [0..n -> T] : After(n, z, step, h)
<1> USE DEF Steps
<1> DEFINE S == 0..n
<1> DEFINE m == [i \in S |-> i]
<1> DEFINE F == [p \in [S -> T] \X S |->
                   IF p[2] = 0 THEN z ELSE step[<<p[2], p[1][p[2] - 1]>>]]
<1>1. m \in [S -> Nat]
  OBVIOUS
<1>2. ASSUME NEW g \in [S -> T], NEW i \in S
      PROVE  /\ F[<<g, i>>] = IF i = 0 THEN z ELSE step[<<i, g[i - 1]>>]
             /\ F[<<g, i>>] \in T
             /\ i # 0 => i \in 1..n /\ i - 1 \in S /\ m[i - 1] < m[i]
  <2>1. i # 0 => i \in 1..n /\ i - 1 \in S /\ m[i - 1] < m[i]
    OBVIOUS
  <2>2. F[<<g, i>>] = IF i = 0 THEN z ELSE step[<<i, g[i - 1]>>]
    OBVIOUS
  <2>3. i # 0 => <<i, g[i - 1]>> \in (1..n) \X T
    BY <2>1
  <2>4. i # 0 => step[<<i, g[i - 1]>>] \in T
    BY <2>3
  <2> QED
    BY <2>1, <2>2, <2>4
<1>3. F \in Rules(S, T)
  <2> USE DEF Rules
  <2> SUFFICES ASSUME NEW p \in [S -> T] \X S
               PROVE  (IF p[2] = 0 THEN z ELSE step[<<p[2], p[1][p[2] - 1]>>]) \in T
    OBVIOUS
  <2>1. PICK g \in [S -> T], i \in S : p = <<g, i>>
    OBVIOUS
  <2> QED
    BY <2>1, <1>2
<1>4. ASSUME NEW i \in S, NEW g \in [S -> T], NEW h \in [S -> T],
             \A j \in S : m[j] < m[i] => g[j] = h[j]
      PROVE  F[<<g, i>>] = F[<<h, i>>]
  BY <1>2, <1>4
<1> HIDE DEF S, m, F
<1>5. UsesLess(S, T, m, F)
  BY <1>4 DEF UsesLess
<1>6. \E f \in [S -> T] : Solves(f, S, F)
  BY <1>1, <1>3, <1>5, RecursionExists
<1>7. PICK f \in [S -> T] : \A i \in S : f[i] = F[<<f, i>>]
  BY <1>6 DEF Solves
<1>8. \A i \in S : f[i] = IF i = 0 THEN z ELSE step[<<i, f[i - 1]>>]
  BY <1>2, <1>7
<1> QED
  BY <1>8 DEF S, After

-----------------------------------------------------------------------------
(* Nodes.                                                                  *)

\* The children of a node are nodes.
LEMMA ChildIsNode ==
    ASSUME NEW tree, WellFormed(tree), NEW node \in Nodes(tree)
    PROVE  /\ node.children \in Seq(Nodes(tree))
           /\ Len(node.children) \in Nat
           /\ \A i \in 1..Len(node.children) : node.children[i] \in Nodes(tree)
<1>1. node.children \in Seq(Nodes(tree))
  BY DEF WellFormed
<1>2. Len(node.children) \in Nat
  BY <1>1, LenProperties
<1>3. ASSUME NEW i \in 1..Len(node.children) PROVE node.children[i] \in Nodes(tree)
  BY <1>1, ElementOfSeq
<1> QED
  BY <1>1, <1>2, <1>3

\* The key and the value of a pair are nodes.
LEMMA KeyAndValue ==
    ASSUME NEW tree, WellFormed(tree), NEW pair \in Nodes(tree), pair.kind = "pair"
    PROVE  /\ pair.children # <<>>
           /\ Len(pair.children) \in 1..Len(pair.children)
           /\ PairKey(pair) = pair.children[1] /\ PairKey(pair) \in Nodes(tree)
           /\ PairValue(pair) = pair.children[Len(pair.children)]
           /\ PairValue(pair) \in Nodes(tree)
<1>1. pair.children # <<>>
  BY DEF WellFormed
<1>2. pair.children \in Seq(Nodes(tree)) /\ Len(pair.children) \in Nat
  BY ChildIsNode
<1>3. Len(pair.children) >= 1
  BY <1>1, <1>2
<1>4. 1 \in 1..Len(pair.children) /\ Len(pair.children) \in 1..Len(pair.children)
  BY <1>2, <1>3
<1>5. Head(pair.children) = pair.children[1]
  BY <1>1, <1>2
<1> QED
  BY <1>1, <1>4, <1>5, ChildIsNode DEF PairKey, PairValue, Last

\* The value of a document is a node of its tree, and a value.
LEMMA RootValueIsNode ==
    ASSUME NEW tree, WellFormed(tree), RootValue(tree) # <<>>
    PROVE  /\ RootValue(tree)[1] \in Nodes(tree) /\ IsValueNode(RootValue(tree)[1])
           /\ RootValue(tree) = <<RootValue(tree)[1]>>
<1> DEFINE V == {i \in DOMAIN tree.children : IsValueNode(tree.children[i])}
<1>1. tree \in Nodes(tree)
  BY DEF WellFormed
<1>2. /\ tree.children \in Seq(Nodes(tree)) /\ Len(tree.children) \in Nat
      /\ \A i \in 1..Len(tree.children) : tree.children[i] \in Nodes(tree)
  BY <1>1, ChildIsNode
<1>3. DOMAIN tree.children = 1..Len(tree.children)
  BY <1>2, LenProperties
<1>4. V # {} /\ RootValue(tree) = <<tree.children[Min(V)]>>
  BY DEF RootValue
<1>5. \A i \in V : IsValueNode(tree.children[i])
  OBVIOUS
<1>6. V \in SUBSET (1..Len(tree.children)) /\ V \in SUBSET Nat
  BY <1>2, <1>3
<1> HIDE DEF V
<1>7. \E x \in V : \A y \in V : x <= y
  BY <1>4, <1>6, LeastNatural
<1>8. Min(V) \in V
  BY <1>7 DEF Min
<1>9. tree.children[Min(V)] \in Nodes(tree)
  BY <1>2, <1>6, <1>8
<1> QED
  BY <1>4, <1>5, <1>8, <1>9

-----------------------------------------------------------------------------
(* Offsets.                                                                *)

\* A token that has bytes moves what follows it.
LEMMA NextOffset ==
    ASSUME NEW text, NEW i \in Nat \ {0}
    PROVE  /\ Offset(text, i) \in Nat
           /\ text[i] \in NoBytes => Offset(text, i + 1) = Offset(text, i)
           /\ text[i] \notin NoBytes => Offset(text, i + 1) = Offset(text, i) + 1
<1> DEFINE s == {j \in 1..(i - 1) : text[j] \notin NoBytes}
<1> DEFINE t == {j \in 1..((i + 1) - 1) : text[j] \notin NoBytes}
<1>1. IsFiniteSet(1..(i - 1))
  BY FS_Interval
<1>2. IsFiniteSet(s)
  BY <1>1, FS_Subset
<1>3. Cardinality(s) \in Nat
  BY <1>2, FS_CardinalityType
<1>4. i \notin s
  OBVIOUS
<1>5. CASE text[i] \in NoBytes
  <2>1. t = s
    BY <1>5
  <2> HIDE DEF s, t
  <2> QED
    BY <2>1, <1>3, <1>5 DEF Offset, s, t
<1>6. CASE text[i] \notin NoBytes
  <2>1. t = s \union {i}
    BY <1>6
  <2>2. Cardinality(s \union {i}) = Cardinality(s) + 1
    BY <1>2, <1>4, FS_AddElement
  <2> HIDE DEF s, t
  <2> QED
    BY <2>1, <2>2, <1>3, <1>6 DEF Offset, s, t
<1> QED
  BY <1>5, <1>6

\* Offsets grow.
LEMMA OffsetsGrow ==
    ASSUME NEW text, NEW i \in Nat \ {0}, NEW k \in Nat, i <= k
    PROVE  /\ Offset(text, i) \in Nat /\ Offset(text, k) \in Nat
           /\ Offset(text, i) <= Offset(text, k)
<1> DEFINE Bad == {j \in Nat : i <= j /\ ~(Offset(text, i) <= Offset(text, j))}
<1>1. k \in Nat \ {0}
  OBVIOUS
<1>2. Offset(text, i) \in Nat /\ Offset(text, k) \in Nat
  BY <1>1, NextOffset
<1>3. Bad = {}
  <2> SUFFICES ASSUME Bad # {} PROVE FALSE
    OBVIOUS
  <2>1. PICK j \in Bad : \A l \in Bad : j <= l
    <3>1. Bad \in SUBSET Nat
      OBVIOUS
    <3> HIDE DEF Bad
    <3> QED
      BY <3>1, LeastNatural
  <2>2. j \in Nat /\ i <= j /\ ~(Offset(text, i) <= Offset(text, j))
    BY <2>1
  <2>3. j # i
    BY <1>2, <2>2
  <2>4. PICK l \in Nat \ {0} : j = l + 1
    <3>1. j - 1 \in Nat \ {0} /\ j = (j - 1) + 1
      BY <2>2, <2>3
    <3> QED
      BY <3>1
  <2>5. i <= l /\ ~(j <= l)
    BY <2>2, <2>3, <2>4
  <2>6. l \notin Bad
    BY <2>1, <2>5
  <2>7. Offset(text, i) <= Offset(text, l)
    BY <2>5, <2>6
  <2>8. Offset(text, l) \in Nat /\ Offset(text, l) <= Offset(text, l + 1)
        /\ Offset(text, l + 1) \in Nat
    <3>1. Offset(text, l) \in Nat /\ Offset(text, l + 1) \in {Offset(text, l), Offset(text, l) + 1}
      BY NextOffset
    <3> QED
      BY <3>1
  <2> QED
    BY <1>2, <2>2, <2>4, <2>7, <2>8
<1> QED
  BY <1>2, <1>3

-----------------------------------------------------------------------------
(* Finished and unfinished nodes.                                          *)

FrameKinds == {"document", "object", "array", "pair", "error"}

Brackets == {"object", "array"}

\* A bound of the levels of nodes below a node.
Rank(node) ==
    IF node.children = <<>> THEN 0
    ELSE Len(node.tokens) + (IF node.kind \in {"error", "document"} THEN 1 ELSE 0)

\* A node of some kind may have such a child.
Fits(kind, child) ==
    /\ child.kind = "pair" => kind \in {"object", "error"}
    /\ IsValueNode(child) => kind # "object"

\* A node is as it should be, and its children are in a set.
Sound(S, node) ==
    /\ node.start \in Nat /\ node.end \in Nat /\ node.start <= node.end
    /\ Len(node.tokens) \in Nat
    /\ node.children \in Seq(S)
    /\ node.children # <<>> => node.kind \in FrameKinds
    /\ node.kind \in Brackets \union {"string"} => node.start < node.end
    /\ node.kind = "pair" =>
          /\ Len(node.children) > 1 /\ node.children[1].kind \in {"string", "number"}
          /\ \A i \in 1..(Len(node.children) - 1) :
                node.children[i].start < Last(node.children).start
    /\ \A i \in 1..Len(node.children) :
          /\ node.start <= node.children[i].start /\ node.children[i].end <= node.end
          /\ \A j \in 1..(i - 1) : node.children[j].end <= node.children[i].start
          /\ node.kind \in Brackets /\ node.children[i].kind \in {"object", "array", "pair"} =>
                node.start < node.children[i].start
          /\ Fits(node.kind, node.children[i])
          /\ node.kind = "pair" /\ IsValueNode(node.children[i]) =>
                i = 1 \/ i = Len(node.children)
          /\ Rank(node.children[i]) < Rank(node)

\* All of them are, and their children are among them.
Complete(S) == \A node \in S : Sound(S, node) /\ node.kind # "document"

Frames(S) ==
    [kind : FrameKinds, first : Nat, children : Seq(S),
     expect : {"first", "member", "colon", "comma", "any", "end"}]

\* The token before the part of a text that can be in a node.
Begin(frame) == IF frame.kind = "document" THEN 0 ELSE frame.first

\* The i-th child of a node that is unfinished after the u-th token.
Placed(text, frame, u, i) ==
    LET child == frame.children[i]
    IN  /\ child.start \in Nat /\ child.end \in Nat /\ Rank(child) \in Nat
        /\ child.start <= child.end
        /\ Offset(text, frame.first) <= child.start /\ child.end <= Offset(text, u + 1)
        /\ \A j \in 1..(i - 1) : frame.children[j].end <= child.start
        /\ frame.kind \in Brackets /\ child.kind \in {"object", "array", "pair"} =>
              Offset(text, frame.first) < child.start
        /\ Fits(frame.kind, child)
        /\ frame.kind = "pair" /\ IsValueNode(child) =>
              i = 1 \/ (i = Len(frame.children) /\ frame.expect = "end")
        /\ frame.kind = "pair" =>
              IF frame.expect = "end"
              THEN i # Len(frame.children) => child.start < Last(frame.children).start
              ELSE child.start < Offset(text, u + 1) \/ (i = 1 /\ frame.expect = "colon")
        /\ Rank(child) <= u - Begin(frame)

\* A node that is unfinished after the u-th token.
Growing(S, text, frame, u) ==
    /\ frame \in Frames(S) /\ u \in Nat
    /\ frame.first # 0 /\ frame.first <= u + 1 /\ Begin(frame) <= u
    /\ frame.kind = "document" => frame.first = 1
    /\ frame.kind \in Brackets => text[frame.first] \notin NoBytes
    /\ frame.kind = "error" => text[frame.first] \in NoBytes
    /\ frame.expect = "any" => frame.kind = "error"
    /\ frame.expect = "end" => frame.kind \in {"object", "array", "pair"}
    /\ frame.kind = "pair" =>
          /\ frame.children # <<>> /\ frame.children[1].kind \in {"string", "number"}
          /\ frame.expect # "colon" => Len(frame.children) > 1
    /\ \A i \in 1..Len(frame.children) : Placed(text, frame, u, i)

\* What may be unfinished within what.
Nested(frame, inner) ==
    /\ inner.kind # "document"
    /\ inner.kind = "pair" => frame.kind \in {"object", "error"}
    /\ inner.kind \in Brackets =>
          frame.kind \in {"document", "array", "pair"} /\ frame.expect # "colon"
    /\ frame.expect # "end"

\* The unfinished nodes after the i-th token.
FramesStand(S, text, frames, i) ==
    /\ frames \in Seq(Frames(S)) /\ frames # <<>>
    /\ frames[1].kind = "document"
    /\ Growing(S, text, frames[Len(frames)], i)
    /\ \A j \in 1..(Len(frames) - 1) :
          /\ Growing(S, text, frames[j], frames[j + 1].first - 1)
          /\ Nested(frames[j], frames[j + 1])

-----------------------------------------------------------------------------
(* Larger sets of nodes.                                                   *)

\* Sequences of some nodes are sequences of more of them.
LEMMA SeqMore ==
    ASSUME NEW S, NEW R, S \subseteq R, NEW s \in Seq(S)
    PROVE  s \in Seq(R)
<1>1. Len(s) \in Nat /\ s \in [1..Len(s) -> S]
  BY LenProperties
<1>2. s \in [1..Len(s) -> R]
  BY <1>1
<1> QED
  BY <1>1, <1>2, SeqDef

\* What is as it should be with some nodes is so with more of them.
LEMMA FramesMore ==
    ASSUME NEW S, NEW R, S \subseteq R
    PROVE  Frames(S) \subseteq Frames(R)
<1> SUFFICES ASSUME NEW f \in Frames(S) PROVE f \in Frames(R)
  OBVIOUS
<1>1. PICK c : c = f.children
  OBVIOUS
<1>2. c \in Seq(S)
  BY <1>1 DEF Frames
<1>3. c \in Seq(R)
  BY <1>2, SeqMore
<1> QED
  BY <1>1, <1>3 DEF Frames

LEMMA SoundMore ==
    ASSUME NEW S, NEW R, S \subseteq R, NEW node, Sound(S, node)
    PROVE  Sound(R, node)
<1>1. node.children \in Seq(R)
  <2>1. PICK c : c = node.children
    OBVIOUS
  <2>2. c \in Seq(S)
    BY <2>1 DEF Sound
  <2> QED
    BY <2>1, <2>2, SeqMore
<1> QED
  BY <1>1 DEF Sound

LEMMA GrowingMore ==
    ASSUME NEW S, NEW R, S \subseteq R, NEW text, NEW frame, NEW u, Growing(S, text, frame, u)
    PROVE  Growing(R, text, frame, u)
<1>1. frame \in Frames(R)
  BY FramesMore DEF Growing
<1> QED
  BY <1>1 DEF Growing

\* A node more.
LEMMA OneNodeMore ==
    ASSUME NEW S, Complete(S), NEW node, Sound(S, node), node.kind # "document"
    PROVE  Complete(S \union {node})
<1>1. S \subseteq S \union {node}
  OBVIOUS
<1>2. ASSUME NEW n \in S \union {node}
      PROVE  Sound(S \union {node}, n) /\ n.kind # "document"
  <2>1. CASE n \in S
    BY <2>1, <1>1, SoundMore DEF Complete
  <2>2. CASE n = node
    BY <2>2, <1>1, SoundMore
  <2> QED
    BY <2>1, <2>2
<1> QED
  BY <1>2 DEF Complete

\* The rank of a node is a number, and 0 only without children.
LEMMA RankType ==
    ASSUME NEW S, NEW node, Sound(S, node)
    PROVE  Rank(node) \in Nat
<1>1. Len(node.tokens) \in Nat
  BY DEF Sound
<1>2. CASE node.children = <<>>
  BY <1>2 DEF Rank
<1>3. CASE node.children # <<>> /\ node.kind \in {"error", "document"}
  BY <1>1, <1>3 DEF Rank
<1>4. CASE node.children # <<>> /\ node.kind \notin {"error", "document"}
  BY <1>1, <1>4 DEF Rank
<1> QED
  BY <1>2, <1>3, <1>4

-----------------------------------------------------------------------------
(* The stack of unfinished nodes.                                          *)

\* The innermost one.
LEMMA StackTop ==
    ASSUME NEW S, NEW text, NEW frames, NEW i, FramesStand(S, text, frames, i)
    PROVE  /\ Len(frames) \in Nat /\ Len(frames) >= 1
           /\ Last(frames) = frames[Len(frames)]
           /\ Growing(S, text, Last(frames), i)
           /\ Front(frames) \in Seq(Frames(S)) /\ Len(Front(frames)) = Len(frames) - 1
           /\ \A j \in 1..(Len(frames) - 1) : Front(frames)[j] = frames[j]
           /\ Last(frames).kind # "document" => Len(frames) > 1
<1>1. frames \in Seq(Frames(S)) /\ frames # <<>>
  BY DEF FramesStand
<1>2. Len(frames) \in Nat /\ Len(frames) >= 1
  BY <1>1
<1>3. Last(frames) = frames[Len(frames)]
  BY DEF Last
<1>4. /\ Front(frames) \in Seq(Frames(S)) /\ Len(Front(frames)) = Len(frames) - 1
      /\ \A j \in 1..(Len(frames) - 1) : Front(frames)[j] = frames[j]
  <2>1. PICK m : m = Len(frames) - 1
    OBVIOUS
  <2>2. m \in Nat /\ m <= Len(frames)
    BY <2>1, <1>2
  <2>3. PICK F : F = Frames(S)
    OBVIOUS
  <2>4. /\ SubSeq(frames, 1, m) \in Seq(F) /\ Len(SubSeq(frames, 1, m)) = m
        /\ \A j \in 1..m : SubSeq(frames, 1, m)[j] = frames[j]
    BY <1>1, <1>2, <2>2, <2>3
  <2>5. Front(frames) = SubSeq(frames, 1, m)
    BY <2>1 DEF Front
  <2> QED
    BY <2>1, <2>3, <2>4, <2>5
<1>5. Growing(S, text, Last(frames), i)
  BY <1>3 DEF FramesStand
<1>6. Last(frames).kind # "document" => Len(frames) > 1
  BY <1>2, <1>3 DEF FramesStand
<1> QED
  BY <1>2, <1>3, <1>4, <1>5, <1>6

\* The innermost one is replaced by one that began there.
LEMMA StackReplaced ==
    ASSUME NEW S, NEW text, NEW frames, NEW i, FramesStand(S, text, frames, i),
           NEW R, S \subseteq R, NEW g, NEW k, Growing(R, text, g, k),
           g.kind = Last(frames).kind, g.first = Last(frames).first
    PROVE  FramesStand(R, text, Append(Front(frames), g), k)
<1> DEFINE n == Len(frames)
<1> DEFINE t == Append(Front(frames), g)
<1>1. /\ n \in Nat /\ n >= 1 /\ Last(frames) = frames[n]
      /\ Front(frames) \in Seq(Frames(S)) /\ Len(Front(frames)) = n - 1
      /\ \A j \in 1..(n - 1) : Front(frames)[j] = frames[j]
  BY StackTop
<1>2. Front(frames) \in Seq(Frames(R)) /\ g \in Frames(R)
  BY <1>1, FramesMore, SeqMore DEF Growing
<1>3. /\ t \in Seq(Frames(R)) /\ Len(t) = n /\ t[n] = g
      /\ \A j \in 1..(n - 1) : t[j] = frames[j]
  <2>1. PICK u : u = Front(frames)
    OBVIOUS
  <2>2. u \in Seq(Frames(R)) /\ Len(u) = n - 1 /\ \A j \in 1..(n - 1) : u[j] = frames[j]
    BY <1>1, <1>2, <2>1
  <2>3. /\ Append(u, g) \in Seq(Frames(R)) /\ Len(Append(u, g)) = n
        /\ Append(u, g)[n] = g
        /\ \A j \in 1..(n - 1) : Append(u, g)[j] = u[j]
    BY <1>1, <1>2, <2>2, AppendProperties
  <2> QED
    BY <2>1, <2>2, <2>3
<1> HIDE DEF t, n
<1>4. t # <<>>
  BY <1>1, <1>3
<1>5. t[1].kind = "document"
  <2>1. CASE n = 1
    BY <2>1, <1>1, <1>3 DEF FramesStand
  <2>2. CASE n # 1
    <3>1. 1 \in 1..(n - 1)
      BY <1>1, <2>2
    <3> QED
      BY <3>1, <1>3 DEF FramesStand
  <2> QED
    BY <2>1, <2>2
<1>6. ASSUME NEW j \in 1..(n - 1)
      PROVE  Growing(R, text, t[j], t[j + 1].first - 1) /\ Nested(t[j], t[j + 1])
  <2>1. Growing(S, text, frames[j], frames[j + 1].first - 1) /\ Nested(frames[j], frames[j + 1])
    BY DEF FramesStand, n
  <2>2. Growing(R, text, frames[j], frames[j + 1].first - 1)
    <3>1. PICK f, u : f = frames[j] /\ u = frames[j + 1].first - 1
      OBVIOUS
    <3>2. Growing(S, text, f, u)
      BY <2>1, <3>1
    <3> QED
      BY <3>1, <3>2, GrowingMore
  <2>3. t[j] = frames[j] /\ t[j + 1].first = frames[j + 1].first
        /\ t[j + 1].kind = frames[j + 1].kind
    <3>1. j + 1 \in 1..(n - 1) \/ j + 1 = n
      BY <1>1
    <3> QED
      BY <3>1, <1>1, <1>3
  <2> QED
    BY <2>1, <2>2, <2>3 DEF Nested
<1> QED
  BY <1>3, <1>4, <1>5, <1>6 DEF FramesStand, t

\* Another one begins.
LEMMA StackPushed ==
    ASSUME NEW S, NEW text, NEW frames, NEW i \in Nat \ {0}, FramesStand(S, text, frames, i - 1),
           NEW R, S \subseteq R, NEW g, Growing(R, text, g, i), g.first = i,
           Nested(Last(frames), g)
    PROVE  FramesStand(R, text, Append(frames, g), i)
<1> DEFINE n == Len(frames)
<1> DEFINE t == Append(frames, g)
<1>1. n \in Nat /\ n >= 1 /\ Last(frames) = frames[n] /\ Growing(S, text, frames[n], i - 1)
  BY StackTop
<1>2. frames \in Seq(Frames(R)) /\ g \in Frames(R)
  BY FramesMore, SeqMore DEF FramesStand, Growing
<1>3. /\ t \in Seq(Frames(R)) /\ Len(t) = n + 1 /\ t[n + 1] = g
      /\ \A j \in 1..n : t[j] = frames[j]
  BY <1>2, AppendProperties
<1> HIDE DEF t, n
<1>4. t # <<>>
  BY <1>1, <1>3
<1>5. t[1].kind = "document"
  <2>1. 1 \in 1..n
    BY <1>1
  <2> QED
    BY <2>1, <1>3 DEF FramesStand
<1>6. ASSUME NEW j \in 1..n
      PROVE  Growing(R, text, t[j], t[j + 1].first - 1) /\ Nested(t[j], t[j + 1])
  <2>1. CASE j = n
    <3>1. Growing(R, text, frames[n], i - 1)
      <4>1. PICK f, u : f = frames[n] /\ u = i - 1
        OBVIOUS
      <4>2. Growing(S, text, f, u)
        BY <1>1, <4>1
      <4> QED
        BY <4>1, <4>2, GrowingMore
    <3> QED
      BY <2>1, <3>1, <1>1, <1>3
  <2>2. CASE j # n
    <3>1. j \in 1..(n - 1) /\ j + 1 \in 1..n
      BY <1>1, <2>2
    <3>2. Growing(S, text, frames[j], frames[j + 1].first - 1) /\ Nested(frames[j], frames[j + 1])
      BY <3>1 DEF FramesStand, n
    <3>3. Growing(R, text, frames[j], frames[j + 1].first - 1)
      <4>1. PICK f, u : f = frames[j] /\ u = frames[j + 1].first - 1
        OBVIOUS
      <4>2. Growing(S, text, f, u)
        BY <3>2, <4>1
      <4> QED
        BY <4>1, <4>2, GrowingMore
    <3> QED
      BY <3>1, <3>2, <3>3, <1>3
  <2> QED
    BY <2>1, <2>2
<1>7. Len(t) - 1 = n /\ t[Len(t)] = g
  BY <1>1, <1>3
<1> QED
  BY <1>3, <1>4, <1>5, <1>6, <1>7 DEF FramesStand, t

\* Without the innermost one, what is left is the stack when that began.
LEMMA StackPopped ==
    ASSUME NEW S, NEW text, NEW frames, NEW i, FramesStand(S, text, frames, i),
           Last(frames).kind # "document"
    PROVE  /\ FramesStand(S, text, Front(frames), Last(frames).first - 1)
           /\ Nested(Last(Front(frames)), Last(frames))
<1> DEFINE n == Len(frames)
<1> DEFINE t == Front(frames)
<1>1. /\ n \in Nat /\ n > 1 /\ Last(frames) = frames[n]
      /\ t \in Seq(Frames(S)) /\ Len(t) = n - 1 /\ \A j \in 1..(n - 1) : t[j] = frames[j]
  BY StackTop
<1> HIDE DEF t
<1>2. t # <<>> /\ t[1].kind = "document"
  <2>1. 1 \in 1..(n - 1)
    BY <1>1
  <2>2. t # <<>>
    BY <1>1
  <2> QED
    BY <2>1, <2>2, <1>1 DEF FramesStand
<1>3. ASSUME NEW j \in 1..(n - 1)
      PROVE  Growing(S, text, frames[j], frames[j + 1].first - 1) /\ Nested(frames[j], frames[j + 1])
  BY DEF FramesStand
<1>4. n - 1 \in 1..(n - 1) /\ (n - 1) + 1 = n
  BY <1>1
<1>5. Growing(S, text, t[n - 1], Last(frames).first - 1) /\ Nested(t[n - 1], Last(frames))
  BY <1>1, <1>3, <1>4
<1>6. ASSUME NEW j \in 1..((n - 1) - 1)
      PROVE  Growing(S, text, t[j], t[j + 1].first - 1) /\ Nested(t[j], t[j + 1])
  <2>1. j \in 1..(n - 1) /\ j + 1 \in 1..(n - 1)
    BY <1>1
  <2> QED
    BY <2>1, <1>1, <1>3
<1>7. Last(t) = t[n - 1]
  BY <1>1 DEF Last
<1> HIDE DEF n
<1>8. FramesStand(S, text, t, Last(frames).first - 1)
  BY <1>1, <1>2, <1>5, <1>6 DEF FramesStand
<1> QED
  BY <1>5, <1>7, <1>8 DEF t

-----------------------------------------------------------------------------
(* A child more.                                                           *)

\* A node that may be the next child of an unfinished one, after the v-th token.
NextChild(text, frame, u, v, child) ==
    /\ u <= v /\ child.start \in Nat /\ child.end \in Nat /\ Rank(child) \in Nat
    /\ Offset(text, u + 1) <= child.start /\ child.start <= child.end
    /\ child.end <= Offset(text, v + 1)
    /\ Rank(child) <= v - Begin(frame)
    /\ Fits(frame.kind, child)

\* What may be expected after it.
NextExpect(frame, child, expect) ==
    /\ expect \in {"first", "member", "colon", "comma", "any", "end"}
    /\ frame.kind = "pair" =>
          IF expect = "end" THEN frame.expect # "colon"
          ELSE ~IsValueNode(child) /\ child.start < child.end
    /\ expect = "any" => frame.kind = "error"
    /\ expect = "end" => frame.kind \in {"object", "array", "pair"}

LEMMA ChildPut ==
    ASSUME NEW S, NEW text, NEW f, NEW u, Growing(S, text, f, u), f.expect # "end",
           NEW c \in S, NEW v \in Nat, NEW e, NextChild(text, f, u, v, c), NextExpect(f, c, e)
    PROVE  /\ Growing(S, text, WithChild(f, c, e), v)
           /\ WithChild(f, c, e).kind = f.kind /\ WithChild(f, c, e).first = f.first
           /\ WithChild(f, c, e).expect = e
           /\ WithChild(f, c, e).children # <<>>
<1> DEFINE g == WithChild(f, c, e)
<1> DEFINE n == Len(f.children)
<1>1. /\ g.kind = f.kind /\ g.first = f.first /\ g.expect = e
      /\ g.children = Append(f.children, c)
  BY DEF WithChild, Unfinished
<1>2. f.children \in Seq(S) /\ n \in Nat
  BY LenProperties DEF Growing, Frames
<1>3. /\ g.children \in Seq(S) /\ Len(g.children) = n + 1 /\ g.children[n + 1] = c
      /\ \A i \in 1..n : g.children[i] = f.children[i]
  BY <1>1, <1>2, AppendProperties
<1>4. g \in Frames(S)
  BY <1>1, <1>3 DEF Growing, Frames, WithChild, Unfinished, NextExpect
<1>5. /\ f.first \in Nat /\ u \in Nat /\ f.first # 0 /\ f.first <= u + 1 /\ Begin(f) <= u
      /\ Begin(f) \in Nat /\ Begin(g) = Begin(f)
      /\ f.kind \in Brackets => Begin(f) = f.first
  BY <1>1 DEF Growing, Frames, Begin, Brackets
<1> HIDE DEF g
<1>6. /\ u <= v
      /\ Offset(text, f.first) <= Offset(text, u + 1)
      /\ Offset(text, u + 1) <= Offset(text, v + 1)
      /\ Offset(text, f.first) \in Nat /\ Offset(text, u + 1) \in Nat
      /\ Offset(text, v + 1) \in Nat
      /\ f.kind \in Brackets => Offset(text, f.first) < Offset(text, u + 1)
  <2>1. u <= v
    BY DEF NextChild
  <2>2. PICK a, b, d : a = f.first /\ b = u + 1 /\ d = v + 1
    OBVIOUS
  <2>3. a \in Nat \ {0} /\ b \in Nat \ {0} /\ d \in Nat /\ a <= b /\ b <= d
    BY <2>1, <2>2, <1>5
  <2>4. /\ Offset(text, a) <= Offset(text, b) /\ Offset(text, b) <= Offset(text, d)
        /\ Offset(text, a) \in Nat /\ Offset(text, b) \in Nat /\ Offset(text, d) \in Nat
    BY <2>3, OffsetsGrow
  <2>5. ASSUME f.kind \in Brackets PROVE Offset(text, a) < Offset(text, b)
    <3>1. text[a] \notin NoBytes
      BY <2>5, <2>2 DEF Growing
    <3>2. a + 1 \in Nat \ {0} /\ a + 1 <= b
      BY <2>5, <2>2, <2>3, <1>5
    <3>3. Offset(text, a + 1) = Offset(text, a) + 1
      BY <3>1, <2>3, NextOffset
    <3>4. Offset(text, a + 1) <= Offset(text, b)
      BY <3>2, <2>3, OffsetsGrow
    <3> QED
      BY <3>3, <3>4, <2>4
  <2> QED
    BY <2>1, <2>2, <2>4, <2>5
<1>7. g.kind = "pair" =>
         /\ g.children # <<>> /\ g.children[1].kind \in {"string", "number"}
         /\ Len(g.children) > 1
  <2> SUFFICES ASSUME g.kind = "pair"
               PROVE  /\ g.children # <<>> /\ g.children[1].kind \in {"string", "number"}
                      /\ Len(g.children) > 1
    OBVIOUS
  <2>1. f.children # <<>> /\ f.children[1].kind \in {"string", "number"}
    BY <1>1 DEF Growing
  <2>2. 1 \in 1..n
    BY <2>1, <1>2
  <2> QED
    BY <2>1, <2>2, <1>3
<1>8. ASSUME NEW i \in 1..(n + 1) PROVE Placed(text, g, v, i)
  <2>1. ASSUME NEW j \in 1..n PROVE Placed(text, f, u, j) /\ g.children[j] = f.children[j]
    BY <1>3 DEF Growing
  <2>2. CASE i = n + 1
    <3>1. g.children[i] = c
      BY <2>2, <1>3
    <3>2. ASSUME NEW j \in 1..(i - 1) PROVE g.children[j].end <= c.start
      <4>1. j \in 1..n
        BY <2>2, <1>2
      <4>2. f.children[j].end <= Offset(text, u + 1) /\ f.children[j].end \in Nat
        BY <4>1, <2>1 DEF Placed
      <4>3. Offset(text, u + 1) <= c.start /\ c.start \in Nat
        BY DEF NextChild
      <4>4. PICK o, x, y : o = Offset(text, u + 1) /\ x = f.children[j].end /\ y = c.start
        OBVIOUS
      <4>5. x <= y
        BY <4>2, <4>3, <4>4, <1>6
      <4> QED
        BY <4>1, <4>4, <4>5, <2>1
    <3>3. /\ c.start \in Nat /\ c.end \in Nat /\ Rank(c) \in Nat
          /\ Offset(text, g.first) <= c.start /\ c.end <= Offset(text, v + 1)
          /\ g.kind \in Brackets => Offset(text, g.first) < c.start
          /\ Fits(g.kind, c) /\ Rank(c) <= v - Begin(g)
      BY SMTT(30), <1>1, <1>5, <1>6 DEF NextChild
    <3>4. g.kind = "pair" /\ IsValueNode(c) => i = Len(g.children) /\ g.expect = "end"
      BY <2>2, <1>1, <1>3 DEF NextExpect
    <3>5. g.kind = "pair" /\ g.expect # "end" => c.start < Offset(text, v + 1)
      <4>1. /\ g.kind = "pair" /\ g.expect # "end" => c.start < c.end
            /\ c.start \in Nat /\ c.end \in Nat /\ c.end <= Offset(text, v + 1)
        BY <1>1 DEF NextExpect, NextChild
      <4> QED
        BY SMTT(30), <4>1, <1>6
    <3>6. i = Len(g.children) /\ c.start <= c.end
      BY <2>2, <1>3 DEF NextChild
    <3> QED
      BY <3>1, <3>2, <3>3, <3>4, <3>5, <3>6 DEF Placed
  <2>3. CASE i # n + 1
    <3>1. i \in 1..n
      BY <2>3, <1>2
    <3>2. Placed(text, f, u, i) /\ g.children[i] = f.children[i]
      BY <3>1, <2>1
    <3>3. PICK d : d = f.children[i]
      OBVIOUS
    <3>4. /\ d.start \in Nat /\ d.end \in Nat /\ Rank(d) \in Nat
          /\ Offset(text, f.first) <= d.start /\ d.end <= Offset(text, u + 1)
          /\ f.kind \in Brackets /\ d.kind \in {"object", "array", "pair"} =>
                Offset(text, f.first) < d.start
          /\ Fits(f.kind, d)
          /\ f.kind = "pair" /\ IsValueNode(d) => i = 1
          /\ f.kind = "pair" =>
                d.start < Offset(text, u + 1) \/ (i = 1 /\ f.expect = "colon")
          /\ d.start <= d.end
          /\ Rank(d) <= u - Begin(f)
      BY <3>2, <3>3 DEF Placed, Growing
    <3>5. d.end <= Offset(text, v + 1) /\ Rank(d) <= v - Begin(f)
      BY SMTT(30), <3>4, <1>5, <1>6
    <3>6. ASSUME NEW j \in 1..(i - 1) PROVE g.children[j].end <= d.start
      <4>1. j \in 1..n
        BY <3>1, <1>2
      <4> QED
        BY <4>1, <2>1, <3>2, <3>3 DEF Placed
    <3>7. ASSUME g.kind = "pair"
          PROVE  IF g.expect = "end" THEN d.start < Last(g.children).start
                 ELSE d.start < Offset(text, v + 1)
      <4>1. /\ c.start \in Nat /\ c.end \in Nat /\ Offset(text, u + 1) <= c.start
            /\ c.end <= Offset(text, v + 1)
            /\ IF e = "end" THEN f.expect # "colon" ELSE c.start < c.end
        BY <1>1, <3>7 DEF NextExpect, NextChild
      <4>2. d.start < Offset(text, u + 1) \/ f.expect = "colon"
        BY <1>1, <3>4, <3>7
      <4>3. Last(g.children) = c
        BY <1>3 DEF Last
      <4>4. CASE e = "end"
        BY SMTT(30), <4>1, <4>2, <4>3, <4>4, <3>4, <1>1, <1>6
      <4>5. CASE e # "end"
        BY SMTT(30), <4>1, <4>5, <3>4, <1>1, <1>6
      <4> QED
        BY <4>4, <4>5
    <3> QED
      BY <3>2, <3>3, <3>4, <3>5, <3>6, <3>7, <1>1, <1>5 DEF Placed
  <2> QED
    BY <2>2, <2>3
<1>9. Growing(S, text, g, v)
  BY SMTT(30), <1>1, <1>3, <1>4, <1>5, <1>6, <1>7, <1>8 DEF Growing, NextExpect
<1> QED
  BY <1>1, <1>2, <1>3, <1>9 DEF g

\* The stack of unfinished nodes, with whatever nodes are in it.
Standing(text, frames, i) == \E S : Complete(S) /\ FramesStand(S, text, frames, i)

\* A node is put into the innermost one.
LEMMA PutKeeps ==
    ASSUME NEW S, Complete(S), NEW text, NEW frames, NEW u, FramesStand(S, text, frames, u),
           Last(frames).expect # "end",
           NEW c, Sound(S, c), c.kind # "document", NEW v \in Nat, NEW e,
           NextChild(text, Last(frames), u, v, c), NextExpect(Last(frames), c, e)
    PROVE  /\ Standing(text, Put(frames, c, e), v)
           /\ Last(Put(frames, c, e)).kind = Last(frames).kind
           /\ Last(Put(frames, c, e)).expect = e
<1> DEFINE R == S \union {c}
<1>1. Complete(R) /\ c \in R /\ S \subseteq R
  BY OneNodeMore
<1> HIDE DEF R
<1>2. PICK f : f = Last(frames)
  OBVIOUS
<1>3. Growing(R, text, f, u)
  BY <1>1, <1>2, StackTop, GrowingMore
<1>4. PICK g : g = WithChild(f, c, e)
  OBVIOUS
<1>5. Growing(R, text, g, v) /\ g.kind = f.kind /\ g.first = f.first /\ g.expect = e
  BY <1>1, <1>2, <1>3, <1>4, ChildPut
<1>6. Put(frames, c, e) = Append(Front(frames), g)
  BY <1>2, <1>4 DEF Put
<1>7. FramesStand(R, text, Append(Front(frames), g), v)
  BY <1>1, <1>2, <1>5, StackReplaced
<1>8. Last(Append(Front(frames), g)) = g
  <2>1. PICK t : t = Front(frames)
    OBVIOUS
  <2>2. t \in Seq(Frames(R)) /\ g \in Frames(R)
    <3>1. t \in Seq(Frames(S))
      BY <2>1, StackTop
    <3> QED
      BY <3>1, <1>1, <1>5, FramesMore, SeqMore DEF Growing
  <2>3. Len(Append(t, g)) = Len(t) + 1 /\ Append(t, g)[Len(t) + 1] = g
    BY <2>2, AppendProperties
  <2> QED
    BY <2>1, <2>3 DEF Last
<1> QED
  BY <1>1, <1>2, <1>5, <1>6, <1>7, <1>8 DEF Standing

-----------------------------------------------------------------------------
(* What the parser makes nodes of.                                         *)

\* A sequence of tokens.
IsText(text) == text \in Seq(Tokens)

LEMMA TextTokens ==
    ASSUME NEW text, IsText(text)
    PROVE  Len(text) \in Nat /\ \A i \in 1..Len(text) : text[i] \in Tokens
<1>1. Len(text) \in Nat
  BY LenProperties DEF IsText
<1>2. ASSUME NEW i \in 1..Len(text) PROVE text[i] \in Tokens
  BY ElementOfSeq DEF IsText
<1> QED
  BY <1>1, <1>2

LEMMA PartLength ==
    ASSUME NEW s, Len(s) \in Nat, NEW a \in 1..(Len(s) + 1), NEW u \in (a - 1)..Len(s)
    PROVE  Len(SubSeq(s, a, u)) = u - a + 1
<1>1. a \in Int /\ u \in Int
  OBVIOUS
<1>2. PICK S : S = {s[i] : i \in a..u}
  OBVIOUS
<1>3. \A i \in a..u : s[i] \in S
  BY <1>2
<1>4. Len(SubSeq(s, a, u)) = IF a <= u THEN u - a + 1 ELSE 0
  BY ONLY <1>1, <1>3, SubSeqProperties
<1> QED
  BY <1>1, <1>4

\* The first token of a node: the mark where an ERROR node begins is none of its own.
Starts(text, f, a) ==
    /\ a \in Nat \ {0}
    /\ Offset(text, a) = Offset(text, f.first)
    /\ f.kind = "error" => a = f.first + 1
    /\ f.kind # "error" => a = f.first

\* An unfinished node becomes a node over the tokens from there on.
LEMMA Finished ==
    ASSUME NEW S, NEW text, IsText(text), NEW f, NEW u \in Nat, Growing(S, text, f, u),
           NEW a \in Nat, Starts(text, f, a), a <= u + 1, Len(text) \in Nat, u <= Len(text),
           f.kind = "pair" => f.expect = "end"
    PROVE  LET node == Node(text, f.kind, a, u, f.children)
           IN  /\ Sound(S, node) /\ node.kind = f.kind
               /\ node.start = Offset(text, f.first) /\ node.end = Offset(text, u + 1)
               /\ Rank(node) \in Nat /\ Rank(node) <= u - Begin(f) + 1
               /\ Len(node.tokens) = u - a + 1
<1> DEFINE node == Node(text, f.kind, a, u, f.children)
<1> DEFINE n == Len(f.children)
<1>1. /\ node.kind = f.kind /\ node.children = f.children
      /\ node.start = Offset(text, f.first) /\ node.end = Offset(text, u + 1)
      /\ node.tokens = SubSeq(text, a, u)
  BY DEF Node, Starts
<1>2. /\ f \in Frames(S) /\ u \in Nat /\ Begin(f) <= u /\ f.first \in Nat /\ f.first # 0
      /\ n \in Nat
      /\ f.kind \in FrameKinds
      /\ Begin(f) \in Nat
      /\ f.kind = "document" => f.first = 1
      /\ a # 0
      /\ f.kind = "error" => a = f.first + 1
      /\ f.kind # "error" => a = f.first
  BY LenProperties DEF Growing, Frames, Begin, Starts
<1>3. Len(node.tokens) = u - a + 1 /\ u - a + 1 \in Nat
  <2>1. Len(text) \in Nat
    BY TextTokens
  <2>2. a \in 1..(Len(text) + 1) /\ u \in (a - 1)..Len(text)
    BY <1>2, <2>1
  <2> QED
    BY <1>1, <1>2, <2>1, <2>2, PartLength
<1> HIDE DEF node
<1>4. node.start \in Nat /\ node.end \in Nat /\ node.start <= node.end
  BY <1>1, <1>2, OffsetsGrow DEF Growing
<1>5. ASSUME node.kind \in Brackets \union {"string"} PROVE node.start < node.end
  <2>0. node.kind \in Brackets
    BY <1>1, <1>2, <1>5 DEF FrameKinds
  <2>1. text[f.first] \notin NoBytes /\ f.first <= u
    BY <1>1, <2>0 DEF Growing, Begin, Brackets
  <2>2. PICK p : p = f.first
    OBVIOUS
  <2>3. Offset(text, p + 1) = Offset(text, p) + 1 /\ Offset(text, p) \in Nat
    BY <2>1, <2>2, <1>2, NextOffset
  <2>4. Offset(text, p + 1) <= Offset(text, u + 1) /\ Offset(text, u + 1) \in Nat
    <3>1. p + 1 \in Nat \ {0} /\ u + 1 \in Nat /\ p + 1 <= u + 1
      BY <1>2, <2>1, <2>2
    <3> QED
      BY <3>1, OffsetsGrow
  <2> QED
    BY <2>2, <2>3, <2>4, <1>1
<1>6. /\ Rank(node) \in Nat /\ Rank(node) <= u - Begin(f) + 1
      /\ node.children # <<>> => Rank(node) = u - Begin(f) + 1
  <2>1. CASE node.children = <<>>
    BY <2>1, <1>2 DEF Rank
  <2>2. CASE node.children # <<>> /\ f.kind = "document"
    BY <2>2, <1>1, <1>2, <1>3 DEF Rank, Begin
  <2>3. CASE node.children # <<>> /\ f.kind = "error"
    BY <2>3, <1>1, <1>2, <1>3 DEF Rank, Begin
  <2>4. CASE node.children # <<>> /\ f.kind \notin {"document", "error"}
    BY <2>4, <1>1, <1>2, <1>3 DEF Rank, Begin
  <2> QED
    BY <2>1, <2>2, <2>3, <2>4
<1>7. ASSUME node.kind = "pair"
      PROVE  /\ Len(node.children) > 1 /\ node.children[1].kind \in {"string", "number"}
             /\ \A i \in 1..(Len(node.children) - 1) :
                   node.children[i].start < Last(node.children).start
  <2>1. f.kind = "pair" /\ f.expect = "end"
    BY <1>1, <1>7
  <2>2. Len(f.children) > 1 /\ f.children[1].kind \in {"string", "number"}
    BY <2>1 DEF Growing
  <2>3. ASSUME NEW i \in 1..(n - 1) PROVE f.children[i].start < Last(f.children).start
    <3>1. i \in 1..n /\ i # n
      BY <1>2
    <3>2. Placed(text, f, u, i)
      BY <3>1 DEF Growing
    <3> QED
      BY <3>1, <3>2, <2>1 DEF Placed
  <2> QED
    BY <2>2, <2>3, <1>1
<1>8. ASSUME NEW i \in 1..Len(node.children)
      PROVE  /\ node.start <= node.children[i].start /\ node.children[i].end <= node.end
             /\ \A j \in 1..(i - 1) : node.children[j].end <= node.children[i].start
             /\ node.kind \in Brackets /\ node.children[i].kind \in {"object", "array", "pair"} =>
                   node.start < node.children[i].start
             /\ Fits(node.kind, node.children[i])
             /\ node.kind = "pair" /\ IsValueNode(node.children[i]) =>
                   i = 1 \/ i = Len(node.children)
             /\ Rank(node.children[i]) < Rank(node)
  <2>1. Placed(text, f, u, i)
    BY <1>1 DEF Growing
  <2>2. node.children # <<>>
    BY <1>1, <1>2
  <2>3. Rank(node.children[i]) < Rank(node)
    BY <2>1, <2>2, <1>1, <1>2, <1>6 DEF Placed
  <2> QED
    BY <2>1, <2>3, <1>1 DEF Placed
<1>9. Sound(S, node)
  <2>1. node.children \in Seq(S)
    BY <1>1 DEF Growing, Frames
  <2> QED
    BY <2>1, <1>1, <1>2, <1>3, <1>4, <1>5, <1>7, <1>8 DEF Sound
<1> QED
  BY <1>1, <1>3, <1>6, <1>9 DEF node

\* The kinds of tokens.
LeafKinds ==
    {"string", "number", "comment", "error", "{", "}", "[", "]", ",", ":", "quote", "content"}

LEMMA LeafNode ==
    ASSUME NEW S, NEW text, IsText(text), NEW i \in 1..Len(text),
           text[i] \notin White \union Marks
    PROVE  LET leaf == Leaf(text, i)
           IN  /\ Sound(S, leaf) /\ leaf.kind = Kind(text[i]) /\ leaf.kind \in LeafKinds
               /\ leaf.start = Offset(text, i) /\ leaf.end = Offset(text, i + 1)
               /\ Rank(leaf) = 0
               /\ IsValueNode(leaf) => text[i] \in Strings \union Scalars \union {"missing"}
               /\ leaf.kind = "string" => text[i] \in Strings
               /\ text[i] \notin NoBytes => leaf.start < leaf.end
<1> DEFINE leaf == Leaf(text, i)
<1>1. /\ leaf.kind = Kind(text[i]) /\ leaf.children = <<>>
      /\ leaf.start = Offset(text, i) /\ leaf.end = Offset(text, i + 1)
      /\ leaf.tokens = SubSeq(text, i, i)
  BY DEF Leaf, Node
<1>2. Len(text) \in Nat /\ i \in Nat \ {0} /\ i + 1 \in Nat /\ i <= i + 1
  BY TextTokens
<1>3. Len(leaf.tokens) \in Nat
  <2>1. i \in 1..(Len(text) + 1) /\ i \in (i - 1)..Len(text)
    BY <1>2
  <2>2. Len(SubSeq(text, i, i)) = i - i + 1
    BY <2>1, <1>2, PartLength
  <2> QED
    BY <1>1, <1>2, <2>2
<1>4. text[i] \in Tokens
  BY TextTokens
<1>5. /\ Kind(text[i]) \in LeafKinds
      /\ Kind(text[i]) \in {"string", "number"} =>
            text[i] \in Strings \union Scalars \union {"missing"}
      /\ Kind(text[i]) = "string" => text[i] \in Strings
  <2>1. PICK t : t = text[i]
    OBVIOUS
  <2>2. t \in Tokens /\ t \notin White \union Marks
    BY <2>1, <1>4
  <2>3. CASE t \in Strings \union Scalars \union {"missing"}
    BY <2>1, <2>3 DEF Kind, LeafKinds
  <2>4. CASE t \in Extras \union {"missing }", "missing ]"}
    BY <2>1, <2>4, TokensDisjoint DEF Kind, LeafKinds, Extras, Comments, Skipped, NoBytes
  <2>5. CASE t \in {"{", "}", "[", "]", ",", ":", "quote", "content"}
    BY <2>1, <2>5, TokensDisjoint DEF Kind, LeafKinds, Comments, Skipped
  <2> QED
    BY <2>2, <2>3, <2>4, <2>5 DEF Tokens, NoBytes
<1> HIDE DEF leaf
<1>6. leaf.start \in Nat /\ leaf.end \in Nat /\ leaf.start <= leaf.end
  BY <1>1, <1>2, OffsetsGrow
<1>11. text[i] \notin NoBytes => leaf.start < leaf.end
  BY <1>1, <1>2, <1>6, NextOffset
<1>12. leaf.kind = "string" => leaf.start < leaf.end
  <2>1. leaf.kind = "string" => text[i] \notin NoBytes
    BY <1>1, <1>5, TokensDisjoint
  <2> QED
    BY <2>1, <1>11
<1>7. Rank(leaf) = 0
  BY <1>1 DEF Rank
<1>8. leaf.kind \notin Brackets \union {"pair"}
  BY <1>1, <1>5 DEF LeafKinds, Brackets
<1>9. leaf.kind \in {"string", "number"} \/ ~IsValueNode(leaf)
  BY <1>8 DEF IsValueNode, Brackets
<1>10. Sound(S, leaf)
  BY <1>1, <1>3, <1>6, <1>8, <1>12 DEF Sound
<1> QED
  BY <1>1, <1>5, <1>7, <1>9, <1>10, <1>11 DEF leaf

-----------------------------------------------------------------------------
(* What each step does to the stack.                                       *)

\* What may follow a member.
LEMMA AfterMembers ==
    ASSUME NEW kind \in FrameKinds
    PROVE  /\ AfterMember[kind] \in {"first", "member", "colon", "comma", "any", "end"}
           /\ kind = "pair" => AfterMember[kind] = "end"
           /\ AfterMember[kind] = "any" => kind = "error"
           /\ AfterMember[kind] = "end" => kind = "pair"
  BY DEF AfterMember, FrameKinds

\* A complete node becomes a child of the one around it.
LEMMA SettleKeeps ==
    ASSUME NEW text, IsText(text), NEW i \in 1..Len(text), NEW frames,
           Standing(text, frames, i), Last(frames).expect = "end"
    PROVE  /\ Standing(text, Settle(text, i, frames), i)
           /\ Last(Settle(text, i, frames)).kind = Last(Front(frames)).kind
           /\ Last(Settle(text, i, frames)).expect = AfterMember[Last(Front(frames)).kind]
           /\ Nested(Last(Front(frames)), Last(frames))
           /\ Last(frames).kind \in {"object", "array", "pair"}
           /\ Last(Front(frames)).kind \in FrameKinds
<1>1. PICK S : Complete(S) /\ FramesStand(S, text, frames, i)
  BY DEF Standing
<1>2. PICK top, rest : top = Last(frames) /\ rest = Front(frames)
  OBVIOUS
<1>3. PICK p : p = Last(rest)
  OBVIOUS
<1>4. Growing(S, text, top, i)
  BY <1>1, <1>2, StackTop
<1>5. /\ top.kind \in {"object", "array", "pair"}
      /\ top.first \in Nat \ {0} /\ top.first <= i /\ Begin(top) = top.first
  BY <1>2, <1>4 DEF Growing, Frames, Begin
<1>6. FramesStand(S, text, rest, top.first - 1) /\ Nested(p, top)
  <2>1. Last(frames).kind # "document"
    BY <1>2, <1>5
  <2> QED
    BY <2>1, <1>1, <1>2, <1>3, StackPopped
<1>7. PICK u : u = top.first - 1
  OBVIOUS
<1>8. Growing(S, text, p, u)
  BY <1>3, <1>6, <1>7, StackTop
<1>9. /\ u \in Nat /\ u + 1 = top.first /\ u <= i
      /\ p.kind \in FrameKinds /\ Begin(p) <= u /\ Begin(p) \in Nat
  BY <1>5, <1>7, <1>8 DEF Growing, Frames, Begin
<1>10. PICK d : d = Node(text, top.kind, top.first, i, top.children)
  OBVIOUS
<1>11. /\ Sound(S, d) /\ d.kind = top.kind
       /\ d.start = Offset(text, top.first) /\ d.end = Offset(text, i + 1)
       /\ Rank(d) \in Nat /\ Rank(d) <= i - Begin(top) + 1
  <2>1. Starts(text, top, top.first)
    BY <1>5 DEF Starts
  <2>2. PICK a : a = top.first
    OBVIOUS
  <2>3. /\ a \in Nat /\ a <= i + 1 /\ Starts(text, top, a) /\ i \in Nat
        /\ Len(text) \in Nat /\ i <= Len(text) /\ d = Node(text, top.kind, a, i, top.children)
        /\ top.expect = "end"
    BY <2>1, <2>2, <1>2, <1>5, <1>10, TextTokens
  <2> QED
    BY <2>2, <2>3, <1>4, Finished
<1>12. NextChild(text, p, u, i, d)
  <2>1. d.start \in Nat /\ d.end \in Nat /\ d.start <= d.end
    BY <1>11 DEF Sound
  <2>2. Rank(d) <= i - Begin(p)
    BY <1>5, <1>9, <1>11
  <2>3. Fits(p.kind, d)
    BY <1>5, <1>6, <1>11 DEF Fits, Nested, IsValueNode, Brackets
  <2> QED
    BY <2>1, <2>2, <2>3, <1>9, <1>11, OffsetsGrow DEF NextChild
<1>13. PICK e : e = AfterMember[p.kind]
  OBVIOUS
<1>14. NextExpect(p, d, e)
  <2>1. p.kind = "pair" => p.expect # "colon"
    BY <1>5, <1>6 DEF Nested, Brackets
  <2> QED
    BY <2>1, <1>9, <1>13, AfterMembers DEF NextExpect
<1>15. p.expect # "end"
  BY <1>6 DEF Nested
<1>16. /\ Standing(text, Put(rest, d, e), i)
       /\ Last(Put(rest, d, e)).kind = p.kind /\ Last(Put(rest, d, e)).expect = e
  <2>1. d.kind # "document" /\ i \in Nat
    BY <1>5, <1>11
  <2>2. FramesStand(S, text, rest, u)
    BY <1>6, <1>7
  <2> QED
    BY <2>1, <2>2, <1>1, <1>3, <1>11, <1>12, <1>14, <1>15, PutKeeps
<1>17. Settle(text, i, frames) = Put(rest, d, e)
  BY <1>2, <1>3, <1>10, <1>13 DEF Settle, PutMember
<1> QED
  BY <1>2, <1>3, <1>5, <1>6, <1>9, <1>13, <1>16, <1>17

\* An ERROR node becomes a child of the one around it.
LEMMA ErrorKeeps ==
    ASSUME NEW text, IsText(text), NEW i \in 1..Len(text), NEW frames,
           Standing(text, frames, i - 1), Last(frames).kind = "error",
           Offset(text, Last(frames).first) < Offset(text, i)
    PROVE  /\ Standing(text, PutError(text, i, frames), i)
           /\ Last(PutError(text, i, frames)).expect # "end"
<1>1. PICK S : Complete(S) /\ FramesStand(S, text, frames, i - 1)
  BY DEF Standing
<1>2. PICK top, rest, k : top = Last(frames) /\ rest = Front(frames) /\ k = i - 1
  OBVIOUS
<1>3. PICK p : p = Last(rest)
  OBVIOUS
<1>4. Growing(S, text, top, k)
  BY <1>1, <1>2, StackTop
<1>5. /\ top.kind = "error" /\ k \in Nat /\ k + 1 = i
      /\ top.first \in Nat \ {0} /\ top.first <= k /\ Begin(top) = top.first
      /\ text[top.first] \in NoBytes
  BY <1>2, <1>4 DEF Growing, Frames, Begin
<1>6. FramesStand(S, text, rest, top.first - 1) /\ Nested(p, top)
  <2>1. Last(frames).kind # "document"
    BY <1>2, <1>5
  <2> QED
    BY <2>1, <1>1, <1>2, <1>3, StackPopped
<1>7. PICK u : u = top.first - 1
  OBVIOUS
<1>8. Growing(S, text, p, u)
  BY <1>3, <1>6, <1>7, StackTop
<1>9. /\ u \in Nat /\ u + 1 = top.first /\ u <= i
      /\ p.expect \in {"first", "member", "colon", "comma", "any", "end"}
      /\ p.expect = "any" => p.kind = "error"
      /\ Begin(p) <= u /\ Begin(p) \in Nat
  BY <1>5, <1>7, <1>8 DEF Growing, Frames, Begin
<1>10. PICK a : a = top.first + 1
  OBVIOUS
<1>11. PICK d : d = Node(text, "error", a, k, top.children)
  OBVIOUS
<1>12. /\ Sound(S, d) /\ d.kind = "error"
       /\ d.start = Offset(text, top.first) /\ d.end = Offset(text, k + 1)
       /\ Rank(d) \in Nat /\ Rank(d) <= k - Begin(top) + 1
  <2>1. Starts(text, top, a)
    <3>1. PICK q : q = top.first
      OBVIOUS
    <3>2. Offset(text, q + 1) = Offset(text, q)
      BY <3>1, <1>5, NextOffset
    <3> QED
      BY <3>1, <3>2, <1>5, <1>10 DEF Starts
  <2>2. /\ a \in Nat /\ a <= k + 1 /\ k \in Nat
        /\ Len(text) \in Nat /\ k <= Len(text) /\ d = Node(text, top.kind, a, k, top.children)
    BY <1>5, <1>10, <1>11, TextTokens
  <2> QED
    BY SMTT(30), <2>1, <2>2, <1>4, <1>5, Finished
<1>13. NextChild(text, p, u, i, d)
  <2>1. d.start \in Nat /\ d.end \in Nat /\ d.start <= d.end
    BY <1>12 DEF Sound
  <2>2. Rank(d) <= i - Begin(p)
    BY SMTT(30), <1>5, <1>9, <1>12
  <2>3. Fits(p.kind, d)
    BY <1>12 DEF Fits, IsValueNode
  <2>4. d.end <= Offset(text, i + 1)
    <3>1. i \in Nat \ {0} /\ i + 1 \in Nat /\ i <= i + 1
      OBVIOUS
    <3>2. Offset(text, i) <= Offset(text, i + 1)
      BY <3>1, OffsetsGrow
    <3> QED
      BY <3>2, <1>5, <1>12
  <2> QED
    BY <2>1, <2>2, <2>3, <2>4, <1>9, <1>12 DEF NextChild
<1>14. p.expect # "end"
  BY <1>6 DEF Nested
<1>15. PICK e : e = p.expect
  OBVIOUS
<1>16. NextExpect(p, d, e)
  <2>1. d.start < d.end
    BY <1>2, <1>5, <1>12
  <2> QED
    BY <2>1, <1>9, <1>12, <1>14, <1>15 DEF NextExpect, IsValueNode
<1>17. Standing(text, Put(rest, d, e), i) /\ Last(Put(rest, d, e)).expect = e
  <2>1. d.kind # "document" /\ i \in Nat
    BY <1>12
  <2>2. FramesStand(S, text, rest, u)
    BY <1>6, <1>7
  <2> QED
    BY <2>1, <2>2, <1>1, <1>3, <1>12, <1>13, <1>14, <1>16, PutKeeps
<1>18. PutError(text, i, frames) = Put(rest, d, e)
  BY <1>2, <1>3, <1>5, <1>10, <1>11, <1>15 DEF PutError
<1> QED
  BY <1>14, <1>15, <1>17, <1>18

\* A token becomes a child.
LEMMA LeafKeeps ==
    ASSUME NEW text, IsText(text), NEW i \in 1..Len(text), text[i] \notin White \union Marks,
           NEW frames, Standing(text, frames, i - 1), Last(frames).expect # "end",
           NEW e, NextExpect(Last(frames), Leaf(text, i), e),
           Fits(Last(frames).kind, Leaf(text, i))
    PROVE  /\ Standing(text, Put(frames, Leaf(text, i), e), i)
           /\ Last(Put(frames, Leaf(text, i), e)).kind = Last(frames).kind
           /\ Last(Put(frames, Leaf(text, i), e)).expect = e
<1>1. PICK S : Complete(S) /\ FramesStand(S, text, frames, i - 1)
  BY DEF Standing
<1>2. PICK p, c, u : p = Last(frames) /\ c = Leaf(text, i) /\ u = i - 1
  OBVIOUS
<1>3. /\ Sound(S, c) /\ c.kind \in LeafKinds
      /\ c.start = Offset(text, i) /\ c.end = Offset(text, i + 1) /\ Rank(c) = 0
  BY <1>2, LeafNode
<1>4. Growing(S, text, p, u)
  BY <1>1, <1>2, StackTop
<1>5. i \in Nat /\ u \in Nat /\ u + 1 = i /\ u <= i /\ Begin(p) <= u /\ Begin(p) \in Nat
  BY <1>2, <1>4 DEF Growing, Frames, Begin
<1>6. NextChild(text, p, u, i, c)
  <2>1. c.start \in Nat /\ c.end \in Nat /\ c.start <= c.end
    BY <1>3 DEF Sound
  <2> QED
    BY <2>1, <1>2, <1>3, <1>5 DEF NextChild
<1>7. c.kind # "document"
  BY <1>3 DEF LeafKinds
<1>8. NextExpect(p, c, e) /\ p.expect # "end" /\ FramesStand(S, text, frames, u)
  BY <1>1, <1>2
<1>9. /\ Standing(text, Put(frames, c, e), i)
      /\ Last(Put(frames, c, e)).kind = p.kind /\ Last(Put(frames, c, e)).expect = e
  BY <1>1, <1>2, <1>3, <1>5, <1>6, <1>7, <1>8, PutKeeps
<1> QED
  BY <1>2, <1>9

\* A node begins.
LEMMA PushKeeps ==
    ASSUME NEW S, NEW text, NEW i \in 1..Len(text), NEW frames, FramesStand(S, text, frames, i - 1),
           NEW R, Complete(R), S \subseteq R, NEW g, Growing(R, text, g, i), g.first = i,
           Nested(Last(frames), g)
    PROVE  Standing(text, Append(frames, g), i) /\ Last(Append(frames, g)) = g
<1>1. i \in Nat \ {0}
  OBVIOUS
<1>2. FramesStand(R, text, Append(frames, g), i)
  BY <1>1, StackPushed
<1>3. Last(Append(frames, g)) = g
  <2>1. frames \in Seq(Frames(R)) /\ g \in Frames(R)
    BY FramesMore, SeqMore DEF FramesStand, Growing
  <2>2. Len(Append(frames, g)) = Len(frames) + 1 /\ Append(frames, g)[Len(frames) + 1] = g
    BY <2>1, AppendProperties
  <2> QED
    BY <2>2 DEF Last
<1> QED
  BY <1>2, <1>3 DEF Standing

\* It is an ERROR node, without children.
LEMMA ErrorBegins ==
    ASSUME NEW text, IsText(text), NEW i \in 1..Len(text), text[i] \in NoBytes, NEW frames,
           Standing(text, frames, i - 1), Last(frames).expect # "end",
           NEW e \in {"any", "member"}
    PROVE  LET r == Append(frames, Unfinished("error", i, <<>>, e))
           IN  Standing(text, r, i) /\ Last(r).expect # "end"
<1>1. PICK S : Complete(S) /\ FramesStand(S, text, frames, i - 1)
  BY DEF Standing
<1>2. PICK g : g = Unfinished("error", i, <<>>, e)
  OBVIOUS
<1>3. g.kind = "error" /\ g.first = i /\ g.children = <<>> /\ g.expect = e /\ g \in Frames(S)
  <2>1. <<>> \in Seq(S)
    OBVIOUS
  <2> QED
    BY <2>1, <1>2 DEF Unfinished, Frames, FrameKinds
<1>4. Growing(S, text, g, i)
  BY <1>3 DEF Growing, Begin, Brackets
<1>5. Nested(Last(frames), g)
  BY <1>3 DEF Nested, Brackets
<1>6. Standing(text, Append(frames, g), i) /\ Last(Append(frames, g)) = g
  BY <1>1, <1>3, <1>4, <1>5, PushKeeps
<1> QED
  BY <1>2, <1>3, <1>6

\* It is a container or a pair, with a first child.
LEMMA NodeBegins ==
    ASSUME NEW text, IsText(text), NEW i \in 1..Len(text), text[i] \notin White \union Marks,
           NEW frames, Standing(text, frames, i - 1),
           NEW kind \in {"object", "array", "pair"}, NEW e \in {"first", "colon"},
           kind \in Brackets => text[i] \notin NoBytes /\ ~IsValueNode(Leaf(text, i)),
           kind = "pair" => Leaf(text, i).kind \in {"string", "number"} /\ e = "colon",
           Nested(Last(frames), Unfinished(kind, i, <<Leaf(text, i)>>, e))
    PROVE  LET r == Append(frames, Unfinished(kind, i, <<Leaf(text, i)>>, e))
           IN  Standing(text, r, i) /\ Last(r).expect # "end"
<1>1. PICK S : Complete(S) /\ FramesStand(S, text, frames, i - 1)
  BY DEF Standing
<1>2. PICK c : c = Leaf(text, i)
  OBVIOUS
<1>3. /\ Sound(S, c) /\ c.kind \in LeafKinds
      /\ c.start = Offset(text, i) /\ c.end = Offset(text, i + 1) /\ Rank(c) = 0
      /\ c.start \in Nat /\ c.end \in Nat /\ c.start <= c.end
  <2>1. /\ Sound(S, c) /\ c.kind \in LeafKinds
        /\ c.start = Offset(text, i) /\ c.end = Offset(text, i + 1) /\ Rank(c) = 0
    BY <1>2, LeafNode
  <2>2. c.start \in Nat /\ c.end \in Nat /\ c.start <= c.end
    BY <2>1 DEF Sound
  <2> QED
    BY <2>1, <2>2
<1>4. PICK R : R = S \union {c}
  OBVIOUS
<1>5. Complete(R) /\ S \subseteq R /\ c \in R
  <2>1. c.kind # "document"
    BY <1>3 DEF LeafKinds
  <2> QED
    BY <2>1, <1>1, <1>3, <1>4, OneNodeMore
<1>6. PICK g : g = Unfinished(kind, i, <<c>>, e)
  OBVIOUS
<1>7. /\ g.kind = kind /\ g.first = i /\ g.expect = e /\ g.children = <<c>> /\ g \in Frames(R)
      /\ g.children # <<>> /\ Len(g.children) = 1 /\ g.children[1] = c
  <2>1. <<c>> \in Seq(R) /\ Len(<<c>>) = 1 /\ <<c>> # <<>> /\ <<c>>[1] = c
    BY <1>5
  <2> QED
    BY <2>1, <1>6 DEF Unfinished, Frames, FrameKinds
<1>8. Begin(g) = i /\ i \in Nat /\ i # 0
  BY <1>7 DEF Begin
<1>9. Placed(text, g, i, 1)
  <2>1. Fits(g.kind, c)
    BY <1>2, <1>3, <1>7 DEF Fits, LeafKinds, Brackets
  <2>2. c.kind \notin {"object", "array", "pair"}
    BY <1>3 DEF LeafKinds
  <2> QED
    BY <2>1, <2>2, <1>3, <1>7, <1>8 DEF Placed
<1>10. Growing(R, text, g, i)
  BY <1>2, <1>7, <1>8, <1>9 DEF Growing
<1>11. Nested(Last(frames), g)
  BY <1>2, <1>6
<1>12. Standing(text, Append(frames, g), i) /\ Last(Append(frames, g)) = g
  BY <1>1, <1>5, <1>7, <1>10, <1>11, PushKeeps
<1> QED
  BY <1>2, <1>6, <1>7, <1>12

\* White space is in no node.
LEMMA WhiteKeeps ==
    ASSUME NEW text, NEW i \in Nat \ {0}, NEW frames, Standing(text, frames, i - 1)
    PROVE  Standing(text, frames, i)
<1>1. PICK S : Complete(S) /\ FramesStand(S, text, frames, i - 1)
  BY DEF Standing
<1>2. PICK f, u : f = frames[Len(frames)] /\ u = i - 1
  OBVIOUS
<1>3. Growing(S, text, f, u) /\ u \in Nat /\ u + 1 = i /\ u <= i
  BY <1>1, <1>2 DEF FramesStand
<1>4. f.first \in Nat /\ Begin(f) \in Nat
  BY <1>3 DEF Growing, Frames, Begin
<1>5. ASSUME NEW j \in 1..Len(f.children) PROVE Placed(text, f, i, j)
  <2>1. Placed(text, f, u, j)
    BY <1>3 DEF Growing
  <2>2. Offset(text, u + 1) <= Offset(text, i + 1)
        /\ Offset(text, u + 1) \in Nat /\ Offset(text, i + 1) \in Nat
    <3>1. i + 1 \in Nat /\ i <= i + 1
      OBVIOUS
    <3> QED
      BY <3>1, <1>3, OffsetsGrow
  <2>3. PICK c : c = f.children[j]
    OBVIOUS
  <2>4. /\ c.start <= c.end /\ c.start \in Nat
        /\ c.end <= Offset(text, i + 1) /\ Rank(c) <= i - Begin(f)
        /\ c.start < Offset(text, u + 1) => c.start < Offset(text, i + 1)
    BY SMTT(30), <2>1, <2>2, <2>3, <1>3, <1>4 DEF Placed
  <2> QED
    BY <2>1, <2>3, <2>4 DEF Placed
<1>6. Growing(S, text, f, i)
  BY <1>3, <1>4, <1>5 DEF Growing
<1> QED
  BY <1>1, <1>2, <1>6 DEF Standing, FramesStand

\* The outcomes of a token.
Outcome(text, i, frames, top, leaf, token, r) ==
    \/ token \in White /\ r = frames
    \/ token \in Extras /\ r = Put(frames, leaf, top.expect)
    \/ /\ token \in Marks
       /\ \E e \in {"any", "member"} : r = Append(frames, Unfinished("error", i, <<>>, e))
    \/ /\ top.expect = "any" /\ Offset(text, top.first) < Offset(text, i)
       /\ r = PutError(text, i, frames)
    \/ /\ top.expect = "any" /\ token \notin White \union Extras \union Marks
       /\ r = Put(frames, leaf, "any")
    \/ /\ top.expect \in {"first", "member"} /\ top.kind \in {"object", "error"}
       /\ token \in Strings \union {"missing"}
       /\ r = Append(frames, Unfinished("pair", i, <<leaf>>, "colon"))
    \/ /\ top.expect \in {"first", "member"} /\ top.kind \notin {"object", "error"}
       /\ token \in Leaves /\ r = PutMember(frames, leaf)
    \/ /\ top.expect \in {"first", "member"} /\ top.kind \notin {"object", "error"}
       /\ token \in {"{", "["}
       /\ r = Append(frames, Unfinished(Container[token], i, <<leaf>>, "first"))
    \/ token = ":" /\ top.expect = "colon" /\ r = Put(frames, leaf, "member")
    \/ token = "," /\ top.expect = "comma" /\ r = Put(frames, leaf, "member")
    \/ /\ leaf.kind \in {"}", "]"} /\ top.kind = Container[leaf.kind]
       /\ top.expect \in {"first", "comma"} /\ r = Put(frames, leaf, "end")
    \/ r = <<>>

LEMMA ShiftCases ==
    ASSUME NEW text, NEW i, NEW frames, NEW top, NEW leaf
    PROVE  Outcome(text, i, frames, top, leaf, text[i], ShiftLeaf(text, i, frames, top, leaf))
<1> DEFINE token  == text[i]
<1> DEFINE member == top.expect \in {"first", "member"}
<1> DEFINE keyed  == top.kind \in {"object", "error"}
<1> DEFINE b1 == token \in White
<1> DEFINE b2 == token \in Extras
<1> DEFINE b3 == token = "error("
<1> DEFINE b4 == token = "error(pair"
<1> DEFINE b5 == /\ top.expect = "any" /\ token = ")error"
                 /\ Offset(text, top.first) < Offset(text, i)
<1> DEFINE b6 == top.expect = "any" /\ token \notin White \union Extras \union Marks
<1> DEFINE b7 == member /\ keyed /\ token \in Strings \union {"missing"}
<1> DEFINE b8 == member /\ ~keyed /\ token \in Leaves
<1> DEFINE b9 == member /\ ~keyed /\ token \in {"{", "["}
<1> DEFINE b10 == token = ":" /\ top.expect = "colon"
<1> DEFINE b11 == token = "," /\ top.expect = "comma"
<1> DEFINE b12 == /\ leaf.kind \in {"}", "]"} /\ top.kind = Container[leaf.kind]
                  /\ top.expect \in {"first", "comma"}
<1> DEFINE x2 == Put(frames, leaf, top.expect)
<1> DEFINE x3 == Append(frames, Unfinished("error", i, <<>>, "any"))
<1> DEFINE x4 == Append(frames, Unfinished("error", i, <<>>, "member"))
<1> DEFINE x5 == PutError(text, i, frames)
<1> DEFINE x6 == Put(frames, leaf, "any")
<1> DEFINE x7 == Append(frames, Unfinished("pair", i, <<leaf>>, "colon"))
<1> DEFINE x8 == PutMember(frames, leaf)
<1> DEFINE x9 == Append(frames, Unfinished(Container[token], i, <<leaf>>, "first"))
<1> DEFINE x10 == Put(frames, leaf, "member")
<1> DEFINE x12 == Put(frames, leaf, "end")
<1> DEFINE r == ShiftLeaf(text, i, frames, top, leaf)
<1>1. r = CASE b1 -> frames [] b2 -> x2 [] b3 -> x3 [] b4 -> x4 [] b5 -> x5 [] b6 -> x6
            [] b7 -> x7 [] b8 -> x8 [] b9 -> x9 [] b10 -> x10 [] b11 -> x10 [] b12 -> x12
            [] OTHER -> <<>>
  BY DEF ShiftLeaf
<1>2. \/ (b1 /\ r = frames) \/ (b2 /\ r = x2) \/ (b3 /\ r = x3) \/ (b4 /\ r = x4)
      \/ (b5 /\ r = x5) \/ (b6 /\ r = x6) \/ (b7 /\ r = x7) \/ (b8 /\ r = x8)
      \/ (b9 /\ r = x9) \/ (b10 /\ r = x10) \/ (b11 /\ r = x10) \/ (b12 /\ r = x12)
      \/ r = <<>>
  <2> HIDE DEF b1, b2, b3, b4, b5, b6, b7, b8, b9, b10, b11, b12,
               x2, x3, x4, x5, x6, x7, x8, x9, x10, x12, r
  <2> QED
    BY <1>1
<1>3. b3 \/ b4 => token \in Marks
  BY DEF Marks
<1> QED
  BY ZenonT(60), <1>2, <1>3 DEF Marks, Outcome

\* Which tokens are which.
LEMMA TokenKinds ==
    ASSUME NEW t
    PROVE  /\ t \in Extras \union {"{", "[", ":", ","} =>
                 t \notin White \union Marks \union Strings \union Scalars \union {"missing"}
           /\ t \in Strings \union Scalars \union {"missing"} => t \notin White \union Marks
           /\ Kind(t) \in {"}", "]"} => t \notin White \union Marks
           /\ t \in Extras \union {"{", "[", ":", ","} => t \notin NoBytes
<1>1. t \in Extras \union {"{", "[", ":", ","} =>
         t \notin White \union Marks \union Strings \union Scalars \union {"missing"}
  BY TokensDisjoint DEF Extras, Comments, Skipped, White, Marks
<1>2. t \in Strings \union Scalars \union {"missing"} => t \notin White \union Marks
  BY TokensDisjoint DEF White, NoBytes, Marks
<1>3. t \in White \union Marks => Kind(t) = t
  BY TokensDisjoint DEF Kind, Comments, Skipped, White, NoBytes, Marks
<1>4. {"}", "]"} \intersect (White \union Marks) = {}
  BY DEF White, Marks
<1>5. t \in Extras \union {"{", "[", ":", ","} => t \notin NoBytes
  BY DEF Extras, Comments, Skipped, NoBytes, Marks
<1> QED
  BY <1>1, <1>2, <1>3, <1>4, <1>5

\* The innermost node has one of the kinds.
LEMMA TopType ==
    ASSUME NEW text, NEW frames, NEW i, Standing(text, frames, i)
    PROVE  /\ frames # <<>> /\ Last(frames).kind \in FrameKinds
           /\ Last(frames).expect \in {"first", "member", "colon", "comma", "any", "end"}
           /\ Last(frames).expect = "any" => Last(frames).kind = "error"
<1>1. PICK S : FramesStand(S, text, frames, i)
  BY DEF Standing
<1>2. PICK f : f = Last(frames)
  OBVIOUS
<1>3. Growing(S, text, f, i) /\ frames # <<>>
  BY <1>1, <1>2, StackTop DEF FramesStand
<1> QED
  BY <1>2, <1>3 DEF Growing, Frames

\* A token leaves a stack, or nothing.
LEMMA ShiftLeafKeeps ==
    ASSUME NEW text, IsText(text), NEW i \in 1..Len(text), NEW frames,
           Standing(text, frames, i - 1), Last(frames).expect # "end"
    PROVE  LET r == ShiftLeaf(text, i, frames, Last(frames), Leaf(text, i))
           IN  r # <<>> => Standing(text, r, i)
<1>1. PICK r : r = ShiftLeaf(text, i, frames, Last(frames), Leaf(text, i))
  OBVIOUS
<1>2. PICK top : top = Last(frames)
  OBVIOUS
<1>3. PICK leaf : leaf = Leaf(text, i)
  OBVIOUS
<1>4. PICK token : token = text[i]
  OBVIOUS
<1>5. /\ top.kind \in FrameKinds /\ top.expect # "end"
      /\ top.expect \in {"first", "member", "colon", "comma", "any", "end"}
      /\ top.expect = "any" => top.kind = "error"
  BY <1>2, TopType
<1>6. token \notin White \union Marks =>
         /\ leaf.kind \in LeafKinds /\ leaf.kind # "pair"
         /\ IsValueNode(leaf) => token \in Strings \union Scalars \union {"missing"}
  BY <1>3, <1>4, LeafNode DEF LeafKinds
<1>7. ASSUME NEW e, token \notin White \union Marks, r = Put(frames, leaf, e),
             NextExpect(top, leaf, e), IsValueNode(leaf) => top.kind # "object"
      PROVE  Standing(text, r, i)
  <2>1. Fits(top.kind, leaf)
    BY <1>6, <1>7 DEF Fits
  <2> QED
    BY <2>1, <1>2, <1>3, <1>4, <1>7, LeafKeeps
<1> SUFFICES ASSUME r # <<>> PROVE Standing(text, r, i)
  BY <1>1
<1>8. CASE token \in White /\ r = frames
  BY <1>8, WhiteKeeps
<1>9. CASE token \in Extras /\ r = Put(frames, leaf, top.expect)
  <2>1. token \notin White \union Marks /\ ~IsValueNode(leaf)
    BY <1>6, <1>9, TokenKinds
  <2>2. leaf.start < leaf.end
    <3>1. token \notin NoBytes
      BY <1>9, TokenKinds
    <3> QED
      BY <3>1, <2>1, <1>3, <1>4, LeafNode
  <2>3. NextExpect(top, leaf, top.expect)
    BY <2>1, <2>2, <1>5 DEF NextExpect
  <2> QED
    BY <2>1, <2>3, <1>7, <1>9
<1>10. CASE /\ token \in Marks
            /\ \E e \in {"any", "member"} :
                  r = Append(frames, Unfinished("error", i, <<>>, e))
  <2>1. text[i] \in NoBytes
    BY <1>4, <1>10 DEF NoBytes
  <2>2. PICK e \in {"any", "member"} : r = Append(frames, Unfinished("error", i, <<>>, e))
    BY <1>10
  <2> QED
    BY <2>1, <2>2, ErrorBegins
<1>11. CASE /\ top.expect = "any" /\ Offset(text, top.first) < Offset(text, i)
            /\ r = PutError(text, i, frames)
  BY <1>2, <1>5, <1>11, ErrorKeeps
<1>12. CASE /\ top.expect = "any" /\ token \notin White \union Extras \union Marks
            /\ r = Put(frames, leaf, "any")
  <2>1. NextExpect(top, leaf, "any")
    BY <1>5, <1>12 DEF NextExpect
  <2> QED
    BY <2>1, <1>5, <1>7, <1>12
<1>13. CASE /\ top.kind \in {"object", "error"} /\ token \in Strings \union {"missing"}
            /\ r = Append(frames, Unfinished("pair", i, <<leaf>>, "colon"))
  <2>1. token \notin White \union Marks
    BY <1>13, TokenKinds
  <2>2. leaf.kind \in {"string", "number"}
    <3>1. leaf.kind = Kind(token)
      BY <2>1, <1>3, <1>4, LeafNode
    <3>2. token \in Strings => Kind(token) \in {"string", "number"}
      BY TokensDisjoint DEF Kind, Extras, Comments, Skipped, NoBytes
    <3>3. token = "missing" => Kind(token) = "number"
      BY TokensDisjoint DEF Kind, Extras, Comments, Skipped, NoBytes
    <3> QED
      BY <3>1, <3>2, <3>3, <1>13
  <2>3. Nested(top, Unfinished("pair", i, <<leaf>>, "colon"))
    BY <1>5, <1>13 DEF Nested, Unfinished, Brackets
  <2>4. "pair" \notin Brackets
    BY DEF Brackets
  <2> QED
    BY <2>1, <2>2, <2>3, <2>4, <1>2, <1>3, <1>4, <1>13, NodeBegins
<1>14. CASE /\ top.kind \notin {"object", "error"} /\ token \in Leaves
            /\ top.expect # "colon" /\ r = PutMember(frames, leaf)
  <2>1. token \notin White \union Marks
    BY <1>14, TokenKinds DEF Leaves
  <2>2. PICK e : e = AfterMember[top.kind]
    OBVIOUS
  <2>3. NextExpect(top, leaf, e)
    BY <2>2, <1>5, <1>14, AfterMembers DEF NextExpect
  <2>4. r = Put(frames, leaf, e)
    BY <2>2, <1>2, <1>14 DEF PutMember
  <2> QED
    BY <2>1, <2>3, <2>4, <1>7, <1>14
<1>15. CASE /\ top.kind \notin {"object", "error"} /\ token \in {"{", "["} /\ top.expect # "colon"
            /\ r = Append(frames, Unfinished(Container[token], i, <<leaf>>, "first"))
  <2>1. token \notin White \union Marks /\ ~IsValueNode(leaf) /\ token \notin NoBytes
    BY <1>6, <1>15, TokenKinds
  <2>2. PICK kind : kind = Container[token]
    OBVIOUS
  <2>3. kind \in {"object", "array"}
    BY <2>2, <1>15 DEF Container
  <2>4. Nested(top, Unfinished(kind, i, <<leaf>>, "first"))
    BY <2>3, <1>5, <1>15 DEF Nested, Unfinished, Brackets, FrameKinds
  <2> QED
    BY <2>1, <2>2, <2>3, <2>4, <1>2, <1>3, <1>4, <1>15, NodeBegins
<1>16. CASE token \in {":", ","} /\ r = Put(frames, leaf, "member")
  <2>1. token \notin White \union Marks /\ ~IsValueNode(leaf)
    BY <1>6, <1>16, TokenKinds
  <2>2. leaf.start < leaf.end
    <3>1. token \notin NoBytes
      BY <1>16, TokenKinds
    <3> QED
      BY <3>1, <2>1, <1>3, <1>4, LeafNode
  <2>3. NextExpect(top, leaf, "member")
    BY <2>1, <2>2 DEF NextExpect
  <2> QED
    BY <2>1, <2>3, <1>7, <1>16
<1>17. CASE /\ leaf.kind \in {"}", "]"} /\ top.kind = Container[leaf.kind]
            /\ r = Put(frames, leaf, "end")
  <2>1. leaf.kind = Kind(token)
    BY <1>3, <1>4 DEF Leaf, Node
  <2>2. token \notin White \union Marks /\ ~IsValueNode(leaf)
    BY <2>1, <1>17, TokenKinds DEF IsValueNode
  <2>3. NextExpect(top, leaf, "end")
    BY <2>2, <1>17 DEF NextExpect, Container
  <2> QED
    BY <2>2, <2>3, <1>7, <1>17
<1>18. Outcome(text, i, frames, top, leaf, token, r)
  BY <1>1, <1>2, <1>3, <1>4, ShiftCases
<1> QED
  BY ZenonT(90), <1>8, <1>9, <1>10, <1>11, <1>12, <1>13, <1>14, <1>15, <1>16, <1>17, <1>18
     DEF Outcome

\* So does a token with what it completes, and no complete node is left in the stack.
LEMMA ShiftKeeps ==
    ASSUME NEW text, IsText(text), NEW i \in 1..Len(text), NEW frames,
           Standing(text, frames, i - 1), Last(frames).expect # "end",
           Shift(text, i, frames) # <<>>
    PROVE  /\ Standing(text, Shift(text, i, frames), i)
           /\ Last(Shift(text, i, frames)).expect # "end"
<1>1. frames # <<>>
  BY TopType
<1>2. PICK r : r = ShiftLeaf(text, i, frames, Last(frames), Leaf(text, i))
  OBVIOUS
<1>3. PICK s : s = Settle(text, i, r)
  OBVIOUS
<1>4. r # <<>> /\ Shift(text, i, frames) = Settle(text, i, s)
  BY <1>1, <1>2, <1>3 DEF Shift, SettleTwice
<1>5. Standing(text, r, i)
  BY <1>2, <1>4, ShiftLeafKeeps
<1>6. Standing(text, s, i) /\ (Last(s).expect = "end" => Last(s).kind = "pair")
  <2>1. CASE Last(r).expect = "end"
    <3>1. /\ Standing(text, s, i) /\ Last(s).kind \in FrameKinds
          /\ Last(s).expect = AfterMember[Last(s).kind]
      BY <2>1, <1>3, <1>5, SettleKeeps
    <3> QED
      BY <3>1, AfterMembers
  <2>2. CASE Last(r).expect # "end"
    <3>1. s = r
      BY <2>2, <1>3 DEF Settle
    <3> QED
      BY <3>1, <2>2, <1>5
  <2> QED
    BY <2>1, <2>2
<1>7. CASE Last(s).expect = "end"
  <2>1. PICK t, p : t = Settle(text, i, s) /\ p = Last(Front(s))
    OBVIOUS
  <2>2. /\ Standing(text, t, i) /\ Last(t).expect = AfterMember[p.kind]
        /\ Nested(p, Last(s)) /\ p.kind \in FrameKinds
    BY <2>1, <1>6, <1>7, SettleKeeps
  <2>3. p.kind \in {"object", "error"}
    BY <2>2, <1>6, <1>7 DEF Nested
  <2>4. Last(t).expect # "end"
    BY <2>2, <2>3, AfterMembers
  <2> QED
    BY <2>1, <2>2, <2>4, <1>4
<1>8. CASE Last(s).expect # "end"
  <2>1. Settle(text, i, s) = s
    BY <1>8 DEF Settle
  <2> QED
    BY <2>1, <1>4, <1>6, <1>8
<1> QED
  BY <1>7, <1>8

-----------------------------------------------------------------------------
(* Whole texts.                                                            *)

\* The stack at the beginning.
StartFrames == <<Unfinished("document", 1, <<>>, "member")>>

\* The stacks after each of the first n tokens.
Stacks(text, n, f) ==
    f = [i \in 0..n |-> IF i = 0 THEN StartFrames ELSE Shift(text, i, f[i - 1])]

\* There are such stacks.
LEMMA StacksExist ==
    ASSUME NEW text, NEW n \in Nat
    PROVE  \E f : Stacks(text, n, f)
<1> DEFINE Bad == {m \in Nat : ~\E f : Stacks(text, m, f)}
<1> SUFFICES ASSUME Bad # {} PROVE FALSE
  OBVIOUS
<1>1. PICK m \in Bad : \A k \in Bad : m <= k
  <2>1. Bad \in SUBSET Nat
    OBVIOUS
  <2> HIDE DEF Bad
  <2> QED
    BY <2>1, LeastNatural
<1>2. m \in Nat /\ ~\E f : Stacks(text, m, f)
  BY <1>1
<1>3. m # 0
  <2> DEFINE f == [i \in 0..0 |-> StartFrames]
  <2>1. f = [i \in 0..0 |-> IF i = 0 THEN StartFrames ELSE Shift(text, i, f[i - 1])]
    OBVIOUS
  <2> HIDE DEF f
  <2>2. Stacks(text, 0, f)
    BY <2>1 DEF Stacks
  <2> QED
    BY <2>2, <1>2
<1>4. m - 1 \in Nat /\ ~(m <= m - 1)
  BY <1>2, <1>3
<1>5. PICK f : Stacks(text, m - 1, f)
  BY <1>1, <1>4
<1>6. \A i \in 0..(m - 1) : f[i] = IF i = 0 THEN StartFrames ELSE Shift(text, i, f[i - 1])
  BY <1>5 DEF Stacks
<1> DEFINE g == [i \in 0..m |-> IF i = m THEN Shift(text, m, f[m - 1]) ELSE f[i]]
<1>7. \A i \in 0..m : g[i] = IF i = 0 THEN StartFrames ELSE Shift(text, i, g[i - 1])
  <2> TAKE i \in 0..m
  <2>1. i - 1 # m
    BY <1>2
  <2>2. CASE i = 0
    BY <2>2, <1>2, <1>3, <1>4, <1>6
  <2>3. CASE i = m
    <3>1. m - 1 \in 0..m /\ m \in 0..m
      BY <1>4
    <3>2. g[m] = Shift(text, m, f[m - 1]) /\ g[m - 1] = f[m - 1]
      BY <3>1, <2>1, <2>3
    <3> QED
      BY <3>2, <2>3, <1>3
  <2>4. CASE i # 0 /\ i # m
    <3>1. i \in 0..(m - 1) /\ i - 1 \in 0..m
      BY <2>4, <1>2
    <3>2. g[i] = f[i] /\ g[i - 1] = f[i - 1]
      BY <3>1, <2>1, <2>4
    <3> QED
      BY <3>1, <3>2, <2>4, <1>6
  <2> QED
    BY <2>2, <2>3, <2>4
<1>8. g = [i \in 0..m |-> g[i]]
  OBVIOUS
<1> HIDE DEF g
<1>9. Stacks(text, m, g)
  <2>1. [i \in 0..m |-> g[i]]
          = [i \in 0..m |-> IF i = 0 THEN StartFrames ELSE Shift(text, i, g[i - 1])]
    BY <1>7
  <2> QED
    BY <2>1, <1>8 DEF Stacks
<1> QED
  BY <1>2, <1>9

\* They stand, as long as there is no error.
LEMMA StacksStand ==
    ASSUME NEW text, IsText(text), NEW f, Stacks(text, Len(text), f)
    PROVE  \A i \in 0..Len(text) : f[i] # <<>> =>
              Standing(text, f[i], i) /\ Last(f[i]).expect # "end"
<1> DEFINE Holds(i) == f[i] # <<>> => Standing(text, f[i], i) /\ Last(f[i]).expect # "end"
<1>1. Len(text) \in Nat
  BY TextTokens
<1>2. \A i \in 0..Len(text) : f[i] = IF i = 0 THEN StartFrames ELSE Shift(text, i, f[i - 1])
  BY DEF Stacks
<1>3. Holds(0)
  <2>1. f[0] = StartFrames
    BY <1>1, <1>2
  <2>2. PICK g : g = Unfinished("document", 1, <<>>, "member")
    OBVIOUS
  <2>3. StartFrames = <<g>> /\ Last(StartFrames) = g
    BY <2>2 DEF StartFrames, Last
  <2>4. /\ g.kind = "document" /\ g.first = 1 /\ g.children = <<>> /\ g.expect = "member"
        /\ g \in Frames({})
    <3>1. <<>> \in Seq({})
      OBVIOUS
    <3> QED
      BY <3>1, <2>2 DEF Unfinished, Frames, FrameKinds
  <2>5. Growing({}, text, g, 0)
    BY <2>4 DEF Growing, Begin, Brackets
  <2>6. <<g>> \in Seq(Frames({})) /\ Len(<<g>>) = 1 /\ <<g>>[1] = g /\ <<g>> # <<>>
    BY <2>4
  <2>7. FramesStand({}, text, <<g>>, 0)
    BY <2>4, <2>5, <2>6 DEF FramesStand
  <2>8. Complete({})
    BY DEF Complete
  <2>9. Standing(text, <<g>>, 0)
    BY <2>7, <2>8 DEF Standing
  <2> QED
    BY <2>1, <2>3, <2>4, <2>9
<1>4. ASSUME NEW i \in 0..Len(text), i # 0, Holds(i - 1) PROVE Holds(i)
  <2>1. f[i] = Shift(text, i, f[i - 1])
    BY <1>2, <1>4
  <2>2. i \in 1..Len(text)
    BY <1>4
  <2> SUFFICES ASSUME f[i] # <<>>
               PROVE  Standing(text, f[i], i) /\ Last(f[i]).expect # "end"
    OBVIOUS
  <2>3. f[i - 1] # <<>>
    BY <2>1 DEF Shift
  <2>4. PICK frames : frames = f[i - 1]
    OBVIOUS
  <2>5. Standing(text, frames, i - 1) /\ Last(frames).expect # "end"
    BY <2>3, <2>4, <1>4
  <2>6. Shift(text, i, frames) # <<>>
    BY <2>1, <2>4
  <2>7. /\ Standing(text, Shift(text, i, frames), i)
        /\ Last(Shift(text, i, frames)).expect # "end"
    BY <2>2, <2>5, <2>6, ShiftKeeps
  <2> QED
    BY <2>1, <2>4, <2>7
<1> HIDE DEF Holds
<1>5. \A i \in 0..Len(text) : Holds(i)
  <2> DEFINE Bad == {i \in 0..Len(text) : ~Holds(i)}
  <2> SUFFICES ASSUME Bad # {} PROVE FALSE
    OBVIOUS
  <2>1. PICK i \in Bad : \A k \in Bad : i <= k
    <3>1. Bad \in SUBSET Nat
      BY <1>1
    <3> HIDE DEF Bad
    <3> QED
      BY <3>1, LeastNatural
  <2>2. i \in 0..Len(text) /\ ~Holds(i)
    BY <2>1
  <2>3. i # 0
    BY <2>2, <1>3
  <2>4. i - 1 \in 0..Len(text) /\ ~(i <= i - 1)
    BY <2>2, <2>3, <1>1
  <2>5. Holds(i - 1)
    BY <2>1, <2>4
  <2> QED
    BY <2>2, <2>3, <2>5, <1>4
<1> QED
  BY <1>5 DEF Holds

\* The root of the tree of a text, and what it is made of.
IsRoot(S, root) ==
    /\ Complete(S) /\ Sound(S, root) /\ root.kind = "document"
    /\ Len(root.tokens) \in Nat /\ Rank(root) <= Len(root.tokens) + 1

LEMMA ParsedRoot ==
    ASSUME NEW text, IsText(text), Parse(text) # <<>>
    PROVE  /\ \E S : IsRoot(S, Parse(text)[1])
           /\ Parse(text) = <<Parse(text)[1]>>
<1> DEFINE n == Len(text)
<1>1. n \in Nat
  BY TextTokens
<1>2. PICK f : f = CHOOSE g : Stacks(text, n, g)
  OBVIOUS
<1>3. Stacks(text, n, f)
  BY <1>1, <1>2, StacksExist
<1>4. Parse(text) = Document(text, f[n])
  BY <1>2 DEF Parse, Stacks, StartFrames
<1>5. PICK s : s = f[n]
  OBVIOUS
<1>6. Len(s) = 1 /\ Parse(text) = <<Node(text, "document", 1, n, s[1].children)>>
  BY <1>4, <1>5 DEF Document
<1>7. s # <<>> /\ n \in 0..Len(text)
  BY <1>1, <1>6
<1>8. Standing(text, s, n)
  BY <1>3, <1>5, <1>7, StacksStand
<1>9. PICK S : Complete(S) /\ FramesStand(S, text, s, n)
  BY <1>8 DEF Standing
<1>10. PICK top : top = s[1]
  OBVIOUS
<1>11. Growing(S, text, top, n) /\ top.kind = "document"
  BY <1>6, <1>9, <1>10 DEF FramesStand
<1>12. top.first = 1 /\ Begin(top) = 0
  BY <1>11 DEF Growing, Begin
<1>13. PICK root : root = Node(text, top.kind, 1, n, top.children)
  OBVIOUS
<1>14. /\ Sound(S, root) /\ root.kind = "document"
       /\ Rank(root) <= n - Begin(top) + 1 /\ Len(root.tokens) = n - 1 + 1
  <2>1. Starts(text, top, 1)
    BY <1>11, <1>12 DEF Starts
  <2>2. 1 \in Nat /\ 1 <= n + 1 /\ n <= Len(text) /\ Len(text) \in Nat
    BY <1>1
  <2>3. top.kind # "pair"
    BY <1>11
  <2>4. n \in Nat /\ Growing(S, text, top, n) /\ IsText(text) /\ top.kind = "document"
    BY <1>1, <1>11
  <2> HIDE DEF n
  <2>5. LET node == Node(text, top.kind, 1, n, top.children)
        IN  Sound(S, node) /\ node.kind = top.kind
            /\ Rank(node) <= n - Begin(top) + 1 /\ Len(node.tokens) = n - 1 + 1
    BY <2>1, <2>2, <2>3, <2>4, Finished
  <2> QED
    BY <2>4, <2>5, <1>13
<1>15. IsRoot(S, root)
  <2> HIDE DEF n
  <2> QED
    BY <1>1, <1>9, <1>12, <1>14 DEF IsRoot
<1>16. Parse(text) = <<root>>
  BY <1>6, <1>10, <1>11, <1>13
<1> QED
  BY <1>15, <1>16

\* The levels of a tree, in a set of nodes that has their children.
LEMMA NodeLevels ==
    ASSUME NEW U, NEW root \in U, Len(root.tokens) \in Nat,
           \A node \in U : ToSet(node.children) \subseteq U
    PROVE  \E l \in [0..(Len(root.tokens) + 1) -> SUBSET U] :
              /\ \A k \in 0..(Len(root.tokens) + 1) :
                    l[k] = IF k = 0 THEN {root}
                           ELSE UNION {ToSet(node.children) : node \in l[k - 1]}
              /\ Nodes(root) = UNION {l[k] : k \in 0..(Len(root.tokens) + 1)}
<1> DEFINE m == Len(root.tokens) + 1
<1> DEFINE T == SUBSET U
<1> DEFINE more(L) == UNION {ToSet(node.children) : node \in L}
<1> DEFINE z == {root}
<1> DEFINE step == [p \in (1..m) \X T |-> more(p[2])]
<1>1. m \in Nat /\ z \in T
  OBVIOUS
<1>2. ASSUME NEW L \in T PROVE more(L) \in T
  BY DEF ToSet
<1> HIDE DEF T, more, z, m
<1>3. step \in Steps(m, T)
  <2> USE DEF Steps
  <2> SUFFICES ASSUME NEW p \in (1..m) \X T PROVE more(p[2]) \in T
    OBVIOUS
  <2> QED
    BY <1>2
<1>4. \A k \in 1..m : \A L \in T : step[<<k, L>>] = more(L)
  OBVIOUS
<1> HIDE DEF step
<1>5. PICK h : h \in [0..m -> T] /\ After(m, z, step, h)
  BY <1>1, <1>3, StepsExist
<1>6. \A k \in 0..m : h[k] = IF k = 0 THEN z ELSE more(h[k - 1])
  <2> TAKE k \in 0..m
  <2>1. k # 0 => k \in 1..m /\ k - 1 \in 0..m
    BY <1>1
  <2> QED
    BY <2>1, <1>4, <1>5 DEF After
<1> DEFINE Follows(f) == f = [k \in 0..m |-> IF k = 0 THEN z ELSE more(f[k - 1])]
<1> DEFINE level == CHOOSE f : Follows(f)
<1>7. Follows(h)
  <2>1. h = [k \in 0..m |-> h[k]]
    BY <1>5
  <2> QED
    BY <2>1, <1>6
<1>8. Follows(level)
  BY <1>7
<1>9. Nodes(root) = UNION {level[k] : k \in DOMAIN level}
  BY DEF Nodes, m, z, more
<1>10. PICK l : l = level
  OBVIOUS
<1>11. l = [k \in 0..m |-> IF k = 0 THEN z ELSE more(l[k - 1])]
  BY <1>8, <1>10
<1>12. Nodes(root) = UNION {l[k] : k \in DOMAIN l}
  BY <1>9, <1>10
<1> HIDE DEF level, Follows
<1>13. DOMAIN l = 0..m
  BY <1>11
<1>14. ASSUME NEW k \in 0..m PROVE l[k] = IF k = 0 THEN z ELSE more(l[k - 1])
  BY <1>11
<1>15. \A k \in 0..m : l[k] \in T
  <2> DEFINE Bad == {k \in 0..m : l[k] \notin T}
  <2> SUFFICES ASSUME Bad # {} PROVE FALSE
    OBVIOUS
  <2>1. PICK k \in Bad : \A j \in Bad : k <= j
    <3>1. Bad \in SUBSET Nat
      BY <1>1
    <3> HIDE DEF Bad
    <3> QED
      BY <3>1, LeastNatural
  <2>2. k \in 0..m /\ l[k] \notin T /\ k # 0
    BY <2>1, <1>1, <1>14
  <2>3. k - 1 \in 0..m /\ ~(k <= k - 1)
    BY <2>2, <1>1
  <2>4. l[k - 1] \in T
    BY <2>1, <2>3
  <2> QED
    BY <2>2, <2>4, <1>2, <1>14
<1>16. l \in [0..m -> T]
  BY <1>11, <1>13, <1>15
<1> QED
  BY <1>12, <1>13, <1>14, <1>16 DEF m, T, z, more

\* The nodes of such a tree are among those, and so are their children.
LEMMA NodesBelow ==
    ASSUME NEW S, NEW root, IsRoot(S, root)
    PROVE  /\ Nodes(root) \subseteq S \union {root}
           /\ root \in Nodes(root)
           /\ \A node \in Nodes(root) : \A i \in 1..Len(node.children) :
                 node.children[i] \in Nodes(root)
<1> DEFINE U == S \union {root}
<1> DEFINE m == Len(root.tokens) + 1
<1> DEFINE more(L) == UNION {ToSet(node.children) : node \in L}
<1>1. m \in Nat /\ root \in U /\ Len(root.tokens) \in Nat
  BY DEF IsRoot
<1>2. ASSUME NEW node \in U
      PROVE  /\ Sound(S, node) /\ node.children \in Seq(S) /\ Len(node.children) \in Nat
             /\ Rank(node) \in Nat
             /\ \A i \in 1..Len(node.children) : node.children[i] \in S
             /\ \A c : c \in ToSet(node.children) <=>
                  \E i \in 1..Len(node.children) : c = node.children[i]
  <2>1. Sound(S, node)
    BY DEF IsRoot, Complete
  <2>2. PICK c : c = node.children
    OBVIOUS
  <2>3. c \in Seq(S)
    BY <2>1, <2>2 DEF Sound
  <2>4. Len(c) \in Nat /\ DOMAIN c = 1..Len(c) /\ \A i \in 1..Len(c) : c[i] \in S
    BY <2>3
  <2> QED
    BY <2>1, <2>2, <2>3, <2>4, RankType DEF ToSet
<1>3. \A node \in U : ToSet(node.children) \subseteq U
  <2> SUFFICES ASSUME NEW node \in U, NEW c \in ToSet(node.children) PROVE c \in U
    OBVIOUS
  <2>1. \E i \in 1..Len(node.children) : c = node.children[i]
    BY <1>2
  <2> QED
    BY <2>1, <1>2
<1> HIDE DEF U
<1>4. PICK l \in [0..m -> SUBSET U] :
         /\ \A k \in 0..m : l[k] = IF k = 0 THEN {root} ELSE more(l[k - 1])
         /\ Nodes(root) = UNION {l[k] : k \in 0..m}
  BY <1>1, <1>3, NodeLevels
<1> HIDE DEF m, more
<1>5. \A k \in 0..m : \A node \in l[k] : Rank(node) <= m - k
  <2> DEFINE Holds(k) == \A node \in l[k] : Rank(node) <= m - k
  <2> DEFINE Bad == {k \in 0..m : ~Holds(k)}
  <2> SUFFICES ASSUME Bad # {} PROVE FALSE
    OBVIOUS
  <2>1. PICK k \in Bad : \A j \in Bad : k <= j
    <3>1. Bad \in SUBSET Nat
      BY <1>1
    <3> HIDE DEF Bad
    <3> QED
      BY <3>1, LeastNatural
  <2>2. k \in 0..m /\ ~Holds(k)
    BY <2>1
  <2>3. CASE k = 0
    <3>1. l[0] = {root}
      BY <1>1, <1>4
    <3>2. Rank(root) <= m - 0
      BY <1>1 DEF IsRoot, m
    <3> QED
      BY <3>1, <3>2, <2>2, <2>3
  <2>4. CASE k # 0
    <3>1. k - 1 \in 0..m /\ ~(k <= k - 1) /\ k \in Nat
      BY <2>2, <2>4, <1>1
    <3>2. Holds(k - 1)
      BY <2>1, <3>1
    <3>3. l[k] = more(l[k - 1])
      BY <2>2, <2>4, <1>4
    <3>4. ASSUME NEW c \in l[k] PROVE Rank(c) <= m - k
      <4>1. PICK node \in l[k - 1] : c \in ToSet(node.children)
        BY <3>3 DEF more
      <4>2. node \in U /\ Rank(node) <= m - (k - 1)
        BY <3>1, <3>2, <1>4
      <4>3. PICK i \in 1..Len(node.children) : c = node.children[i]
        BY <4>1, <4>2, <1>2
      <4>4. Rank(c) < Rank(node)
        BY <4>2, <4>3, <1>2 DEF Sound
      <4>5. Rank(c) \in Nat /\ Rank(node) \in Nat
        BY <4>2, <2>2, <1>2, <1>4
      <4> QED
        BY <4>2, <4>4, <4>5, <3>1, <1>1
    <3> QED
      BY <3>4, <2>2
  <2> QED
    BY <2>3, <2>4
<1>6. Nodes(root) \subseteq U
  BY <1>4
<1>7. root \in Nodes(root)
  <2>1. root \in l[0] /\ 0 \in 0..m
    BY <1>1, <1>4
  <2> QED
    BY <2>1, <1>4
<1>8. ASSUME NEW node \in Nodes(root), NEW i \in 1..Len(node.children)
      PROVE  node.children[i] \in Nodes(root)
  <2>1. PICK k \in 0..m : node \in l[k]
    BY <1>4
  <2>2. node \in U /\ Rank(node) <= m - k
    BY <2>1, <1>4, <1>5
  <2>3. node.children[i] \in U /\ node.children[i] \in ToSet(node.children)
    BY <2>2, <1>2 DEF U
  <2>4. /\ Rank(node.children[i]) < Rank(node)
        /\ Rank(node.children[i]) \in Nat /\ Rank(node) \in Nat
    BY <2>2, <2>3, <1>2 DEF Sound
  <2>5. k + 1 \in 0..m /\ k + 1 # 0 /\ (k + 1) - 1 = k
    BY <2>2, <2>4, <1>1
  <2>6. l[k + 1] = more(l[k])
    BY <2>5, <1>4
  <2>7. node.children[i] \in l[k + 1]
    BY <2>1, <2>3, <2>6 DEF more
  <2> QED
    BY <2>5, <2>7, <1>4
<1> QED
  BY <1>6, <1>7, <1>8 DEF U

\* The tree of a text is as tree-sitter and its grammar promise, and as the proofs about
\* symbols and paths take trees to be: children follow each other within their node, and
\* only the nodes that may have children of some kind do.
THEOREM TreeOfText ==
    ASSUME NEW text, IsText(text), Parse(text) # <<>>
    PROVE  LET root == Parse(text)[1]
           IN  WellFormed(root) /\ Grammatical(root) /\ Len(root.tokens) \in Nat
<1>1. PICK root : root = Parse(text)[1]
  OBVIOUS
<1>2. PICK S : IsRoot(S, root)
  BY <1>1, ParsedRoot
<1>3. /\ root \in Nodes(root)
      /\ \A node \in Nodes(root) : \A i \in 1..Len(node.children) :
            node.children[i] \in Nodes(root)
  BY <1>2, NodesBelow
<1>4. ASSUME NEW node \in Nodes(root)
      PROVE  /\ Sound(S, node) /\ Len(node.children) \in Nat
             /\ DOMAIN node.children = 1..Len(node.children)
             /\ \A i \in 1..Len(node.children) : node.children[i].kind # "document"
             /\ node.children \in Seq(Nodes(root))
  <2>1. node \in S \union {root}
    BY <1>2, NodesBelow
  <2>2. Sound(S, node)
    BY <2>1, <1>2 DEF IsRoot, Complete
  <2>3. PICK c : c = node.children
    OBVIOUS
  <2>4. c \in Seq(S)
    BY <2>2, <2>3 DEF Sound
  <2>5. Len(c) \in Nat /\ DOMAIN c = 1..Len(c) /\ \A i \in 1..Len(c) : c[i] \in S
    BY <2>4
  <2>6. c = [i \in 1..Len(c) |-> c[i]]
    BY <2>4
  <2>7. c \in [1..Len(c) -> Nodes(root)]
    BY <2>3, <2>6, <1>3
  <2>8. c \in Seq(Nodes(root))
    BY <2>5, <2>7, SeqDef
  <2>9. \A i \in 1..Len(c) : c[i].kind # "document"
    BY <2>5, <1>2 DEF IsRoot, Complete
  <2> QED
    BY <2>2, <2>3, <2>5, <2>8, <2>9
<1>5. WellFormed(root)
  <2>1. ASSUME NEW node \in Nodes(root)
        PROVE  /\ node.start \in Nat /\ node.end \in Nat /\ node.start <= node.end
               /\ node.kind \in {"object", "array"} => node.start < node.end
               /\ node.kind = "pair" => node.children # <<>>
    BY <1>4 DEF Sound, Brackets
  <2>2. ASSUME NEW node \in Nodes(root), NEW i \in DOMAIN node.children
        PROVE  /\ node.start <= node.children[i].start
               /\ node.children[i].end <= node.end
               /\ \A j \in 1..(i - 1) : node.children[j].end <= node.children[i].start
               /\ node.kind \in {"object", "array"}
                     /\ node.children[i].kind \in {"object", "array", "pair"} =>
                        node.start < node.children[i].start
    <3>1. Sound(S, node) /\ i \in 1..Len(node.children)
      BY <1>4
    <3> QED
      BY <3>1 DEF Sound, Brackets
  <2> QED
    BY <2>1, <2>2, <1>3, <1>4 DEF WellFormed
<1>6. Grammatical(root)
  <2>1. ASSUME NEW node \in Nodes(root)
        PROVE  /\ node.children # <<>> =>
                     node.kind \in {"document", "object", "array", "pair", "error"}
               /\ node.kind = "string" => node.start < node.end
               /\ node.kind = "pair" =>
                     /\ Len(node.children) > 1 /\ node.children[1].kind \in {"string", "number"}
                     /\ \A i \in 1..(Len(node.children) - 1) :
                           node.children[i].start < Last(node.children).start
    BY <1>4 DEF Sound, FrameKinds
  <2>2. ASSUME NEW node \in Nodes(root), NEW i \in DOMAIN node.children
        PROVE  LET child == node.children[i]
               IN  /\ child.kind # "document"
                   /\ child.kind = "pair" => node.kind \in {"object", "error"}
                   /\ IsValueNode(child) =>
                         /\ node.kind # "object"
                         /\ node.kind = "pair" => i \in {1, Len(node.children)}
    <3>1. Sound(S, node) /\ i \in 1..Len(node.children)
      BY <1>4
    <3>2. node.children[i].kind # "document"
      BY <3>1, <1>4
    <3> QED
      BY <3>1, <3>2 DEF Sound, Fits
  <2> QED
    BY <2>1, <2>2, <1>2 DEF Grammatical, IsRoot
<1> QED
  BY <1>1, <1>2, <1>5, <1>6 DEF IsRoot
=============================================================================
