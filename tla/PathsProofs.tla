----------------------------- MODULE PathsProofs -----------------------------
(***************************************************************************)
(* The path of keys and indexes to a value leads to that value, and        *)
(* go-to-definition finds the references that the links show.              *)
(***************************************************************************)
EXTENDS LeadingPaths, TreeProofs

-----------------------------------------------------------------------------
(* Addresses.                                                              *)

\* Functions agree at 0, and after each of n steps if they did before it.
Alike(f, g, n) == f[0] = g[0] /\ \A k \in 1..n : f[k - 1] = g[k - 1] => f[k] = g[k]

\* They are the same.
LEMMA SameSteps ==
    ASSUME NEW n \in Nat, NEW f, NEW g, Alike(f, g, n)
    PROVE  \A k \in 0..n : f[k] = g[k]
<1> DEFINE Bad == {k \in 0..n : f[k] # g[k]}
<1> SUFFICES ASSUME Bad # {} PROVE FALSE
  OBVIOUS
<1>1. Bad \in SUBSET Nat
  OBVIOUS
<1>2. PICK k \in Bad : \A j \in Bad : k <= j
  <2> HIDE DEF Bad
  <2> QED
    BY <1>1, LeastNatural
<1>3. k \in 0..n /\ f[k] # g[k]
  BY <1>2
<1>4. k # 0
  BY <1>3 DEF Alike
<1>5. k \in 1..n /\ k - 1 \in 0..n /\ ~(k <= k - 1)
  BY <1>3, <1>4
<1>6. f[k - 1] = g[k - 1]
  BY <1>2, <1>5
<1> QED
  BY <1>3, <1>5, <1>6 DEF Alike

\* One element more of a path.
LEMMA OneMore ==
    ASSUME NEW S, NEW t \in Seq(S), NEW k \in 1..Len(t)
    PROVE  /\ Append(SubSeq(t, 1, k - 1), t[k]) = SubSeq(t, 1, k)
           /\ k # 1 => SubSeq(t, 1, k - 2) \o <<t[k - 1], t[k]>> = SubSeq(t, 1, k)
<1>1. Len(t) \in Nat /\ k \in Nat /\ k <= Len(t)
  BY LenProperties
<1>2. Append(SubSeq(t, 1, k - 1), t[k]) = SubSeq(t, 1, k)
  BY <1>1
<1>3. ASSUME k # 1 PROVE SubSeq(t, 1, k - 2) \o <<t[k - 1], t[k]>> = SubSeq(t, 1, k)
  BY <1>1, <1>3
<1> QED
  BY <1>2, <1>3

\* The nodes along a path from the root.
IsWalk(tree, path, h) ==
    /\ path \in Seq(Nat)
    /\ h \in [0..Len(path) -> Nodes(tree)]
    /\ h[0] = tree
    /\ \A k \in 1..Len(path) :
          path[k] \in 1..Len(h[k - 1].children) /\ h[k] = h[k - 1].children[path[k]]

\* The node at an address is the last one.
LEMMA NodeAtWalk ==
    ASSUME NEW tree, NEW path, NEW h, IsWalk(tree, path, h)
    PROVE  NodeAt(tree, path) = h[Len(path)]
<1> DEFINE n == Len(path)
<1> DEFINE Follows(f) ==
       f = [k \in 0..n |-> IF k = 0 THEN tree ELSE f[k - 1].children[path[k]]]
<1>1. n \in Nat
  BY LenProperties DEF IsWalk
<1>2. Follows(h)
  <2>1. \A k \in 0..n : k # 0 => k \in 1..n
    BY <1>1
  <2> QED
    BY <2>1 DEF IsWalk
<1> DEFINE node == CHOOSE f : Follows(f)
<1>3. Follows(node)
  BY <1>2
<1>4. NodeAt(tree, path) = node[n]
  BY DEF NodeAt
<1> HIDE DEF node
<1>5. node[0] = h[0]
  <2>1. 0 \in 0..n
    BY <1>1
  <2> QED
    BY <1>2, <1>3, <2>1
<1>6. ASSUME NEW k \in 1..n, node[k - 1] = h[k - 1] PROVE node[k] = h[k]
  <2>1. k \in 0..n /\ k # 0
    BY <1>1
  <2>2. node[k] = node[k - 1].children[path[k]]
    BY <1>3, <2>1
  <2>3. h[k] = h[k - 1].children[path[k]]
    BY DEF IsWalk
  <2> QED
    BY <2>2, <2>3, <1>6
<1> HIDE DEF Follows, n
<1>7. \A k \in 0..n : node[k] = h[k]
  BY <1>1, <1>5, <1>6, SameSteps DEF Alike
<1> QED
  BY <1>1, <1>4, <1>7 DEF n

\* The beginning of a walk is a walk.
LEMMA WalkBegins ==
    ASSUME NEW tree, NEW path, NEW h, IsWalk(tree, path, h), NEW k \in 0..Len(path)
    PROVE  NodeAt(tree, SubSeq(path, 1, k)) = h[k]
<1> DEFINE q == SubSeq(path, 1, k)
<1> DEFINE g == [i \in 0..k |-> h[i]]
<1>1. Len(path) \in Nat /\ path \in Seq(Nat) /\ k \in Nat /\ k <= Len(path)
  BY LenProperties DEF IsWalk
<1>2. q \in Seq(Nat) /\ Len(q) = k /\ \A i \in 1..k : q[i] = path[i]
  BY <1>1
<1>3. g \in [0..k -> Nodes(tree)] /\ g[0] = tree
  BY <1>1 DEF IsWalk
<1>4. ASSUME NEW i \in 1..k
      PROVE  q[i] \in 1..Len(g[i - 1].children) /\ g[i] = g[i - 1].children[q[i]]
  <2>1. i \in 1..Len(path) /\ i \in 0..k /\ i - 1 \in 0..k
    BY <1>1
  <2> QED
    BY <2>1, <1>2 DEF IsWalk
<1>5. IsWalk(tree, q, g)
  BY <1>2, <1>3, <1>4 DEF IsWalk
<1>6. g[k] = h[k]
  BY <1>1
<1> HIDE DEF q, g
<1> QED
  BY <1>2, <1>5, <1>6, NodeAtWalk DEF q

\* A step from the last node of a walk.
LEMMA WalkGoesOn ==
    ASSUME NEW tree, WellFormed(tree), NEW path, NEW h, IsWalk(tree, path, h),
           NEW i \in 1..Len(h[Len(path)].children)
    PROVE  \E g : IsWalk(tree, Append(path, i), g)
<1> DEFINE n == Len(path)
<1> DEFINE q == Append(path, i)
<1> DEFINE g == [k \in 0..(n + 1) |-> IF k <= n THEN h[k] ELSE h[n].children[i]]
<1>1. n \in Nat /\ path \in Seq(Nat) /\ h \in [0..n -> Nodes(tree)]
  BY LenProperties DEF IsWalk
<1>2. h[n] \in Nodes(tree) /\ h[n].children[i] \in Nodes(tree) /\ i \in Nat
  BY <1>1, ChildIsNode
<1>3. q \in Seq(Nat) /\ Len(q) = n + 1 /\ q[n + 1] = i /\ \A k \in 1..n : q[k] = path[k]
  BY <1>1, <1>2
<1>4. g \in [0..(n + 1) -> Nodes(tree)] /\ g[0] = tree
  BY <1>1, <1>2 DEF IsWalk
<1>5. ASSUME NEW k \in 1..(n + 1)
      PROVE  q[k] \in 1..Len(g[k - 1].children) /\ g[k] = g[k - 1].children[q[k]]
  <2>1. k - 1 \in 0..(n + 1) /\ k - 1 <= n /\ g[k - 1] = h[k - 1]
    BY <1>1
  <2>2. CASE k <= n
    <3>1. k \in 1..n /\ g[k] = h[k]
      BY <1>1, <2>2
    <3> QED
      BY <3>1, <2>1, <1>3 DEF IsWalk
  <2>3. CASE k = n + 1
    <3>1. g[k] = h[n].children[i] /\ g[k - 1] = h[n]
      BY <1>1, <2>1, <2>3
    <3> QED
      BY <3>1, <1>3, <2>3
  <2> QED
    BY SMTT(30), <1>1, <2>2, <2>3
<1> HIDE DEF q, g
<1>6. IsWalk(tree, q, g)
  BY <1>3, <1>4, <1>5 DEF IsWalk
<1> QED
  BY <1>6 DEF q

\* The paths from the root to its nodes.
Addresses(tree) == {path \in Seq(Nat) : \E h : IsWalk(tree, path, h)}

\* An address leads to a node.
LEMMA AddressOfNode ==
    ASSUME NEW tree, WellFormed(tree), NEW path \in Addresses(tree)
    PROVE  /\ path \in Seq(Nat) /\ Len(path) \in Nat
           /\ NodeAt(tree, path) \in Nodes(tree)
           /\ NodeAt(tree, path).children \in Seq(Nodes(tree))
           /\ Len(NodeAt(tree, path).children) \in Nat
           /\ DOMAIN NodeAt(tree, path).children = 1..Len(NodeAt(tree, path).children)
<1>1. PICK h : IsWalk(tree, path, h)
  BY DEF Addresses
<1>2. path \in Seq(Nat) /\ Len(path) \in Nat /\ h[Len(path)] \in Nodes(tree)
  BY <1>1, LenProperties DEF IsWalk
<1>3. PICK node : node = NodeAt(tree, path)
  OBVIOUS
<1>4. node \in Nodes(tree)
  BY <1>1, <1>2, <1>3, NodeAtWalk
<1>5. node.children \in Seq(Nodes(tree)) /\ Len(node.children) \in Nat
  BY <1>4, ChildIsNode
<1>6. DOMAIN node.children = 1..Len(node.children)
  BY <1>5, LenProperties
<1> QED
  BY <1>2, <1>3, <1>4, <1>5, <1>6

\* From there a step leads to a child.
LEMMA AddressGoesOn ==
    ASSUME NEW tree, WellFormed(tree), NEW path \in Addresses(tree),
           NEW i \in DOMAIN NodeAt(tree, path).children
    PROVE  /\ Append(path, i) \in Addresses(tree)
           /\ NodeAt(tree, Append(path, i)) = NodeAt(tree, path).children[i]
<1>1. PICK h : IsWalk(tree, path, h)
  BY DEF Addresses
<1>2. Len(path) \in Nat /\ h[Len(path)] \in Nodes(tree) /\ path \in Seq(Nat)
  BY <1>1, LenProperties DEF IsWalk
<1>3. i \in DOMAIN h[Len(path)].children
  BY <1>1, NodeAtWalk
<1>4. i \in 1..Len(h[Len(path)].children) /\ i \in Nat
  BY <1>2, <1>3, ChildIsNode
<1>5. PICK q : q = Append(path, i)
  OBVIOUS
<1>6. PICK g : IsWalk(tree, q, g)
  BY <1>1, <1>4, <1>5, WalkGoesOn
<1>7. /\ q \in Seq(Nat) /\ Len(q) = Len(path) + 1 /\ q[Len(q)] = i
      /\ SubSeq(q, 1, Len(path)) = path
  BY <1>2, <1>4, <1>5
<1>8. q \in Addresses(tree)
  BY <1>6, <1>7 DEF Addresses
<1>9. NodeAt(tree, q) = g[Len(q)] /\ g[Len(q)] = g[Len(q) - 1].children[q[Len(q)]]
  <2>1. Len(q) \in 1..Len(q)
    BY <1>2, <1>7
  <2> QED
    BY <2>1, <1>6, NodeAtWalk DEF IsWalk
<1>10. NodeAt(tree, path) = g[Len(q) - 1]
  <2>1. PICK k : k = Len(path)
    OBVIOUS
  <2>2. k \in 0..Len(q) /\ k = Len(q) - 1 /\ SubSeq(q, 1, k) = path
    BY <2>1, <1>2, <1>7
  <2>3. NodeAt(tree, SubSeq(q, 1, k)) = g[k]
    BY <2>2, <1>6, WalkBegins
  <2> QED
    BY <2>2, <2>3
<1> QED
  BY <1>5, <1>7, <1>8, <1>9, <1>10

\* The addresses that are a step more than some addresses.
StepsMore(tree, L) ==
    UNION {{Append(path, i) : i \in DOMAIN NodeAt(tree, path).children} : path \in L}

\* Paths collects addresses, level by level.
LEMMA PathLevels ==
    ASSUME NEW tree, WellFormed(tree), Len(tree.tokens) \in Nat
    PROVE  \E l : /\ l[0] = {<<>>}
                  /\ \A k \in 1..(Len(tree.tokens) + 1) : l[k] = StepsMore(tree, l[k - 1])
                  /\ \A k \in 0..(Len(tree.tokens) + 1) : l[k] \subseteq Addresses(tree)
                  /\ Paths(tree) = UNION {l[k] : k \in 0..(Len(tree.tokens) + 1)}
<1> DEFINE m == Len(tree.tokens) + 1
<1> DEFINE T == SUBSET Addresses(tree)
<1> DEFINE more(L) ==
       UNION {{Append(path, i) : i \in DOMAIN NodeAt(tree, path).children} : path \in L}
<1> DEFINE step == [p \in (1..m) \X T |-> more(p[2])]
<1>2. \A L \in T : more(L) \in T
  <2> TAKE L \in T
  <2>1. ASSUME NEW x \in more(L) PROVE x \in Addresses(tree)
    <3>1. PICK path \in L : x \in {Append(path, i) : i \in DOMAIN NodeAt(tree, path).children}
      OBVIOUS
    <3>2. PICK i \in DOMAIN NodeAt(tree, path).children : x = Append(path, i)
      BY <3>1
    <3>3. path \in Addresses(tree)
      OBVIOUS
    <3> QED
      BY <3>2, <3>3, AddressGoesOn
  <2> HIDE DEF more
  <2> QED
    BY <2>1
<1>3. {<<>>} \in T
  <2> DEFINE h == [k \in 0..0 |-> tree]
  <2>1. <<>> \in Seq(Nat) /\ Len(<<>>) = 0 /\ h[0] = tree
    OBVIOUS
  <2>2. h \in [0..0 -> Nodes(tree)]
    BY DEF WellFormed
  <2> HIDE DEF h
  <2>3. IsWalk(tree, <<>>, h)
    BY <2>1, <2>2 DEF IsWalk
  <2> QED
    BY <2>1, <2>3 DEF Addresses
<1> DEFINE z == {<<>>}
<1>0. m \in Nat
  OBVIOUS
<1> HIDE DEF T, more, z, m
<1>4. step \in Steps(m, T)
  <2> USE DEF Steps
  <2> SUFFICES ASSUME NEW p \in (1..m) \X T PROVE more(p[2]) \in T
    OBVIOUS
  <2> QED
    BY <1>2
<1>5. \A k \in 1..m : \A L \in T : step[<<k, L>>] = more(L)
  OBVIOUS
<1> HIDE DEF step
<1>6. PICK h : h \in [0..m -> T] /\ After(m, z, step, h)
  <2>1. z \in T
    BY <1>3 DEF z
  <2> QED
    BY <2>1, <1>0, <1>4, StepsExist
<1>7. \A k \in 0..m : h[k] = IF k = 0 THEN z ELSE more(h[k - 1])
  <2> TAKE k \in 0..m
  <2>1. k # 0 => k \in 1..m /\ k - 1 \in 0..m
    BY <1>0
  <2> QED
    BY <2>1, <1>5, <1>6 DEF After
<1> DEFINE Follows(f) == f = [k \in 0..m |-> IF k = 0 THEN z ELSE more(f[k - 1])]
<1> DEFINE level == CHOOSE f : Follows(f)
<1>8. Follows(h)
  <2>1. h = [k \in 0..m |-> h[k]]
    BY <1>6
  <2> QED
    BY <2>1, <1>7
<1>9. Follows(level)
  BY <1>8
<1>10. Paths(tree) = UNION {level[k] : k \in DOMAIN level}
  BY DEF Paths, more, z, m
<1> HIDE DEF level
<1>11. level[0] = h[0]
  <2>1. 0 \in 0..m
    BY <1>0
  <2> QED
    BY <2>1, <1>7, <1>9
<1>12. ASSUME NEW k \in 1..m, level[k - 1] = h[k - 1] PROVE level[k] = h[k]
  <2>1. k \in 0..m /\ k # 0
    BY <1>0
  <2> QED
    BY <2>1, <1>7, <1>9, <1>12
<1>13. \A k \in 0..m : level[k] = h[k]
  <2>1. Alike(level, h, m)
    BY <1>11, <1>12 DEF Alike
  <2> QED
    BY <2>1, <1>0, SameSteps
<1>14. DOMAIN level = 0..m
  BY <1>9
<1>15. \A k \in 0..m : level[k] \in T
  BY <1>6, <1>13
<1>16. level[0] = {<<>>} /\ \A k \in 1..m : level[k] = StepsMore(tree, level[k - 1])
  <2>1. level[0] = z
    <3>1. 0 \in 0..m
      BY <1>0
    <3> QED
      BY <3>1, <1>9
  <2>2. ASSUME NEW k \in 1..m PROVE level[k] = more(level[k - 1])
    <3>1. k \in 0..m /\ k # 0
      BY <1>0
    <3> QED
      BY <3>1, <1>9
  <2> QED
    BY <2>1, <2>2 DEF z, more, StepsMore
<1>17. Paths(tree) = UNION {level[k] : k \in 0..m}
  BY <1>10, <1>14
<1> HIDE DEF Follows
<1> QED
  BY <1>15, <1>16, <1>17 DEF T, m

\* What Paths collects are addresses.
LEMMA PathsAreAddresses ==
    ASSUME NEW tree, WellFormed(tree), Len(tree.tokens) \in Nat
    PROVE  Paths(tree) \subseteq Addresses(tree)
<1>1. PICK l : /\ \A k \in 0..(Len(tree.tokens) + 1) : l[k] \subseteq Addresses(tree)
               /\ Paths(tree) = UNION {l[k] : k \in 0..(Len(tree.tokens) + 1)}
  BY PathLevels
<1> QED
  BY <1>1

\* No node is deeper than the tree has tokens, and one.
LEMMA WalkIsShort ==
    ASSUME NEW S, NEW tree, IsRoot(S, tree), NEW path, NEW h, IsWalk(tree, path, h)
    PROVE  Len(path) <= Len(tree.tokens) + 1
<1> DEFINE n == Len(path)
<1> DEFINE m == Len(tree.tokens) + 1
<1>0. n \in Nat /\ m \in Nat
  BY LenProperties DEF IsWalk, IsRoot
<1>1. ASSUME NEW node \in Nodes(tree) PROVE Sound(S, node) /\ Rank(node) \in Nat
  <2>1. node \in S \union {tree}
    BY NodesBelow
  <2>2. Sound(S, node)
    BY <2>1 DEF IsRoot, Complete
  <2> QED
    BY <2>2, RankType
<1>2. \A k \in 0..n : h[k] \in Nodes(tree)
  BY DEF IsWalk
<1>3. \A k \in 0..n : Rank(h[k]) + k <= m
  <2> DEFINE Bad == {k \in 0..n : ~(Rank(h[k]) + k <= m)}
  <2> SUFFICES ASSUME Bad # {} PROVE FALSE
    OBVIOUS
  <2>1. PICK k \in Bad : \A j \in Bad : k <= j
    <3>1. Bad \in SUBSET Nat
      BY <1>0
    <3> HIDE DEF Bad
    <3> QED
      BY <3>1, LeastNatural
  <2>2. k \in 0..n /\ ~(Rank(h[k]) + k <= m)
    BY <2>1
  <2>3. CASE k = 0
    <3>1. h[0] = tree /\ Rank(tree) <= m /\ Rank(tree) \in Nat
      BY <1>1, NodesBelow DEF IsWalk, IsRoot
    <3> QED
      BY <3>1, <2>2, <2>3
  <2>4. CASE k # 0
    <3>1. k - 1 \in 0..n /\ k \in 1..n /\ ~(k <= k - 1) /\ k \in Nat
      BY <2>2, <2>4, <1>0
    <3>2. Rank(h[k - 1]) + (k - 1) <= m
      BY <2>1, <3>1
    <3>3. path[k] \in 1..Len(h[k - 1].children) /\ h[k] = h[k - 1].children[path[k]]
      BY <3>1 DEF IsWalk
    <3>4. Rank(h[k]) < Rank(h[k - 1])
      BY <3>1, <3>3, <1>1, <1>2 DEF Sound
    <3>5. Rank(h[k]) \in Nat /\ Rank(h[k - 1]) \in Nat
      BY <3>1, <2>2, <1>1, <1>2
    <3> HIDE DEF n, m
    <3> QED
      BY <1>0, <2>2, <3>1, <3>2, <3>4, <3>5
  <2> QED
    BY <2>3, <2>4
<1>4. n \in 0..n /\ Rank(h[n]) \in Nat
  BY <1>0, <1>1, <1>2
<1> QED
  BY <1>0, <1>3, <1>4

\* So Paths collects all addresses.
LEMMA AddressesArePaths ==
    ASSUME NEW S, NEW tree, IsRoot(S, tree), WellFormed(tree)
    PROVE  Addresses(tree) \subseteq Paths(tree)
<1> SUFFICES ASSUME NEW path \in Addresses(tree) PROVE path \in Paths(tree)
  OBVIOUS
<1> DEFINE n == Len(path)
<1> DEFINE m == Len(tree.tokens) + 1
<1>1. PICK h : IsWalk(tree, path, h)
  BY DEF Addresses
<1>2. path \in Seq(Nat) /\ n \in Nat /\ Len(tree.tokens) \in Nat /\ n <= m
  BY <1>1, WalkIsShort, LenProperties DEF IsWalk, IsRoot
<1>3. PICK l : /\ l[0] = {<<>>}
               /\ \A k \in 1..m : l[k] = StepsMore(tree, l[k - 1])
               /\ Paths(tree) = UNION {l[k] : k \in 0..m}
  <2>1. \E l : /\ l[0] = {<<>>}
               /\ \A k \in 1..m : l[k] = StepsMore(tree, l[k - 1])
               /\ \A k \in 0..m : l[k] \subseteq Addresses(tree)
               /\ Paths(tree) = UNION {l[k] : k \in 0..m}
    BY <1>2, PathLevels
  <2> QED
    BY <2>1
<1>4. \A k \in 0..n : SubSeq(path, 1, k) \in l[k]
  <2> DEFINE Bad == {k \in 0..n : SubSeq(path, 1, k) \notin l[k]}
  <2> SUFFICES ASSUME Bad # {} PROVE FALSE
    OBVIOUS
  <2>1. PICK k \in Bad : \A j \in Bad : k <= j
    <3>1. Bad \in SUBSET Nat
      BY <1>2
    <3> HIDE DEF Bad
    <3> QED
      BY <3>1, LeastNatural
  <2>2. k \in 0..n /\ SubSeq(path, 1, k) \notin l[k]
    BY <2>1
  <2>3. CASE k = 0
    <3>1. SubSeq(path, 1, 0) = <<>>
      BY <1>2
    <3> QED
      BY <3>1, <2>2, <2>3, <1>3
  <2>4. CASE k # 0
    <3>1. k - 1 \in 0..n /\ k \in 1..n /\ k \in 1..m /\ ~(k <= k - 1)
      BY <2>2, <2>4, <1>2
    <3>2. SubSeq(path, 1, k - 1) \in l[k - 1]
      BY <2>1, <3>1
    <3>3. NodeAt(tree, SubSeq(path, 1, k - 1)) = h[k - 1]
      BY <3>1, <1>1, WalkBegins
    <3>4. path[k] \in 1..Len(h[k - 1].children) /\ h[k - 1] \in Nodes(tree)
      BY <3>1, <1>1 DEF IsWalk
    <3>5. path[k] \in DOMAIN h[k - 1].children
      BY <3>4, ChildIsNode, LenProperties
    <3>6. Append(SubSeq(path, 1, k - 1), path[k]) \in l[k]
      <4>1. PICK p, i : p = SubSeq(path, 1, k - 1) /\ i = path[k]
        OBVIOUS
      <4>2. p \in l[k - 1] /\ i \in DOMAIN NodeAt(tree, p).children
        BY <4>1, <3>2, <3>3, <3>5
      <4>3. Append(p, i) \in StepsMore(tree, l[k - 1])
        BY <4>2 DEF StepsMore
      <4> QED
        BY <4>1, <4>3, <3>1, <1>3
    <3>7. Append(SubSeq(path, 1, k - 1), path[k]) = SubSeq(path, 1, k)
      BY <3>1, <1>2
    <3> QED
      BY <3>6, <3>7, <2>2
  <2> QED
    BY <2>3, <2>4
<1>5. SubSeq(path, 1, n) = path /\ n \in 0..n /\ n \in 0..m
  BY <1>2
<1> QED
  BY <1>3, <1>4, <1>5

-----------------------------------------------------------------------------
(* The node at a cursor.                                                   *)

\* The least of some numbers.
LEMMA LeastOfSome ==
    ASSUME NEW s \in SUBSET Nat
    PROVE  /\ s # {} => Min(s) \in s
           /\ \A i \in s : (\A j \in s : i <= j) => Min(s) = i
<1>1. ASSUME s # {} PROVE Min(s) \in s /\ \A j \in s : Min(s) <= j
  <2>1. \E x \in s : \A y \in s : x <= y
    BY <1>1, LeastNatural
  <2> QED
    BY <2>1 DEF Min
<1>2. ASSUME NEW i \in s, \A j \in s : i <= j PROVE Min(s) = i
  <2>1. Min(s) \in s /\ Min(s) <= i /\ i <= Min(s)
    BY <1>1, <1>2
  <2>2. Min(s) \in Nat /\ i \in Nat
    BY <2>1
  <2> QED
    BY <2>1, <2>2
<1> QED
  BY <1>1, <1>2

\* A byte is in a node, or at an empty one or before it.
Around(node, byte) == node.start <= byte /\ (node.start < node.end => byte < node.end)

\* The search goes on to a child around the byte.
LEMMA ChildAround ==
    ASSUME NEW S, \A c \in S : c.start \in Nat /\ c.end \in Nat,
           NEW node, node.children \in Seq(S), NEW byte \in Nat, ChildAt(node, byte) # 0
    PROVE  /\ ChildAt(node, byte) \in DOMAIN node.children
           /\ Around(node.children[ChildAt(node, byte)], byte)
<1> DEFINE reach == {i \in DOMAIN node.children :
                       LET child == node.children[i]
                       IN  IF child.start = child.end THEN child.end >= byte ELSE child.end > byte}
<1>1. DOMAIN node.children \in SUBSET Nat
  BY LenProperties
<1>2. reach \in SUBSET Nat
  BY <1>1
<1>3. reach # {} /\ node.children[Min(reach)].start <= byte /\ ChildAt(node, byte) = Min(reach)
  BY DEF ChildAt
<1>4. PICK i : i = Min(reach)
  OBVIOUS
<1>5. i \in reach
  <2> HIDE DEF reach
  <2> QED
    BY <1>2, <1>3, <1>4, LeastOfSome
<1>6. i \in DOMAIN node.children /\ node.children[i].start <= byte
  BY <1>3, <1>4, <1>5
<1>7. node.children[i].start < node.children[i].end => byte < node.children[i].end
  <2>1. PICK c : c = node.children[i]
    OBVIOUS
  <2>2. c \in S
    BY <2>1, <1>6, ElementOfSeq, LenProperties
  <2>3. IF c.start = c.end THEN c.end >= byte ELSE c.end > byte
    BY <2>1, <1>5
  <2> HIDE DEF reach
  <2> QED
    BY <2>1, <2>2, <2>3
<1> HIDE DEF reach
<1> QED
  BY <1>3, <1>4, <1>6, <1>7 DEF Around

\* The addresses that the search may come to.
Reached(tree, byte) ==
    {path \in Addresses(tree) : path # <<>> => Around(NodeAt(tree, path), byte)}

\* It stays among them.
LEMMA DescendStays ==
    ASSUME NEW tree, WellFormed(tree), NEW byte \in Nat, NEW path \in Reached(tree, byte)
    PROVE  Descend(tree, path, byte) \in Reached(tree, byte)
<1>1. PICK node, i : node = NodeAt(tree, path) /\ i = ChildAt(node, byte)
  OBVIOUS
<1>2. path \in Addresses(tree) /\ node.children \in Seq(Nodes(tree))
  BY <1>1, AddressOfNode DEF Reached
<1>3. Descend(tree, path, byte) =
        IF i = 0 \/ node.children[i].kind \in Anonymous THEN path ELSE Append(path, i)
  BY <1>1 DEF Descend
<1>4. CASE i = 0 \/ node.children[i].kind \in Anonymous
  BY <1>3, <1>4
<1>5. CASE ~(i = 0 \/ node.children[i].kind \in Anonymous)
  <2>0. \A c \in Nodes(tree) : c.start \in Nat /\ c.end \in Nat
    BY DEF WellFormed
  <2>1. i \in DOMAIN node.children /\ Around(node.children[i], byte)
    BY <2>0, <1>1, <1>2, <1>5, ChildAround
  <2>2. /\ Append(path, i) \in Addresses(tree)
        /\ NodeAt(tree, Append(path, i)) = node.children[i]
    BY <2>1, <1>1, <1>2, AddressGoesOn
  <2> QED
    BY <2>1, <2>2, <1>3, <1>5 DEF Reached
<1> QED
  BY <1>4, <1>5

\* The nodes that the search comes to, step by step.
Search(tree, byte, d) ==
    /\ d \in [0..(Len(tree.tokens) + 1) -> Reached(tree, byte)]
    /\ d[0] = <<>>
    /\ \A k \in 1..(Len(tree.tokens) + 1) : d[k] = Descend(tree, d[k - 1], byte)

\* The last one is the result.
LEMMA SearchFinds ==
    ASSUME NEW tree, WellFormed(tree), Len(tree.tokens) \in Nat, NEW byte \in Nat
    PROVE  \E d : Search(tree, byte, d) /\ DescendantAt(tree, byte) = d[Len(tree.tokens) + 1]
<1> DEFINE m == Len(tree.tokens) + 1
<1> DEFINE T == Reached(tree, byte)
<1> DEFINE step == [p \in (1..m) \X T |-> Descend(tree, p[2], byte)]
<1> DEFINE z == <<>>
<1>0. m \in Nat
  OBVIOUS
<1>1. z \in T
  <2> DEFINE h == [k \in 0..0 |-> tree]
  <2>1. <<>> \in Seq(Nat) /\ Len(<<>>) = 0 /\ h[0] = tree
    OBVIOUS
  <2>2. h \in [0..0 -> Nodes(tree)]
    BY DEF WellFormed
  <2> HIDE DEF h
  <2>3. IsWalk(tree, <<>>, h)
    BY <2>1, <2>2 DEF IsWalk
  <2> QED
    BY <2>1, <2>3 DEF Addresses, Reached
<1>2. \A p \in T : Descend(tree, p, byte) \in T
  BY DescendStays
<1> HIDE DEF T, z, m
<1>3. step \in Steps(m, T)
  <2> USE DEF Steps
  <2> SUFFICES ASSUME NEW p \in (1..m) \X T PROVE Descend(tree, p[2], byte) \in T
    OBVIOUS
  <2> QED
    BY <1>2
<1>4. \A k \in 1..m : \A t \in T : step[<<k, t>>] = Descend(tree, t, byte)
  OBVIOUS
<1> HIDE DEF step
<1>5. PICK d : d \in [0..m -> T] /\ After(m, z, step, d)
  BY <1>0, <1>1, <1>3, StepsExist
<1>6. \A k \in 0..m : d[k] = IF k = 0 THEN z ELSE Descend(tree, d[k - 1], byte)
  <2> TAKE k \in 0..m
  <2>1. k # 0 => k \in 1..m /\ k - 1 \in 0..m
    BY <1>0
  <2> QED
    BY <2>1, <1>4, <1>5 DEF After
<1> DEFINE Follows(f) ==
       f = [k \in 0..m |-> IF k = 0 THEN z ELSE Descend(tree, f[k - 1], byte)]
<1> DEFINE path == CHOOSE f : Follows(f)
<1>7. Follows(d)
  <2>1. d = [k \in 0..m |-> d[k]]
    BY <1>5
  <2> QED
    BY <2>1, <1>6
<1>8. Follows(path)
  BY <1>7
<1>9. DescendantAt(tree, byte) = path[m]
  BY DEF DescendantAt, m, z
<1> HIDE DEF path
<1>10. path[0] = d[0]
  <2>1. 0 \in 0..m
    BY <1>0
  <2> QED
    BY <2>1, <1>6, <1>8
<1>11. ASSUME NEW k \in 1..m, path[k - 1] = d[k - 1] PROVE path[k] = d[k]
  <2>1. k \in 0..m /\ k # 0
    BY <1>0
  <2> QED
    BY <2>1, <1>6, <1>8, <1>11
<1>12. path[m] = d[m]
  <2>1. Alike(path, d, m)
    BY <1>10, <1>11 DEF Alike
  <2>2. m \in 0..m
    BY <1>0
  <2> QED
    BY <2>1, <2>2, <1>0, SameSteps
<1>13. Search(tree, byte, d)
  <2>1. d[0] = <<>>
    <3>1. 0 \in 0..m
      BY <1>0
    <3> QED
      BY <3>1, <1>6 DEF z
  <2>2. ASSUME NEW k \in 1..m PROVE d[k] = Descend(tree, d[k - 1], byte)
    <3>1. k \in 0..m /\ k # 0
      BY <1>0
    <3> QED
      BY <3>1, <1>6
  <2> QED
    BY <2>1, <2>2, <1>5 DEF Search, T, m
<1> QED
  BY <1>9, <1>12, <1>13 DEF m

\* The string that is the value of a pair, at the end of a walk.
ToText(tree, path, h) ==
    /\ IsWalk(tree, path, h)
    /\ Len(path) \in Nat /\ Len(path) >= 1
    /\ h[Len(path) - 1].kind = "pair" /\ path[Len(path)] = Len(h[Len(path) - 1].children)
    /\ h[Len(path)].kind = "string"

\* A step of such a walk, from a node with children that follow each other.
LEMMA StepToText ==
    ASSUME NEW tree, WellFormed(tree), Grammatical(tree), NEW path, NEW h,
           ToText(tree, path, h), NEW k \in 1..Len(path)
    PROVE  /\ k \in Nat /\ k - 1 \in 0..Len(path) /\ k \in 0..Len(path)
           /\ h[k - 1] \in Nodes(tree) /\ h[k] \in Nodes(tree)
           /\ path[k] \in 1..Len(h[k - 1].children) /\ path[k] \in Nat
           /\ DOMAIN h[k - 1].children = 1..Len(h[k - 1].children)
           /\ \A i \in 1..Len(h[k - 1].children) : h[k - 1].children[i] \in Nodes(tree)
           /\ h[k] = h[k - 1].children[path[k]]
           /\ h[k - 1].kind \in {"document", "object", "array", "pair", "error"}
           /\ \A j \in 0..Len(path) :
                 h[j].start \in Nat /\ h[j].end \in Nat /\ h[j].start <= h[j].end
           /\ h[k - 1].start <= h[k].start /\ h[k].end <= h[k - 1].end
           /\ \A i \in 1..(path[k] - 1) : h[k - 1].children[i].end <= h[k].start
<1>1. k \in Nat /\ k - 1 \in 0..Len(path) /\ k \in 0..Len(path)
  BY DEF ToText
<1>2. \A j \in 0..Len(path) : h[j] \in Nodes(tree)
  BY DEF ToText, IsWalk
<1>3. path[k] \in 1..Len(h[k - 1].children) /\ h[k] = h[k - 1].children[path[k]]
  BY DEF ToText, IsWalk
<1>4. PICK node, i : node = h[k - 1] /\ i = path[k]
  OBVIOUS
<1>5. node \in Nodes(tree) /\ node.children \in Seq(Nodes(tree)) /\ Len(node.children) \in Nat
  BY <1>1, <1>2, <1>4, ChildIsNode
<1>6. /\ i \in DOMAIN node.children /\ DOMAIN node.children = 1..Len(node.children) /\ i \in Nat
      /\ node.children # <<>> /\ \A j \in 1..Len(node.children) : node.children[j] \in Nodes(tree)
  BY <1>3, <1>4, <1>5, ElementOfSeq
<1>7. node.kind \in {"document", "object", "array", "pair", "error"}
  BY <1>5, <1>6 DEF Grammatical
<1>8. /\ node.start <= node.children[i].start /\ node.children[i].end <= node.end
      /\ \A j \in 1..(i - 1) : node.children[j].end <= node.children[i].start
  BY <1>5, <1>6 DEF WellFormed
<1>9. \A n \in Nodes(tree) : n.start \in Nat /\ n.end \in Nat /\ n.start <= n.end
  BY DEF WellFormed
<1> QED
  BY <1>1, <1>2, <1>3, <1>4, <1>6, <1>7, <1>8, <1>9

\* The nodes on the way begin before the string and do not end before it.
LEMMA WayToText ==
    ASSUME NEW tree, WellFormed(tree), Grammatical(tree), NEW path, NEW h,
           ToText(tree, path, h), NEW k \in 0..(Len(path) - 1)
    PROVE  h[k].start < h[Len(path)].start /\ h[Len(path)].end <= h[k].end
<1> DEFINE n == Len(path)
<1> DEFINE Holds(j) == h[n - j].start < h[n].start /\ h[n].end <= h[n - j].end
<1> DEFINE Bad == {j \in 1..n : ~Holds(j)}
<1>0. n \in Nat /\ n >= 1 /\ n \in 1..n
  BY DEF ToText
<1>1. Bad = {}
  <2> SUFFICES ASSUME Bad # {} PROVE FALSE
    OBVIOUS
  <2>1. PICK j \in Bad : \A i \in Bad : j <= i
    <3>1. Bad \in SUBSET Nat
      BY <1>0
    <3> HIDE DEF Bad
    <3> QED
      BY <3>1, LeastNatural
  <2>2. j \in 1..n /\ ~Holds(j)
    BY <2>1
  <2>3. CASE j = 1
    <3>1. PICK pair, last : pair = h[n - 1] /\ last = Len(pair.children)
      OBVIOUS
    <3>2. /\ pair \in Nodes(tree) /\ pair.kind = "pair" /\ last = path[n]
          /\ last \in 1..last /\ h[n] = pair.children[last] /\ h[n].end <= pair.end
      BY SMTT(30), <3>1, <1>0, StepToText DEF ToText
    <3>3. last > 1 /\ \A i \in 1..(last - 1) : pair.children[i].start < Last(pair.children).start
      <4>1. /\ Len(pair.children) > 1
            /\ \A i \in 1..(Len(pair.children) - 1) :
                  pair.children[i].start < Last(pair.children).start
        BY <3>2 DEF Grammatical
      <4> QED
        BY <4>1, <3>1
    <3>4. Last(pair.children) = h[n]
      BY <3>1, <3>2 DEF Last
    <3>5. 1 \in 1..(last - 1) /\ 1 \in 1..last /\ last \in Nat
      BY <3>2, <3>3
    <3>6. pair.children[1].start < h[n].start
      BY <3>3, <3>4, <3>5
    <3>7. pair.start <= pair.children[1].start /\ pair.start \in Nat
          /\ pair.children[1].start \in Nat /\ h[n].start \in Nat
      <4>1. pair.children[1] \in Nodes(tree) /\ h[n] \in Nodes(tree)
            /\ DOMAIN pair.children = 1..last
        BY <3>1, <3>2, <3>5, <1>0, StepToText
      <4> QED
        BY <4>1, <3>2, <3>5 DEF WellFormed
    <3>8. pair.start < h[n].start
      BY <3>6, <3>7
    <3> QED
      BY <3>1, <3>2, <3>8, <2>2, <2>3
  <2>4. CASE j # 1
    <3>1. PICK k1 : k1 = n - j + 1
      OBVIOUS
    <3>2. k1 \in 1..n /\ k1 - 1 = n - j /\ k1 = n - (j - 1) /\ j - 1 \in 1..n /\ ~(j <= j - 1)
      BY <3>1, <2>2, <2>4, <1>0
    <3>3. Holds(j - 1)
      BY <2>1, <3>2
    <3>4. /\ h[k1 - 1].start <= h[k1].start /\ h[k1].end <= h[k1 - 1].end
          /\ h[k1 - 1].start \in Nat /\ h[k1 - 1].end \in Nat
          /\ h[k1].start \in Nat /\ h[k1].end \in Nat /\ h[n].start \in Nat /\ h[n].end \in Nat
      <4>1. k1 \in 1..Len(path) /\ n \in 0..Len(path)
        BY <3>2, <1>0
      <4> QED
        BY SMTT(30), <4>1, StepToText
    <3>5. h[k1].start < h[n].start /\ h[n].end <= h[k1].end
      BY <3>2, <3>3
    <3>6. h[k1 - 1].start < h[n].start /\ h[n].end <= h[k1 - 1].end
      BY SMTT(30), <3>4, <3>5
    <3> QED
      BY <3>2, <3>6, <2>2
  <2> QED
    BY <2>3, <2>4
<1>2. n - k \in 1..n /\ n - (n - k) = k
  BY <1>0
<1>3. Holds(n - k)
  BY <1>1, <1>2
<1> QED
  BY <1>2, <1>3

\* From each of them the search goes on to the next one.
LEMMA StepTowardsText ==
    ASSUME NEW tree, WellFormed(tree), Grammatical(tree), NEW path, NEW h,
           ToText(tree, path, h), NEW k \in 1..Len(path), NEW byte \in Nat,
           h[Len(path)].start <= byte, byte < h[Len(path)].end
    PROVE  Descend(tree, SubSeq(path, 1, k - 1), byte) = SubSeq(path, 1, k)
<1> DEFINE n == Len(path)
<1>1. PICK node, i, child : node = h[k - 1] /\ i = path[k] /\ child = h[k]
  OBVIOUS
<1>2. /\ k \in Nat /\ k - 1 \in 0..n /\ k \in 0..n
      /\ node \in Nodes(tree) /\ child \in Nodes(tree)
      /\ i \in 1..Len(node.children) /\ i \in Nat
      /\ DOMAIN node.children = 1..Len(node.children) /\ Len(node.children) \in Nat
      /\ \A j \in 1..Len(node.children) : node.children[j] \in Nodes(tree)
      /\ child = node.children[i]
      /\ \A j \in 1..(i - 1) : node.children[j].end <= child.start
  BY SMTT(30), <1>1, StepToText, ChildIsNode
<1>3. \A c \in Nodes(tree) : c.start \in Nat /\ c.end \in Nat /\ c.start <= c.end
  BY DEF WellFormed
<1>4. n \in Nat /\ n >= 1 /\ n \in 1..n /\ h[n] \in Nodes(tree)
  BY StepToText DEF ToText
<1>5. child.start <= byte /\ byte < child.end
  <2>1. CASE k = n
    BY <2>1, <1>1
  <2>2. CASE k # n
    <3>1. k \in 0..(n - 1)
      BY <2>2, <1>2, <1>4
    <3>2. child.start < h[n].start /\ h[n].end <= child.end
      BY <3>1, <1>1, WayToText
    <3> QED
      BY SMTT(30), <3>2, <1>2, <1>3, <1>4
  <2> QED
    BY <2>1, <2>2
<1>6. ASSUME NEW j \in 1..(i - 1) PROVE node.children[j].start < byte
  <2>1. j \in 1..Len(node.children) /\ node.children[j] \in Nodes(tree)
    BY <1>2
  <2>2. CASE k = n
    <3>1. node.kind = "pair" /\ i = Len(node.children)
      BY <2>2, <1>1 DEF ToText
    <3>2. j \in 1..(Len(node.children) - 1) /\ Last(node.children) = child
      BY <3>1, <1>2 DEF Last
    <3>3. node.children[j].start < child.start
      BY <3>1, <3>2, <1>2 DEF Grammatical
    <3> QED
      BY <2>1, <3>3, <1>2, <1>3, <1>5
  <2>3. CASE k # n
    <3>1. k \in 0..(n - 1)
      BY <2>3, <1>2, <1>4
    <3>2. child.start < h[n].start
      BY <3>1, <1>1, WayToText
    <3>3. node.children[j].start <= node.children[j].end /\ node.children[j].end <= child.start
      BY <2>1, <1>2, <1>3
    <3>4. PICK u, v, w, x : /\ u = node.children[j].start /\ v = node.children[j].end
                            /\ w = child.start /\ x = h[n].start
      OBVIOUS
    <3>5. u \in Nat /\ v \in Nat /\ w \in Nat /\ x \in Nat
      BY <2>1, <3>4, <1>2, <1>3, <1>4
    <3>6. u <= v /\ v <= w /\ w < x /\ x <= byte
      BY <3>2, <3>3, <3>4
    <3>7. u < byte
      BY <3>5, <3>6
    <3> QED
      BY <3>4, <3>7
  <2> QED
    BY <2>2, <2>3
<1>7. ChildAt(node, byte) = i
  <2> DEFINE Reaches(c) == IF c.start = c.end THEN c.end >= byte ELSE c.end > byte
  <2> DEFINE reach == {j \in DOMAIN node.children : Reaches(node.children[j])}
  <2>1. reach \in SUBSET Nat
    BY <1>2
  <2>2. Reaches(child)
    BY <1>2, <1>3, <1>5
  <2>3. i \in reach
    BY <2>2, <1>2
  <2>4. ASSUME NEW j \in reach PROVE i <= j
    <3>1. j \in 1..Len(node.children) /\ j \in Nat /\ Reaches(node.children[j])
      BY <1>2
    <3>2. ASSUME j < i PROVE FALSE
      <4>1. PICK c : c = node.children[j]
        OBVIOUS
      <4>2. j \in 1..(i - 1)
        BY <3>1, <3>2, <1>2
      <4>3. c.start < byte /\ c.end <= child.start /\ c \in Nodes(tree) /\ Reaches(c)
        BY <3>1, <4>1, <4>2, <1>2, <1>6
      <4> HIDE DEF reach
      <4> QED
        BY <4>3, <1>2, <1>3, <1>5
    <3> QED
      BY <3>1, <3>2, <1>2
  <2>5. Min(reach) = i
    <3> HIDE DEF reach
    <3> QED
      BY <2>1, <2>3, <2>4, LeastOfSome
  <2>6. ChildAt(node, byte) =
          IF reach # {} /\ node.children[Min(reach)].start <= byte THEN Min(reach) ELSE 0
    BY DEF ChildAt
  <2> HIDE DEF reach
  <2> QED
    BY <2>3, <2>5, <2>6, <1>2, <1>5
<1>8. child.kind \notin Anonymous
  <2>1. CASE k = n
    BY <2>1, <1>1 DEF ToText, Anonymous
  <2>2. CASE k # n
    <3>1. k + 1 \in 1..n /\ (k + 1) - 1 = k
      BY <2>2, <1>2, <1>4
    <3>2. child.kind \in {"document", "object", "array", "pair", "error"}
      BY <3>1, <1>1, StepToText
    <3> QED
      BY <3>2 DEF Anonymous
  <2> QED
    BY <2>1, <2>2
<1>9. NodeAt(tree, SubSeq(path, 1, k - 1)) = node
  BY <1>1, <1>2, WalkBegins DEF ToText
<1>10. Append(SubSeq(path, 1, k - 1), i) = SubSeq(path, 1, k)
  <2>1. path \in Seq(Nat)
    BY DEF ToText, IsWalk
  <2> QED
    BY <2>1, <1>1, OneMore
<1>11. i # 0 /\ node.children[i].kind \notin Anonymous
  BY <1>2, <1>8
<1> QED
  BY <1>7, <1>9, <1>10, <1>11 DEF Descend

\* There it ends.
LEMMA StaysAtText ==
    ASSUME NEW tree, WellFormed(tree), Grammatical(tree), NEW path, NEW byte,
           NodeAt(tree, path) \in Nodes(tree), NodeAt(tree, path).kind = "string"
    PROVE  Descend(tree, path, byte) = path
<1>1. PICK node : node = NodeAt(tree, path)
  OBVIOUS
<1>2. node.children = <<>>
  BY <1>1 DEF Grammatical
<1>3. DOMAIN node.children = {}
  BY <1>2
<1>4. ChildAt(node, byte) = 0
  BY <1>3 DEF ChildAt
<1> QED
  BY <1>1, <1>4 DEF Descend

\* From every byte of a string that is the value of a pair, the search comes to it.
LEMMA TextFound ==
    ASSUME NEW S, NEW tree, IsRoot(S, tree), WellFormed(tree), Grammatical(tree),
           NEW path, NEW h, ToText(tree, path, h), NEW byte \in Nat,
           h[Len(path)].start <= byte, byte < h[Len(path)].end
    PROVE  DescendantAt(tree, byte) = path
<1> DEFINE n == Len(path)
<1> DEFINE m == Len(tree.tokens) + 1
<1>1. n \in Nat /\ n >= 1 /\ m \in Nat /\ n <= m /\ path \in Seq(Nat)
  <2>1. IsWalk(tree, path, h) /\ n \in Nat /\ n >= 1
    BY DEF ToText
  <2>2. path \in Seq(Nat)
    BY <2>1 DEF IsWalk
  <2>3. n <= m
    BY <2>1, WalkIsShort
  <2>4. Len(tree.tokens) \in Nat
    BY DEF IsRoot
  <2> QED
    BY <2>1, <2>2, <2>3, <2>4
<1>2. PICK d : Search(tree, byte, d) /\ DescendantAt(tree, byte) = d[m]
  BY SearchFinds DEF IsRoot
<1>3. NodeAt(tree, path) = h[n] /\ h[n] \in Nodes(tree)
  <2>1. IsWalk(tree, path, h) /\ n \in 0..n
    BY <1>1 DEF ToText
  <2>2. NodeAt(tree, path) = h[n]
    BY <2>1, NodeAtWalk
  <2> QED
    BY <2>1, <2>2 DEF IsWalk
<1> DEFINE Holds(k) == d[k] = SubSeq(path, 1, IF k <= n THEN k ELSE n)
<1> DEFINE Bad == {k \in 0..m : ~Holds(k)}
<1>4. Bad = {}
  <2> SUFFICES ASSUME Bad # {} PROVE FALSE
    OBVIOUS
  <2>1. PICK k \in Bad : \A j \in Bad : k <= j
    <3>1. Bad \in SUBSET Nat
      BY <1>1
    <3> HIDE DEF Bad
    <3> QED
      BY <3>1, LeastNatural
  <2>2. k \in 0..m /\ ~Holds(k)
    BY <2>1
  <2>3. CASE k = 0
    <3>1. d[0] = <<>> /\ SubSeq(path, 1, 0) = <<>>
      BY <1>1, <1>2 DEF Search
    <3>2. (IF 0 <= n THEN 0 ELSE n) = 0
      BY <1>1
    <3>3. Holds(0)
      BY <3>1, <3>2
    <3> QED
      BY <3>3, <2>2, <2>3
  <2>4. CASE k # 0
    <3>1. k - 1 \in 0..m /\ k \in 1..m /\ ~(k <= k - 1) /\ k \in Nat
      BY <2>2, <2>4, <1>1
    <3>2. Holds(k - 1)
      BY <2>1, <3>1
    <3>3. d[k] = Descend(tree, d[k - 1], byte)
      BY <3>1, <1>2 DEF Search
    <3>4. CASE k <= n
      <4>1. k \in 1..n /\ d[k - 1] = SubSeq(path, 1, k - 1)
        BY SMTT(30), <3>1, <3>2, <3>4, <1>1
      <4>2. d[k] = SubSeq(path, 1, k)
        BY <4>1, <3>3, StepTowardsText
      <4> QED
        BY <4>2, <3>4, <2>2
    <3>5. CASE ~(k <= n)
      <4>1. (IF k - 1 <= n THEN k - 1 ELSE n) = n
        BY <3>1, <3>5, <1>1
      <4>2. SubSeq(path, 1, n) = path
        BY <1>1
      <4>3. d[k - 1] = path
        BY <4>1, <4>2, <3>2
      <4>4. Descend(tree, path, byte) = path
        BY <1>3, StaysAtText DEF ToText
      <4> QED
        BY <4>2, <4>3, <4>4, <3>3, <3>5, <2>2
    <3> QED
      BY <3>4, <3>5
  <2> QED
    BY <2>3, <2>4
<1>5. Holds(m)
  <2>1. m \in 0..m
    BY <1>1
  <2> HIDE DEF Holds, m
  <2> QED
    BY <2>1, <1>4
<1>6. (IF m <= n THEN m ELSE n) = n
  BY <1>1
<1>7. SubSeq(path, 1, n) = path
  BY <1>1
<1> QED
  BY <1>2, <1>5, <1>6, <1>7

-----------------------------------------------------------------------------
(* The segments of a path, and where they lead.                            *)

\* What segments stand for.
Values(tree) ==
    {KeyOf(node) : node \in Nodes(tree)} \union
    {Numeral[IndexOf(node, i)] : node \in Nodes(tree), i \in Nat}

\* A step adds the key of a pair or the index of an item.
LEMMA SegmentCases ==
    ASSUME NEW tree, NEW node \in Nodes(tree), NEW i \in Nat
    PROVE  /\ Segment(node, i) \in Seq(Values(tree))
           /\ KeyOf(node) \in Values(tree) /\ Numeral[IndexOf(node, i)] \in Values(tree)
           /\ node.kind = "pair" => Segment(node, i) = <<KeyOf(node)>>
           /\ node.kind = "array" => Segment(node, i) = <<Numeral[IndexOf(node, i)]>>
           /\ node.kind \notin {"pair", "array"} => Segment(node, i) = <<>>
<1>1. KeyOf(node) \in Values(tree) /\ Numeral[IndexOf(node, i)] \in Values(tree)
  BY DEF Values
<1>2. CASE node.kind = "pair"
  BY <1>1, <1>2 DEF Segment
<1>3. CASE node.kind = "array"
  BY <1>1, <1>3 DEF Segment
<1>4. CASE node.kind \notin {"pair", "array"}
  BY <1>1, <1>4 DEF Segment
<1> QED
  BY <1>1, <1>2, <1>3, <1>4

\* The segments after each step of a walk.
Collects(tree, path, h, s) ==
    /\ s \in [0..Len(path) -> Seq(Values(tree))]
    /\ s[0] = <<>>
    /\ \A k \in 1..Len(path) : s[k] = s[k - 1] \o Segment(h[k - 1], path[k])

\* In the end they are the path.
LEMMA JsonPathWalk ==
    ASSUME NEW tree, WellFormed(tree), NEW path, NEW h, IsWalk(tree, path, h)
    PROVE  \E s : Collects(tree, path, h, s) /\ JsonPath(tree, path) = s[Len(path)]
<1> DEFINE n == Len(path)
<1> DEFINE T == Seq(Values(tree))
<1> DEFINE seg(k) == Segment(NodeAt(tree, SubSeq(path, 1, k - 1)), path[k])
<1> DEFINE step == [p \in (1..n) \X T |-> p[2] \o seg(p[1])]
<1> DEFINE z == <<>>
<1>0. n \in Nat /\ z \in T
  BY LenProperties, EmptySeq DEF IsWalk
<1>1. ASSUME NEW k \in 1..n PROVE seg(k) = Segment(h[k - 1], path[k]) /\ seg(k) \in T
  <2>1. k - 1 \in 0..Len(path) /\ k \in 1..Len(path)
    BY <1>0
  <2>2. NodeAt(tree, SubSeq(path, 1, k - 1)) = h[k - 1]
    BY <2>1, WalkBegins
  <2>3. h[k - 1] \in Nodes(tree) /\ path[k] \in Nat
    BY <2>1 DEF IsWalk
  <2> QED
    BY <2>2, <2>3, SegmentCases
<1>2. \A k \in 1..n : \A t \in T : t \o seg(k) \in T
  <2> TAKE k \in 1..n
  <2> TAKE t \in T
  <2>1. PICK u : u = seg(k)
    OBVIOUS
  <2>2. u \in Seq(Values(tree)) /\ t \in Seq(Values(tree))
    BY <1>1, <2>1
  <2>3. t \o u \in Seq(Values(tree))
    BY <2>2, ConcatProperties
  <2> QED
    BY <2>1, <2>3
<1> HIDE DEF T, seg, z, n
<1>3. step \in Steps(n, T)
  <2> USE DEF Steps
  <2> SUFFICES ASSUME NEW p \in (1..n) \X T PROVE p[2] \o seg(p[1]) \in T
    OBVIOUS
  <2> QED
    BY <1>2
<1>4. \A k \in 1..n : \A t \in T : step[<<k, t>>] = t \o seg(k)
  OBVIOUS
<1> HIDE DEF step
<1>5. PICK s : s \in [0..n -> T] /\ After(n, z, step, s)
  BY <1>0, <1>3, StepsExist
<1>6. \A k \in 0..n : s[k] = IF k = 0 THEN z ELSE s[k - 1] \o seg(k)
  <2> TAKE k \in 0..n
  <2>1. k # 0 => k \in 1..n /\ k - 1 \in 0..n
    BY <1>0
  <2> QED
    BY <2>1, <1>4, <1>5 DEF After
<1> DEFINE Follows(f) == f = [k \in 0..n |-> IF k = 0 THEN z ELSE f[k - 1] \o seg(k)]
<1> DEFINE segments == CHOOSE f : Follows(f)
<1>7. Follows(s)
  <2>1. s = [k \in 0..n |-> s[k]]
    BY <1>5
  <2> QED
    BY <2>1, <1>6
<1>8. Follows(segments)
  BY <1>7
<1>9. JsonPath(tree, path) = segments[n]
  BY DEF JsonPath, n, z, seg
<1> HIDE DEF segments
<1>10. segments[0] = s[0]
  <2>1. 0 \in 0..n
    BY <1>0
  <2> QED
    BY <2>1, <1>6, <1>8
<1>11. ASSUME NEW k \in 1..n, segments[k - 1] = s[k - 1] PROVE segments[k] = s[k]
  <2>1. k \in 0..n /\ k # 0
    BY <1>0
  <2> QED
    BY <2>1, <1>6, <1>8, <1>11
<1>12. segments[n] = s[n]
  <2>1. Alike(segments, s, n)
    BY <1>10, <1>11 DEF Alike
  <2>2. n \in 0..n
    BY <1>0
  <2> QED
    BY <2>1, <2>2, <1>0, SameSteps
<1>13. Collects(tree, path, h, s)
  <2>1. s[0] = <<>>
    <3>1. 0 \in 0..n
      BY <1>0
    <3> QED
      BY <3>1, <1>6 DEF z
  <2>2. ASSUME NEW k \in 1..n PROVE s[k] = s[k - 1] \o Segment(h[k - 1], path[k])
    <3>1. k \in 0..n /\ k # 0
      BY <1>0
    <3> QED
      BY <3>1, <1>1, <1>6
  <2> QED
    BY <2>1, <2>2, <1>5 DEF Collects, T, n
<1> QED
  BY <1>9, <1>12, <1>13 DEF n

\* Resolving the segments one after the other leads to the node at an address.
Resolves(tree, segments, path) ==
    \E found :
        /\ found = [k \in 0..Len(segments) |->
                       IF k = 0 THEN RootValuePath(tree)
                       ELSE ResolveSegment(tree, found[k - 1], segments[k])]
        /\ found[Len(segments)] = <<path>>

\* A segment more.
LEMMA ResolvesFurther ==
    ASSUME NEW tree, NEW S, NEW segments \in Seq(S), NEW segment \in S, NEW path, NEW next,
           Resolves(tree, segments, path), ResolveSegment(tree, <<path>>, segment) = <<next>>
    PROVE  Resolves(tree, segments \o <<segment>>, next)
<1> DEFINE n == Len(segments)
<1> DEFINE t == segments \o <<segment>>
<1> DEFINE Follows(f, s) ==
       f = [k \in 0..Len(s) |-> IF k = 0 THEN RootValuePath(tree)
                                ELSE ResolveSegment(tree, f[k - 1], s[k])]
<1>1. n \in Nat
  BY LenProperties
<1>2. Len(t) = n + 1 /\ t[n + 1] = segment /\ \A k \in 1..n : t[k] = segments[k]
  OBVIOUS
<1>3. PICK f : Follows(f, segments) /\ f[n] = <<path>>
  BY DEF Resolves
<1> DEFINE g == [k \in 0..(n + 1) |-> IF k <= n THEN f[k] ELSE <<next>>]
<1>4. ASSUME NEW k \in 0..(n + 1)
      PROVE  g[k] = IF k = 0 THEN RootValuePath(tree) ELSE ResolveSegment(tree, g[k - 1], t[k])
  <2>1. CASE k = 0
    <3>1. 0 \in 0..n /\ g[k] = f[0]
      BY <1>1, <2>1
    <3> QED
      BY <3>1, <1>3, <2>1
  <2>2. CASE k \in 1..n
    <3>1. k \in 0..n /\ k # 0 /\ g[k] = f[k] /\ g[k - 1] = f[k - 1]
      BY <1>1, <2>2
    <3>2. f[k] = ResolveSegment(tree, f[k - 1], segments[k])
      BY <1>3, <3>1
    <3> QED
      BY <3>1, <3>2, <1>2, <2>2
  <2>3. CASE k = n + 1
    <3>1. k # 0 /\ g[k] = <<next>> /\ g[k - 1] = f[n]
      BY <1>1, <2>3
    <3> QED
      BY <3>1, <1>2, <1>3, <2>3
  <2> QED
    BY <1>1, <2>1, <2>2, <2>3
<1>5. g = [k \in 0..(n + 1) |-> g[k]] /\ g[n + 1] = <<next>>
  BY <1>1
<1> HIDE DEF g, t, n
<1>6. Follows(g, t)
  BY <1>2, <1>4, <1>5
<1>7. g[Len(t)] = <<next>>
  BY <1>2, <1>5
<1> QED
  BY <1>6, <1>7 DEF Resolves, t

\* A pointer of these segments leads there.
LEMMA ResolvesPointer ==
    ASSUME NEW tree, NEW segments, Len(segments) \in Nat, segments # <<EmptyString>>,
           NEW path, Resolves(tree, segments, path)
    PROVE  ResolvePointer(tree, segments) = <<path>>
<1> DEFINE n == Len(segments)
<1> DEFINE Follows(f) ==
       f = [k \in 0..n |-> IF k = 0 THEN RootValuePath(tree)
                           ELSE ResolveSegment(tree, f[k - 1], segments[k])]
<1> DEFINE found == CHOOSE f : Follows(f)
<1>0. n \in Nat
  OBVIOUS
<1>1. PICK g : Follows(g) /\ g[n] = <<path>>
  BY DEF Resolves
<1>2. Follows(found)
  BY <1>1
<1>3. ResolvePointer(tree, segments) = found[n]
  BY DEF ResolvePointer
<1> HIDE DEF found, n
<1>4. found[0] = g[0]
  <2>1. 0 \in 0..n
    BY <1>0
  <2> QED
    BY <2>1, <1>1, <1>2
<1>5. ASSUME NEW k \in 1..n, found[k - 1] = g[k - 1] PROVE found[k] = g[k]
  <2>1. k \in 0..n /\ k # 0
    BY <1>0
  <2> QED
    BY <2>1, <1>1, <1>2, <1>5
<1>6. found[n] = g[n]
  <2>1. Alike(found, g, n)
    BY <1>4, <1>5 DEF Alike
  <2>2. n \in 0..n
    BY <1>0
  <2> QED
    BY <2>1, <2>2, <1>0, SameSteps
<1> QED
  BY <1>1, <1>3, <1>6

-----------------------------------------------------------------------------
(* One segment.                                                            *)

\* The least element of a set of one number.
LEMMA MinOfOne ==
    ASSUME NEW i \in Nat, NEW s, i \in s, \A j \in s : j = i
    PROVE  Min(s) = i
<1>1. s = {i}
  OBVIOUS
<1> QED
  BY <1>1 DEF Min

\* No two items of an array have the same index.
LEMMA IndexesDiffer ==
    ASSUME NEW array, NEW i \in Nat, NEW j \in Nat, 1 <= i, i < j, IsValueNode(array.children[i])
    PROVE  /\ IndexOf(array, i) \in Nat /\ IndexOf(array, j) \in Nat
           /\ IndexOf(array, i) # IndexOf(array, j)
<1> DEFINE s == {k \in 1..(i - 1) : IsValueNode(array.children[k])}
<1> DEFINE t == {k \in 1..(j - 1) : IsValueNode(array.children[k])}
<1>1. IsFiniteSet(1..(i - 1)) /\ IsFiniteSet(1..(j - 1))
  BY FS_Interval
<1>2. IsFiniteSet(s) /\ IsFiniteSet(t)
  BY <1>1, FS_Subset
<1>3. i \notin s /\ (s \union {i}) \subseteq t
  OBVIOUS
<1>4. Cardinality(s) \in Nat /\ Cardinality(t) \in Nat
  BY <1>2, FS_CardinalityType
<1>5. Cardinality(s \union {i}) = Cardinality(s) + 1
  BY <1>2, <1>3, FS_AddElement
<1>6. Cardinality(s \union {i}) <= Cardinality(t)
  BY <1>2, <1>3, FS_Subset
<1> HIDE DEF s, t
<1>7. Cardinality(s) # Cardinality(t)
  BY <1>4, <1>5, <1>6
<1> QED
  BY <1>4, <1>7 DEF IndexOf, s, t

\* The key of a pair leads from its object to its value.
LEMMA KeyLeads ==
    ASSUME NEW tree, WellFormed(tree), KeysDistinct(tree), NEW path,
           NEW node \in Nodes(tree), node.kind = "object", NodeAt(tree, path) = node,
           NEW i \in 1..Len(node.children), node.children[i].kind = "pair"
    PROVE  ResolveSegment(tree, <<path>>, KeyOf(node.children[i]))
             = <<path \o <<i, Len(node.children[i].children)>>>>
<1> DEFINE pairs == {j \in DOMAIN node.children : node.children[j].kind = "pair"
                        /\ KeyOf(node.children[j]) = KeyOf(node.children[i])}
<1>1. i \in Nat /\ DOMAIN node.children = 1..Len(node.children)
  BY ChildIsNode, LenProperties
<1>2. i \in pairs
  BY <1>1
<1>3. \A j \in pairs : j = i
  BY <1>1 DEF KeysDistinct
<1>4. Min(pairs) = i
  <2> HIDE DEF pairs
  <2> QED
    BY <1>1, <1>2, <1>3, MinOfOne
<1>5. <<path>> # <<>> /\ <<path>>[1] = path
  OBVIOUS
<1> HIDE DEF pairs
<1> QED
  BY <1>2, <1>4, <1>5 DEF ResolveSegment, pairs

\* The numeral of an index stands for it alone, and all that occur have one.
Spelled(tree) ==
    \A node \in Nodes(tree) : node.kind = "array" =>
        \A i \in DOMAIN node.children :
            IsValueNode(node.children[i]) => IndexOf(node, i) \in DOMAIN Numeral

\* The index of an item leads from its array to it.
LEMMA IndexLeads ==
    ASSUME NEW tree, WellFormed(tree), Spelled(tree), NEW path,
           NEW node \in Nodes(tree), node.kind = "array", NodeAt(tree, path) = node,
           NEW i \in 1..Len(node.children), IsValueNode(node.children[i])
    PROVE  ResolveSegment(tree, <<path>>, Numeral[IndexOf(node, i)]) = <<Append(path, i)>>
<1> DEFINE items == {j \in DOMAIN node.children :
                        /\ IsValueNode(node.children[j])
                        /\ IndexOf(node, j) \in DOMAIN Numeral
                        /\ Numeral[IndexOf(node, j)] = Numeral[IndexOf(node, i)]}
<1>1. i \in Nat /\ DOMAIN node.children = 1..Len(node.children)
  BY ChildIsNode, LenProperties
<1>2. i \in items
  BY <1>1 DEF Spelled
<1>3. ASSUME NEW j \in items PROVE j = i
  <2>1. j \in 1..Len(node.children) /\ IsValueNode(node.children[j])
    BY <1>1
  <2>2. IndexOf(node, j) = IndexOf(node, i)
    BY <1>2, NumeralType DEF IsInjective
  <2> QED
    BY <1>1, <2>1, <2>2, IndexesDiffer
<1>4. Min(items) = i
  <2> HIDE DEF items
  <2> QED
    BY <1>1, <1>2, <1>3, MinOfOne
<1>5. <<path>> # <<>> /\ <<path>>[1] = path
  OBVIOUS
<1> HIDE DEF items
<1> QED
  BY <1>2, <1>4, <1>5 DEF ResolveSegment, items

-----------------------------------------------------------------------------
(* All segments.                                                           *)

\* A tree as tree-sitter makes it, in which paths are unambiguous.
Regular(tree) == WellFormed(tree) /\ Grammatical(tree) /\ KeysDistinct(tree) /\ Spelled(tree)

\* A walk to a value in the first value of the document, not through an ERROR node and
\* not to a key.
ToValue(tree, path, h) ==
    /\ IsWalk(tree, path, h)
    /\ Len(path) \in Nat /\ Len(path) >= 1
    /\ IsValueNode(h[Len(path)])
    /\ h[Len(path) - 1].kind = "pair" => path[Len(path)] # 1
    /\ \A k \in 1..Len(path) : h[k].kind # "error"
    /\ RootValuePath(tree) = <<SubSeq(path, 1, 1)>>

\* A step of such a walk.
LEMMA StepOfWalk ==
    ASSUME NEW tree, Regular(tree), NEW path, NEW h, ToValue(tree, path, h),
           NEW k \in 1..Len(path)
    PROVE  /\ k \in Nat /\ k - 1 \in 0..Len(path) /\ k \in 0..Len(path)
           /\ h[k - 1] \in Nodes(tree) /\ h[k] \in Nodes(tree)
           /\ path[k] \in 1..Len(h[k - 1].children) /\ path[k] \in Nat
           /\ DOMAIN h[k - 1].children = 1..Len(h[k - 1].children)
           /\ h[k - 1].children # <<>> /\ h[k] = h[k - 1].children[path[k]]
<1>1. k \in Nat /\ k - 1 \in 0..Len(path) /\ k \in 0..Len(path)
  BY DEF ToValue
<1>2. h[k - 1] \in Nodes(tree) /\ h[k] \in Nodes(tree)
  BY <1>1 DEF ToValue, IsWalk
<1>3. path[k] \in 1..Len(h[k - 1].children) /\ h[k] = h[k - 1].children[path[k]]
  BY DEF ToValue, IsWalk
<1>4. h[k - 1].children \in Seq(Nodes(tree)) /\ Len(h[k - 1].children) \in Nat
  BY <1>2, ChildIsNode DEF Regular
<1>5. path[k] \in Nat /\ DOMAIN h[k - 1].children = 1..Len(h[k - 1].children)
  BY <1>3, <1>4, LenProperties
<1>6. h[k - 1].children # <<>>
  BY <1>3, <1>4
<1> QED
  BY <1>1, <1>2, <1>3, <1>5, <1>6

\* It is through values and pairs only, from an object to a pair, and from a pair to
\* its value.
LEMMA KindsOfWalk ==
    ASSUME NEW tree, Regular(tree), NEW path, NEW h, ToValue(tree, path, h),
           NEW k \in 1..Len(path)
    PROVE  /\ IsValueNode(h[k]) \/ h[k].kind = "pair"
           /\ k = 1 => h[k - 1].kind = "document"
           /\ k # 1 => h[k - 1].kind \in {"object", "array", "pair"}
           /\ h[k - 1].kind = "object" <=> h[k].kind = "pair"
           /\ h[k - 1].kind = "pair" => path[k] = Len(h[k - 1].children)
<1> DEFINE n == Len(path)
<1> DEFINE K == {"document", "object", "array", "pair", "error"}
<1>1. n \in Nat
  BY DEF ToValue
<1>2. ASSUME NEW node \in Nodes(tree)
      PROVE  /\ node.children # <<>> => node.kind \in K
             /\ node.kind = "pair" => node.children[1].kind \in {"string", "number"}
             /\ \A i \in DOMAIN node.children :
                   /\ node.children[i].kind # "document"
                   /\ node.children[i].kind = "pair" => node.kind \in {"object", "error"}
                   /\ IsValueNode(node.children[i]) => node.kind # "object"
                         /\ (node.kind = "pair" => i \in {1, Len(node.children)})
  BY DEF Regular, Grammatical
<1>3. ASSUME NEW j \in 1..n
      PROVE  /\ h[j - 1].kind \in K /\ h[j].kind # "document"
             /\ h[j].kind = "pair" => h[j - 1].kind \in {"object", "error"}
             /\ IsValueNode(h[j]) => h[j - 1].kind # "object"
                   /\ (h[j - 1].kind = "pair" => path[j] \in {1, Len(h[j - 1].children)})
  <2>1. PICK node, i : node = h[j - 1] /\ i = path[j]
    OBVIOUS
  <2>2. /\ node \in Nodes(tree) /\ i \in DOMAIN node.children
        /\ node.children # <<>> /\ h[j] = node.children[i]
    BY <2>1, StepOfWalk
  <2> HIDE DEF K
  <2>3. /\ node.kind \in K /\ h[j].kind # "document"
        /\ h[j].kind = "pair" => node.kind \in {"object", "error"}
        /\ IsValueNode(h[j]) => node.kind # "object"
              /\ (node.kind = "pair" => i \in {1, Len(node.children)})
    BY <1>2, <2>2
  <2> QED
    BY <2>1, <2>3
<1>4. ASSUME NEW j \in 1..(n - 1) PROVE h[j].kind \in {"object", "array", "pair"}
  <2>1. j + 1 \in 1..n /\ j \in 1..n /\ (j + 1) - 1 = j
    BY <1>1
  <2>2. h[j].kind \in K
    BY <2>1, <1>3
  <2>3. h[j].kind # "document" /\ h[j].kind # "error"
    BY <2>1, <1>3 DEF ToValue
  <2> QED
    BY <2>2, <2>3
<1>5. IsValueNode(h[k]) \/ h[k].kind = "pair"
  <2>1. CASE k = n
    BY <2>1 DEF ToValue
  <2>2. CASE k # n
    <3>1. k \in 1..(n - 1)
      BY <1>1, <2>2
    <3> QED
      BY <3>1, <1>4 DEF IsValueNode
  <2> QED
    BY <2>1, <2>2
<1>6. k = 1 => h[k - 1].kind = "document"
  BY DEF ToValue, IsWalk, Regular, Grammatical
<1>7. k # 1 => h[k - 1].kind \in {"object", "array", "pair"}
  <2> SUFFICES ASSUME k # 1 PROVE h[k - 1].kind \in {"object", "array", "pair"}
    OBVIOUS
  <2>1. k - 1 \in 1..(n - 1)
    BY <1>1
  <2> QED
    BY <2>1, <1>4
<1>8. h[k - 1].kind = "object" <=> h[k].kind = "pair"
  <2>1. h[k - 1].kind = "object" => h[k].kind = "pair"
    BY <1>3, <1>5
  <2>2. h[k].kind = "pair" => h[k - 1].kind \in {"object", "error"}
    BY <1>3
  <2>3. h[k - 1].kind # "error"
    BY <1>6, <1>7
  <2> QED
    BY <2>1, <2>2, <2>3
<1>9. ASSUME h[k - 1].kind = "pair" PROVE path[k] = Len(h[k - 1].children)
  <2>1. path[k] \in {1, Len(h[k - 1].children)}
    BY <1>3, <1>5, <1>8, <1>9
  <2>2. ASSUME path[k] = 1 PROVE FALSE
    <3>1. k # n
      BY <1>9, <2>2 DEF ToValue
    <3>2. k \in 1..(n - 1)
      BY <1>1, <3>1
    <3>3. h[k].kind \in {"object", "array", "pair"}
      BY <1>4, <3>2
    <3>4. h[k].kind \in {"string", "number"}
      BY SMTT(30), <1>2, <1>9, <2>2, StepOfWalk
    <3> QED
      BY <3>3, <3>4
  <2> QED
    BY <2>1, <2>2
<1> QED
  BY <1>5, <1>6, <1>7, <1>8, <1>9

\* Where the segments of the first k steps lead: to the node there, or to its object.
LeadsTo(tree, path, h, s, k) ==
    /\ h[k].kind # "pair" => Resolves(tree, s[k], SubSeq(path, 1, k))
    /\ h[k].kind = "pair" => Resolves(tree, s[k], SubSeq(path, 1, k - 1))

\* The first step.
LEMMA LeadsFirst ==
    ASSUME NEW tree, Regular(tree), NEW path, NEW h, ToValue(tree, path, h),
           NEW s, Collects(tree, path, h, s)
    PROVE  LeadsTo(tree, path, h, s, 1)
<1>1. 1 \in 1..Len(path) /\ 1 - 1 = 0
  BY DEF ToValue
<1>2. h[0].kind = "document" /\ h[0].kind # "object" /\ h[1].kind # "pair"
  BY <1>1, KindsOfWalk
<1>3. Segment(h[0], path[1]) = <<>>
  <2>1. h[0] \in Nodes(tree) /\ path[1] \in Nat
    BY <1>1, StepOfWalk
  <2> QED
    BY <2>1, <1>2, SegmentCases
<1>4. s[1] = <<>>
  <2>1. s[1] = s[0] \o Segment(h[0], path[1]) /\ s[0] = <<>>
    BY <1>1 DEF Collects
  <2> QED
    BY <2>1, <1>3
<1> DEFINE found == [k \in 0..0 |-> RootValuePath(tree)]
<1>5. found = [k \in 0..Len(<<>>) |->
                  IF k = 0 THEN RootValuePath(tree)
                  ELSE ResolveSegment(tree, found[k - 1], <<>>[k])]
  <2>1. Len(<<>>) = 0
    OBVIOUS
  <2> QED
    BY <2>1
<1>6. found[Len(<<>>)] = <<SubSeq(path, 1, 1)>>
  BY DEF ToValue
<1> HIDE DEF found
<1>7. Resolves(tree, <<>>, SubSeq(path, 1, 1))
  BY <1>5, <1>6 DEF Resolves
<1> QED
  BY <1>2, <1>4, <1>7 DEF LeadsTo

\* A further step: none of the segments, a key, or an index.
LEMMA LeadsNext ==
    ASSUME NEW tree, Regular(tree), NEW path, NEW h, ToValue(tree, path, h),
           NEW s, Collects(tree, path, h, s), NEW k \in 1..Len(path), k # 1,
           LeadsTo(tree, path, h, s, k - 1)
    PROVE  LeadsTo(tree, path, h, s, k)
<1>1. /\ k \in Nat /\ k - 1 \in 0..Len(path)
      /\ h[k - 1] \in Nodes(tree) /\ h[k] \in Nodes(tree)
      /\ path[k] \in 1..Len(h[k - 1].children) /\ path[k] \in Nat
      /\ h[k] = h[k - 1].children[path[k]]
  BY StepOfWalk
<1>2. k - 1 \in 1..Len(path) /\ (k - 1) - 1 = k - 2 /\ k - 2 \in 0..Len(path)
  BY <1>1
<1>3. /\ h[k - 1].kind \in {"object", "array", "pair"}
      /\ IsValueNode(h[k]) \/ h[k].kind = "pair"
      /\ h[k - 1].kind = "object" <=> h[k].kind = "pair"
      /\ h[k - 1].kind = "pair" => path[k] = Len(h[k - 1].children)
  BY KindsOfWalk
<1>4. WellFormed(tree) /\ KeysDistinct(tree) /\ Spelled(tree) /\ IsWalk(tree, path, h)
  BY DEF Regular, ToValue
<1>5. s[k] = s[k - 1] \o Segment(h[k - 1], path[k]) /\ s[k - 1] \in Seq(Values(tree))
  BY <1>1 DEF Collects
<1>6. path \in Seq(Nat)
  BY <1>4 DEF IsWalk
<1>7. CASE h[k - 1].kind = "object"
  <2>1. Segment(h[k - 1], path[k]) = <<>>
    BY <1>1, <1>7, SegmentCases
  <2>2. s[k] = s[k - 1]
    <3>1. PICK t : t = s[k - 1]
      OBVIOUS
    <3>2. t \o <<>> = t
      BY <3>1, <1>5, ConcatEmptySeq
    <3> QED
      BY <2>1, <3>1, <3>2, <1>5
  <2>3. Resolves(tree, s[k - 1], SubSeq(path, 1, k - 1))
    BY <1>7 DEF LeadsTo
  <2> QED
    BY <2>2, <2>3, <1>3, <1>7 DEF LeadsTo
<1>8. CASE h[k - 1].kind = "array"
  <2> DEFINE segment == Numeral[IndexOf(h[k - 1], path[k])]
  <2>1. Segment(h[k - 1], path[k]) = <<segment>> /\ segment \in Values(tree)
    BY <1>1, <1>8, SegmentCases
  <2>2. Resolves(tree, s[k - 1], SubSeq(path, 1, k - 1))
    BY <1>8 DEF LeadsTo
  <2>3. NodeAt(tree, SubSeq(path, 1, k - 1)) = h[k - 1]
    BY <1>1, <1>4, WalkBegins
  <2>4. h[k].kind # "pair" /\ IsValueNode(h[k - 1].children[path[k]])
    BY <1>1, <1>3, <1>8
  <2>5. ResolveSegment(tree, <<SubSeq(path, 1, k - 1)>>, segment)
          = <<Append(SubSeq(path, 1, k - 1), path[k])>>
    BY <1>1, <1>4, <1>8, <2>3, <2>4, IndexLeads
  <2>6. Append(SubSeq(path, 1, k - 1), path[k]) = SubSeq(path, 1, k)
    BY <1>6, OneMore
  <2> HIDE DEF segment
  <2>7. Resolves(tree, s[k - 1] \o <<segment>>, SubSeq(path, 1, k))
    BY <1>5, <2>1, <2>2, <2>5, <2>6, ResolvesFurther
  <2> QED
    BY <1>5, <2>1, <2>4, <2>7 DEF LeadsTo
<1>9. CASE h[k - 1].kind = "pair"
  <2> DEFINE key == KeyOf(h[k - 1])
  <2>1. Segment(h[k - 1], path[k]) = <<key>> /\ key \in Values(tree)
    BY <1>1, <1>9, SegmentCases
  <2>2. Resolves(tree, s[k - 1], SubSeq(path, 1, k - 2))
    BY <1>2, <1>9 DEF LeadsTo
  <2>3. h[k].kind # "pair"
    BY <1>3, <1>9
  <2>4. /\ h[k - 2].kind = "object" /\ h[k - 2] \in Nodes(tree)
        /\ path[k - 1] \in 1..Len(h[k - 2].children)
        /\ h[k - 1] = h[k - 2].children[path[k - 1]]
    <3>1. h[(k - 1) - 1].kind = "object"
      BY <1>2, <1>9, KindsOfWalk
    <3>2. /\ h[(k - 1) - 1] \in Nodes(tree)
          /\ path[k - 1] \in 1..Len(h[(k - 1) - 1].children)
          /\ h[k - 1] = h[(k - 1) - 1].children[path[k - 1]]
      BY <1>2, StepOfWalk
    <3> QED
      BY <3>1, <3>2, <1>2
  <2>5. NodeAt(tree, SubSeq(path, 1, k - 2)) = h[k - 2]
    BY <1>2, <1>4, WalkBegins
  <2>6. ResolveSegment(tree, <<SubSeq(path, 1, k - 2)>>, key)
          = <<SubSeq(path, 1, k - 2) \o <<path[k - 1], Len(h[k - 1].children)>>>>
    <3>1. PICK node, i : node = h[k - 2] /\ i = path[k - 1]
      OBVIOUS
    <3>2. /\ node \in Nodes(tree) /\ node.kind = "object"
          /\ NodeAt(tree, SubSeq(path, 1, k - 2)) = node
          /\ i \in 1..Len(node.children) /\ h[k - 1] = node.children[i]
          /\ node.children[i].kind = "pair"
      BY <1>9, <2>4, <2>5, <3>1
    <3>3. ResolveSegment(tree, <<SubSeq(path, 1, k - 2)>>, KeyOf(node.children[i]))
            = <<SubSeq(path, 1, k - 2) \o <<i, Len(node.children[i].children)>>>>
      BY ZenonT(30), <1>4, <3>2, KeyLeads
    <3> QED
      BY <3>1, <3>2, <3>3
  <2>7. SubSeq(path, 1, k - 2) \o <<path[k - 1], path[k]>> = SubSeq(path, 1, k)
    BY <1>6, OneMore
  <2> HIDE DEF key
  <2>8. Resolves(tree, s[k - 1] \o <<key>>, SubSeq(path, 1, k))
    BY <1>3, <1>5, <1>9, <2>1, <2>2, <2>6, <2>7, ResolvesFurther
  <2> QED
    BY <1>5, <2>1, <2>3, <2>8 DEF LeadsTo
<1> QED
  BY <1>3, <1>7, <1>8, <1>9

\* All steps.
LEMMA LeadsThere ==
    ASSUME NEW tree, Regular(tree), NEW path, NEW h, ToValue(tree, path, h),
           NEW s, Collects(tree, path, h, s)
    PROVE  Resolves(tree, s[Len(path)], path)
<1> DEFINE n == Len(path)
<1>1. n \in Nat /\ n >= 1
  BY DEF ToValue
<1>2. LeadsTo(tree, path, h, s, n)
  <2> DEFINE Bad == {k \in 1..n : ~LeadsTo(tree, path, h, s, k)}
  <2> SUFFICES ASSUME Bad # {} PROVE FALSE
    BY <1>1
  <2>1. Bad \in SUBSET Nat
    BY <1>1
  <2>2. PICK k \in Bad : \A j \in Bad : k <= j
    <3> HIDE DEF Bad
    <3> QED
      BY <2>1, LeastNatural
  <2>3. k \in 1..Len(path) /\ ~LeadsTo(tree, path, h, s, k)
    BY <2>2
  <2>4. k # 1
    BY <2>3, LeadsFirst
  <2>5. k - 1 \in 1..n /\ ~(k <= k - 1)
    BY <1>1, <2>3, <2>4
  <2>6. LeadsTo(tree, path, h, s, k - 1)
    BY <2>2, <2>5
  <2> QED
    BY <2>3, <2>4, <2>6, LeadsNext
<1>3. h[n].kind # "pair"
  BY DEF ToValue, IsValueNode
<1>4. SubSeq(path, 1, n) = path
  BY DEF ToValue, IsWalk
<1> QED
  BY <1>2, <1>3, <1>4 DEF LeadsTo

\* The path of a value leads to it.
LEMMA ValueLeads ==
    ASSUME NEW tree, Regular(tree), Len(tree.tokens) \in Nat, NEW path \in ValuePaths(tree),
           JsonPath(tree, path) # <<EmptyString>>, <<SubSeq(path, 1, 1)>> = RootValuePath(tree)
    PROVE  ResolvePointer(tree, JsonPath(tree, path)) = <<path>>
<1> DEFINE n == Len(path)
<1>0. WellFormed(tree)
  BY DEF Regular
<1>1. /\ path \in Paths(tree) /\ path # <<>> /\ IsValueNode(NodeAt(tree, path))
      /\ NodeAt(tree, Front(path)).kind = "pair" => Last(path) # 1
      /\ \A k \in 1..Len(path) : NodeAt(tree, SubSeq(path, 1, k)).kind # "error"
  BY DEF ValuePaths
<1>2. path \in Addresses(tree)
  BY <1>0, <1>1, PathsAreAddresses
<1>3. PICK h : IsWalk(tree, path, h)
  BY <1>2 DEF Addresses
<1>4. path \in Seq(Nat) /\ n \in Nat
  BY <1>2, LenProperties DEF Addresses
<1>5. n >= 1
  BY <1>1, <1>4
<1>6. NodeAt(tree, path) = h[n]
  BY <1>3, NodeAtWalk
<1>7. NodeAt(tree, Front(path)) = h[n - 1]
  <2>1. n - 1 \in 0..Len(path)
    BY <1>4, <1>5
  <2> QED
    BY <2>1, <1>3, WalkBegins DEF Front
<1>8. \A k \in 1..n : h[k].kind # "error"
  <2> TAKE k \in 1..n
  <2>1. k \in 0..Len(path)
    BY <1>4
  <2> QED
    BY <2>1, <1>1, <1>3, WalkBegins
<1>9. ToValue(tree, path, h)
  <2>1. Last(path) = path[n]
    BY DEF Last
  <2> QED
    BY <2>1, <1>1, <1>3, <1>4, <1>5, <1>6, <1>7, <1>8 DEF ToValue
<1>10. PICK s : Collects(tree, path, h, s) /\ JsonPath(tree, path) = s[n]
  BY <1>0, <1>3, JsonPathWalk
<1>11. Resolves(tree, s[n], path)
  BY <1>9, <1>10, LeadsThere
<1>12. Len(s[n]) \in Nat
  <2>1. n \in 0..Len(path)
    BY <1>4
  <2>2. s[n] \in Seq(Values(tree))
    BY <2>1, <1>10 DEF Collects
  <2> QED
    BY <2>2, LenProperties
<1> QED
  BY <1>10, <1>11, <1>12, ResolvesPointer

-----------------------------------------------------------------------------
(* Definitions.                                                            *)

\* A step back from an address.
LEMMA AddressBefore ==
    ASSUME NEW tree, WellFormed(tree), NEW path \in Addresses(tree), path # <<>>
    PROVE  /\ Front(path) \in Addresses(tree)
           /\ Last(path) \in DOMAIN NodeAt(tree, Front(path)).children
           /\ Append(Front(path), Last(path)) = path
           /\ NodeAt(tree, path) = NodeAt(tree, Front(path)).children[Last(path)]
<1> DEFINE n == Len(path)
<1>1. PICK h : IsWalk(tree, path, h)
  BY DEF Addresses
<1>2. path \in Seq(Nat) /\ n \in Nat /\ n >= 1
  <2>1. path \in Seq(Nat) /\ Len(path) \in Nat
    BY AddressOfNode
  <2> QED
    BY <2>1
<1>3. PICK p, k : k = n - 1 /\ p = SubSeq(path, 1, k)
  OBVIOUS
<1>4. p \in Seq(Nat) /\ Len(p) = k /\ \A i \in 1..k : p[i] = path[i]
  BY <1>2, <1>3
<1>5. k \in 0..Len(path) /\ n \in 1..Len(path)
  BY <1>2, <1>3
<1>6. NodeAt(tree, p) = h[k] /\ NodeAt(tree, path) = h[n]
  BY <1>1, <1>3, <1>5, WalkBegins, NodeAtWalk
<1>7. path[n] \in 1..Len(h[k].children) /\ h[n] = h[k].children[path[n]] /\ h[k] \in Nodes(tree)
  BY <1>1, <1>3, <1>5 DEF IsWalk
<1>8. path[n] \in DOMAIN h[k].children
  BY <1>7, ChildIsNode, LenProperties
<1>9. p \in Addresses(tree)
  <2> DEFINE g == [i \in 0..k |-> h[i]]
  <2>1. g \in [0..k -> Nodes(tree)] /\ g[0] = tree
    BY <1>1, <1>2, <1>3 DEF IsWalk
  <2>2. ASSUME NEW i \in 1..k
        PROVE  p[i] \in 1..Len(g[i - 1].children) /\ g[i] = g[i - 1].children[p[i]]
    <3>1. i \in 1..Len(path) /\ i \in 0..k /\ i - 1 \in 0..k
      BY <1>2, <1>3
    <3> QED
      BY <3>1, <1>1, <1>4 DEF IsWalk
  <2> HIDE DEF g
  <2>3. IsWalk(tree, p, g)
    BY <2>1, <2>2, <1>4 DEF IsWalk
  <2> QED
    BY <2>3, <1>4 DEF Addresses
<1>10. Front(path) = p /\ Last(path) = path[n]
  BY <1>3 DEF Front, Last
<1>11. Append(p, path[n]) = path
  BY <1>2, <1>3
<1> QED
  BY <1>6, <1>7, <1>8, <1>9, <1>10, <1>11

\* The value of a pair is where links of it are.
LEMMA ValueOfPair ==
    ASSUME NEW tree, WellFormed(tree), NEW path \in Addresses(tree),
           NodeAt(tree, path).kind = "pair"
    PROVE  /\ PairValueAt(tree, path) \in Addresses(tree)
           /\ PairValueAt(tree, path) # <<>>
           /\ Front(PairValueAt(tree, path)) = path
           /\ Last(PairValueAt(tree, path)) = Len(NodeAt(tree, path).children)
           /\ NodeAt(tree, PairValueAt(tree, path)) = PairValue(NodeAt(tree, path))
<1>1. PICK pair, i, q : /\ pair = NodeAt(tree, path) /\ i = Len(pair.children)
                        /\ q = Append(path, i)
  OBVIOUS
<1>2. /\ path \in Seq(Nat) /\ Len(path) \in Nat /\ pair \in Nodes(tree)
      /\ Len(pair.children) \in Nat /\ DOMAIN pair.children = 1..Len(pair.children)
  BY <1>1, AddressOfNode
<1>3. i \in DOMAIN pair.children /\ i \in Nat /\ PairValue(pair) = pair.children[i]
  BY <1>1, <1>2, KeyAndValue
<1>4. q \in Addresses(tree) /\ NodeAt(tree, q) = pair.children[i]
  BY <1>1, <1>3, AddressGoesOn
<1>5. q # <<>> /\ Front(q) = path /\ Last(q) = i
  <2>1. Len(q) = Len(path) + 1 /\ q[Len(q)] = i /\ SubSeq(q, 1, Len(path)) = path
    BY <1>1, <1>2, <1>3
  <2>2. Len(q) - 1 = Len(path) /\ Len(q) # 0
    BY <2>1, <1>2
  <2>3. q # <<>>
    BY <2>2
  <2> QED
    BY <2>1, <2>2, <2>3 DEF Front, Last
<1> QED
  BY <1>1, <1>3, <1>4, <1>5 DEF PairValueAt

\* From a byte of a reference, the definition is where its pointer leads.
LEMMA DefinitionThere ==
    ASSUME NEW S, NEW tree, IsRoot(S, tree), WellFormed(tree), Grammatical(tree),
           NEW t, NEW c, Offset(t, c.at) \in Nat,
           NEW path \in Addresses(tree), NodeAt(tree, path).kind = "pair",
           IsRef(NodeAt(tree, path)), NEW on, on = PairValueAt(tree, path),
           NodeAt(tree, on).kind = "string",
           Offset(t, c.at) \in NodeAt(tree, on).start..(NodeAt(tree, on).end - 1)
    PROVE  FindDefinition(t, tree, c) =
             LET val == NodeAt(tree, on).tokens[1]
             IN  IF val \in DOMAIN Fragment THEN ResolvePointer(tree, Fragment[val]) ELSE <<>>
<1>1. PICK byte : byte = Offset(t, c.at)
  OBVIOUS
<1>2. /\ on \in Addresses(tree) /\ on # <<>> /\ Front(on) = path
      /\ Last(on) = Len(NodeAt(tree, path).children)
  BY ValueOfPair
<1>3. PICK h : IsWalk(tree, on, h)
  BY <1>2 DEF Addresses
<1>4. on \in Seq(Nat) /\ Len(on) \in Nat /\ Len(on) >= 1 /\ NodeAt(tree, on) \in Nodes(tree)
  <2>1. on \in Seq(Nat) /\ Len(on) \in Nat /\ NodeAt(tree, on) \in Nodes(tree)
    BY <1>2, AddressOfNode
  <2> QED
    BY <2>1, <1>2
<1>5. h[Len(on)] = NodeAt(tree, on)
  BY <1>3, NodeAtWalk
<1>6. h[Len(on) - 1] = NodeAt(tree, path)
  <2>1. PICK k : k = Len(on) - 1
    OBVIOUS
  <2>2. k \in 0..Len(on) /\ SubSeq(on, 1, k) = path
    BY <2>1, <1>2, <1>4 DEF Front
  <2>3. NodeAt(tree, SubSeq(on, 1, k)) = h[k]
    BY <2>2, <1>3, WalkBegins
  <2> QED
    BY <2>1, <2>2, <2>3
<1>7. ToText(tree, on, h)
  <2>1. on[Len(on)] = Len(h[Len(on) - 1].children)
    BY <1>2, <1>6 DEF Last
  <2> QED
    BY <2>1, <1>3, <1>4, <1>5, <1>6 DEF ToText
<1>8. byte \in Nat /\ h[Len(on)].start <= byte /\ byte < h[Len(on)].end
  <2>1. PICK u, v : u = NodeAt(tree, on).start /\ v = NodeAt(tree, on).end
    OBVIOUS
  <2>2. u \in Nat /\ v \in Nat /\ byte \in u..(v - 1) /\ byte \in Nat
    BY <2>1, <1>1, <1>4 DEF WellFormed
  <2> QED
    BY <2>1, <2>2, <1>5
<1>9. DescendantAt(tree, byte) = on
  BY <1>7, <1>8, TextFound
<1>10. NodeAtOffset(t, tree, c).path = on
  BY <1>1, <1>9 DEF NodeAtOffset
<1>11. RefString(NodeAtOffset(t, tree, c)) = <<on>>
  BY <1>10 DEF RefString
<1>12. <<on>> # <<>> /\ <<on>>[1] = on
  OBVIOUS
<1> QED
  BY <1>2, <1>11, <1>12 DEF FindDefinition

\* A definition is that of a reference around the byte.
LEMMA DefinitionHere ==
    ASSUME NEW S, NEW tree, IsRoot(S, tree), WellFormed(tree), Grammatical(tree),
           NEW t, NEW c, Offset(t, c.at) \in Nat, FindDefinition(t, tree, c) # <<>>
    PROVE  \E path \in Addresses(tree) :
              /\ NodeAt(tree, path).kind = "pair" /\ IsRef(NodeAt(tree, path))
              /\ NodeAt(tree, PairValueAt(tree, path)).kind = "string"
              /\ Offset(t, c.at) \in NodeAt(tree, PairValueAt(tree, path)).start ..
                                        (NodeAt(tree, PairValueAt(tree, path)).end - 1)
<1>1. PICK byte, on : byte = Offset(t, c.at) /\ on = DescendantAt(tree, byte)
  OBVIOUS
<1>2. RefString(NodeAtOffset(t, tree, c)) = <<on>> /\ <<on>> # <<>> /\ <<on>>[1] = on
  BY <1>1 DEF RefString, NodeAtOffset
<1>3. /\ on # <<>> /\ NodeAt(tree, on).kind = "string"
      /\ NodeAt(tree, Front(on)).kind = "pair" /\ IsRef(NodeAt(tree, Front(on)))
      /\ NodeAt(tree, on).tokens[1] \in DOMAIN Fragment
  BY <1>2 DEF FindDefinition
<1>4. on \in Addresses(tree) /\ Around(NodeAt(tree, on), byte)
  <2>1. Len(tree.tokens) + 1 \in 0..(Len(tree.tokens) + 1) /\ Len(tree.tokens) \in Nat
    BY DEF IsRoot
  <2>2. PICK d : Search(tree, byte, d) /\ DescendantAt(tree, byte) = d[Len(tree.tokens) + 1]
    BY <2>1, <1>1, SearchFinds
  <2>3. on \in Reached(tree, byte)
    BY <2>1, <2>2, <1>1 DEF Search
  <2> QED
    BY <2>3, <1>3 DEF Reached
<1>5. PICK path, i, pair : path = Front(on) /\ i = Last(on) /\ pair = NodeAt(tree, path)
  OBVIOUS
<1>6. /\ path \in Addresses(tree) /\ i \in DOMAIN pair.children /\ Append(path, i) = on
      /\ NodeAt(tree, on) = pair.children[i]
  BY <1>3, <1>4, <1>5, AddressBefore
<1>7. pair \in Nodes(tree) /\ pair.kind = "pair"
  BY <1>3, <1>5, <1>6, AddressOfNode
<1>8. i \in {1, Len(pair.children)}
  <2>1. IsValueNode(pair.children[i])
    BY <1>3, <1>6 DEF IsValueNode
  <2> QED
    BY <2>1, <1>6, <1>7 DEF Grammatical
<1>9. i # 1
  <2> SUFFICES ASSUME i = 1 PROVE FALSE
    OBVIOUS
  <2>1. PairKey(pair) = pair.children[1] /\ PairKey(pair).tokens = <<RefKey>>
    BY <1>3, <1>5, <1>7, KeyAndValue DEF IsRef
  <2>2. NodeAt(tree, on).tokens[1] = RefKey
    BY <2>1, <1>6
  <2> QED
    BY <2>2, <1>3, LinksType
<1>10. PairValueAt(tree, path) = on
  BY <1>5, <1>6, <1>8, <1>9 DEF PairValueAt
<1>11. byte \in NodeAt(tree, on).start..(NodeAt(tree, on).end - 1)
  <2>1. PICK node : node = NodeAt(tree, on)
    OBVIOUS
  <2>2. node \in Nodes(tree)
    BY <2>1, <1>4, AddressOfNode
  <2>3. node.start \in Nat /\ node.end \in Nat /\ node.start < node.end
    BY <2>1, <2>2, <1>3 DEF WellFormed, Grammatical
  <2>4. node.start <= byte /\ byte < node.end
    BY <2>1, <2>3, <1>4 DEF Around
  <2>5. node.start <= byte /\ byte <= node.end - 1 /\ byte \in Nat
    BY <2>3, <2>4, <1>1
  <2> QED
    BY <2>1, <2>3, <2>5
<1> QED
  BY <1>1, <1>3, <1>5, <1>6, <1>7, <1>10, <1>11

-----------------------------------------------------------------------------
(* The open document.                                                      *)

\* Every index that occurs in the trees of some texts has a numeral.
AllSpelled(texts) == \A t \in texts : Parse(t) # <<>> => Spelled(Parse(t)[1])

\* Whatever text is open, a path leads where it comes from.
LEMMA PathsLeadAtOnce ==
    ASSUME IsText(text), Parse(text) # <<>> => Spelled(Parse(text)[1])
    PROVE  PathsLead
<1> SUFFICES ASSUME Parse(text) # <<>>, KeysDistinct(Parse(text)[1]),
                    NEW path \in ValuePaths(Parse(text)[1]),
                    JsonPath(Parse(text)[1], path) # <<EmptyString>>,
                    <<SubSeq(path, 1, 1)>> = RootValuePath(Parse(text)[1])
             PROVE  ResolvePointer(Parse(text)[1], JsonPath(Parse(text)[1], path)) = <<path>>
  BY DEF PathsLead
<1>1. PICK tree : tree = Parse(text)[1]
  OBVIOUS
<1>2. WellFormed(tree) /\ Grammatical(tree) /\ Len(tree.tokens) \in Nat
  BY <1>1, TreeOfText
<1>3. Regular(tree)
  BY <1>1, <1>2 DEF Regular
<1>4. /\ path \in ValuePaths(tree) /\ JsonPath(tree, path) # <<EmptyString>>
      /\ <<SubSeq(path, 1, 1)>> = RootValuePath(tree)
  BY <1>1
<1>5. ResolvePointer(tree, JsonPath(tree, path)) = <<path>>
  BY <1>2, <1>3, <1>4, ValueLeads
<1> QED
  BY <1>1, <1>5

\* Whatever the document holds, wherever its values are and whatever the parser has
\* recovered from, the path that json_path shows for a value is resolved to that value.
THEOREM PathsOfTexts ==
    ASSUME NEW texts, texts \subseteq Seq(Tokens), AllSpelled(texts)
    PROVE  Edits(texts) => []PathsLead
<1> DEFINE Opened == text \in texts
<1>1. Edits(texts) => []Opened
  <2>1. Opened /\ [text' \in texts]_text => Opened'
    OBVIOUS
  <2> QED
    BY <2>1, PTL DEF Edits
<1>2. Opened => PathsLead
  <2> SUFFICES ASSUME Opened PROVE PathsLead
    OBVIOUS
  <2>1. IsText(text)
    BY DEF IsText
  <2>2. Parse(text) # <<>> => Spelled(Parse(text)[1])
    BY DEF AllSpelled
  <2> QED
    BY <2>1, <2>2, PathsLeadAtOnce
<1> QED
  BY <1>1, <1>2, PTL

\* In particular for all texts, if every index has a numeral, as to_string gives one.
THEOREM PathsOfEveryText ==
    ASSUME DOMAIN Numeral = Nat
    PROVE  Edits(Seq(Tokens)) => []PathsLead
<1>1. ASSUME NEW t \in Seq(Tokens), Parse(t) # <<>> PROVE Spelled(Parse(t)[1])
  <2>1. PICK tree : tree = Parse(t)[1]
    OBVIOUS
  <2>2. WellFormed(tree)
    BY <1>1, <2>1, TreeOfText DEF IsText
  <2>3. ASSUME NEW node \in Nodes(tree), NEW i \in DOMAIN node.children
        PROVE  IndexOf(node, i) \in Nat
    <3>1. Len(node.children) \in Nat /\ node.children \in Seq(Nodes(tree))
      BY <2>2, ChildIsNode
    <3>2. i \in Nat
      BY <3>1
    <3>3. IsFiniteSet(1..(i - 1))
      BY <3>2, FS_Interval
    <3>4. IsFiniteSet({j \in 1..(i - 1) : IsValueNode(node.children[j])})
      BY <3>3, FS_Subset
    <3> QED
      BY <3>4, FS_CardinalityType DEF IndexOf
  <2> QED
    BY <2>1, <2>3 DEF Spelled
<1>2. AllSpelled(Seq(Tokens))
  BY <1>1 DEF AllSpelled
<1> QED
  BY <1>2, PathsOfTexts

\* Whatever text is open, go-to-definition finds what the links show.
LEMMA DefinitionsFoundAtOnce ==
    ASSUME IsText(text)
    PROVE  DefinitionsFound
<1> SUFFICES ASSUME Parse(text) # <<>> PROVE DefinitionsFound
  BY DEF DefinitionsFound
<1> DEFINE links(tree) == {link \in DocumentLinks(tree) : link.toDefinition}
<1> DEFINE On(tree, c) == {link \in links(tree) : LET node == NodeAt(tree, link.on)
                                       IN  Offset(text, c.at) \in node.start..(node.end - 1)}
<1> DEFINE Target(tree, link) ==
       LET val == NodeAt(tree, link.on).tokens[1]
       IN  IF val \in DOMAIN Fragment THEN ResolvePointer(tree, Fragment[val]) ELSE <<>>
<1>1. PICK tree : tree = Parse(text)[1]
  OBVIOUS
<1>2. PICK S : IsRoot(S, tree)
  BY <1>1, ParsedRoot
<1>3. WellFormed(tree) /\ Grammatical(tree) /\ Len(tree.tokens) \in Nat
  BY <1>1, TreeOfText
<1>4. Paths(tree) = Addresses(tree)
  <2>1. Paths(tree) \subseteq Addresses(tree)
    BY <1>3, PathsAreAddresses
  <2>2. Addresses(tree) \subseteq Paths(tree)
    BY <1>2, <1>3, AddressesArePaths
  <2> QED
    BY <2>1, <2>2
<1>5. ASSUME NEW c \in Cursors(text) PROVE Offset(text, c.at) \in Nat
  <2>1. Len(text) \in Nat /\ DOMAIN text = 1..Len(text)
    BY LenProperties DEF IsText
  <2>2. c.at \in Nat \ {0}
    BY <2>1 DEF Cursors
  <2> QED
    BY <2>2, NextOffset
<1>6. ASSUME NEW c \in Cursors(text), NEW link \in On(tree, c)
      PROVE  FindDefinition(text, tree, c) = Target(tree, link)
  <2>1. link \in DocumentLinks(tree) /\ link.toDefinition
    OBVIOUS
  <2>2. PICK path \in Paths(tree) :
           /\ NodeAt(tree, path).kind = "pair" /\ IsLink(NodeAt(tree, path))
           /\ link.on = PairValueAt(tree, path)
           /\ link.toDefinition = IsRef(NodeAt(tree, path))
    <3>1. PICK path \in Paths(tree) :
             /\ NodeAt(tree, path).kind = "pair" /\ IsLink(NodeAt(tree, path))
             /\ link = [on           |-> PairValueAt(tree, path),
                        toDefinition |-> IsRef(NodeAt(tree, path)),
                        url          |-> PairValue(NodeAt(tree, path)).tokens[1] \in Urls]
      BY <2>1, Zenon DEF DocumentLinks
    <3>2. link.on = PairValueAt(tree, path) /\ link.toDefinition = IsRef(NodeAt(tree, path))
      BY <3>1
    <3> QED
      BY <3>1, <3>2
  <2>3. NodeAt(tree, link.on).kind = "string"
    BY <2>2, <1>3, <1>4, ValueOfPair DEF IsLink
  <2>4. Offset(text, c.at) \in NodeAt(tree, link.on).start..(NodeAt(tree, link.on).end - 1)
    OBVIOUS
  <2>5. path \in Addresses(tree) /\ IsRef(NodeAt(tree, path)) /\ Offset(text, c.at) \in Nat
    BY <2>1, <2>2, <1>4, <1>5
  <2>6. PICK on : on = link.on
    OBVIOUS
  <2> HIDE DEF On
  <2> QED
    BY <2>2, <2>3, <2>4, <2>5, <2>6, <1>2, <1>3, DefinitionThere
<1>7. ASSUME NEW c \in Cursors(text), On(tree, c) = {}
      PROVE  FindDefinition(text, tree, c) = <<>>
  <2> SUFFICES ASSUME FindDefinition(text, tree, c) # <<>> PROVE FALSE
    OBVIOUS
  <2>1. PICK path \in Addresses(tree) :
           /\ NodeAt(tree, path).kind = "pair" /\ IsRef(NodeAt(tree, path))
           /\ NodeAt(tree, PairValueAt(tree, path)).kind = "string"
           /\ Offset(text, c.at) \in NodeAt(tree, PairValueAt(tree, path)).start ..
                                        (NodeAt(tree, PairValueAt(tree, path)).end - 1)
    BY <1>2, <1>3, <1>5, DefinitionHere
  <2>2. IsLink(NodeAt(tree, path))
    BY <2>1, <1>3, ValueOfPair DEF IsLink
  <2>3. PICK link : link = [on           |-> PairValueAt(tree, path),
                            toDefinition |-> IsRef(NodeAt(tree, path)),
                            url          |-> PairValue(NodeAt(tree, path)).tokens[1] \in Urls]
    OBVIOUS
  <2>4. link \in DocumentLinks(tree)
    BY <2>1, <2>2, <2>3, <1>4 DEF DocumentLinks
  <2>5. link.on = PairValueAt(tree, path) /\ link.toDefinition
    BY <2>1, <2>3
  <2>6. link \in On(tree, c)
    BY <2>1, <2>4, <2>5
  <2> QED
    BY <2>6, <1>7
<1>8. \A c \in Cursors(text) :
         /\ On(tree, c) = {} => FindDefinition(text, tree, c) = <<>>
         /\ \A link \in On(tree, c) : FindDefinition(text, tree, c) = Target(tree, link)
  BY <1>6, <1>7
<1> QED
  BY <1>1, <1>8 DEF DefinitionsFound

\* From the quotes of a reference and from every byte between them, whatever the document
\* holds and wherever the parser has recovered, find_definition finds what resolve_pointer
\* makes of the pointer, and nothing where collect_links shows no link.
THEOREM DefinitionsOfEveryText ==
    Edits(Seq(Tokens)) => []DefinitionsFound
<1>1. IsText(text) /\ [text' \in Seq(Tokens)]_text => IsText(text)'
  BY DEF IsText
<1>2. Edits(Seq(Tokens)) => []IsText(text)
  BY <1>1, PTL DEF Edits, IsText
<1>3. IsText(text) => DefinitionsFound
  BY DefinitionsFoundAtOnce
<1> QED
  BY <1>2, <1>3, PTL
=============================================================================
