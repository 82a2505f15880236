--------------------------- MODULE FormattingProofs --------------------------
(***************************************************************************)
(* Formatting keeps what a text says, whatever the text is.                *)
(*                                                                         *)
(* A text without syntax errors is parsed to nodes that read as their      *)
(* members do, with brackets around them and commas between them; that     *)
(* holds of the unfinished nodes after each token (Tidied), and so of the  *)
(* tree.  The formatter writes these members with white space between      *)
(* them, whatever their depth, which is an induction on the nodes of the   *)
(* tree, from the innermost on.                                            *)
(***************************************************************************)
EXTENDS TreeProofs, FormattedText, TLAPS

-----------------------------------------------------------------------------
(* Sequences of sequences.                                                 *)

\* The results of FlattenSeq on the way.
Flattens(ss, f) == \A i \in 1..Len(ss) : f[i] = IF i = 1 THEN ss[i] ELSE f[i - 1] \o ss[i]

\* There are such results, and they are sequences.
LEMMA FlattenSteps ==
    ASSUME NEW V, NEW ss \in Seq(Seq(V)), ss # <<>>
    PROVE  \E f : /\ Flattens(ss, f) /\ FlattenSeq(ss) = f[Len(ss)]
                  /\ \A i \in 1..Len(ss) : f[i] \in Seq(V)
<1> DEFINE n == Len(ss)
<1> DEFINE T == Seq(V)
<1>1. n \in Nat /\ n >= 1 /\ \A i \in 1..n : ss[i] \in T
  <2>1. PICK Q : Q = T
    OBVIOUS
  <2>2. ss \in Seq(Q)
    BY <2>1
  <2>3. n \in Nat /\ n >= 1 /\ \A i \in 1..n : ss[i] \in Q
    BY <2>2
  <2> QED
    BY <2>1, <2>3
<1>2. \A v, w \in T : v \o w \in T
  BY ConcatProperties
<1>3. <<>> \in T /\ \A v \in T : <<>> \o v = v
  BY ConcatEmptySeq, EmptySeq
<1> HIDE DEF n, T
<1> DEFINE step == [p \in (1..n) \X T |-> p[2] \o ss[p[1]]]
<1>4. step \in Steps(n, T)
  <2> SUFFICES ASSUME NEW p \in (1..n) \X T PROVE p[2] \o ss[p[1]] \in T
    BY DEF Steps
  <2> QED
    BY <1>1, <1>2
<1>5. \A i \in 1..n : \A v \in T : step[<<i, v>>] = v \o ss[i]
  OBVIOUS
<1> HIDE DEF step
<1>6. PICK h : h \in [0..n -> T] /\ After(n, <<>>, step, h)
  BY <1>1, <1>3, <1>4, StepsExist
<1>7. h[0] = <<>> /\ \A i \in 1..n : h[i] = h[i - 1] \o ss[i] /\ h[i] \in T
  <2>1. h[0] = <<>>
    <3>1. 0 \in 0..n
      BY <1>1
    <3> QED
      BY <3>1, <1>6 DEF After
  <2>2. ASSUME NEW i \in 1..n PROVE h[i] = h[i - 1] \o ss[i] /\ h[i] \in T
    <3>1. i \in 0..n /\ i - 1 \in 0..n /\ i # 0
      BY <1>1
    <3>2. h[i] = step[<<i, h[i - 1]>>]
      BY <3>1, <1>6 DEF After
    <3> QED
      BY <3>1, <3>2, <1>5, <1>6
  <2> QED
    BY <2>1, <2>2
<1> DEFINE Eq(f) == f = [i \in 1..n |-> IF i = 1 THEN ss[i] ELSE f[i - 1] \o ss[i]]
<1> DEFINE g == [i \in 1..n |-> h[i]]
<1>8. Eq(g)
  <2>1. ASSUME NEW i \in 1..n PROVE h[i] = IF i = 1 THEN ss[i] ELSE g[i - 1] \o ss[i]
    <3>1. CASE i = 1
      <4>1. h[1] = h[1 - 1] \o ss[1] /\ 1 - 1 = 0 /\ <<>> \o ss[1] = ss[1]
        <5>1. 1 \in 1..n
          BY <1>1
        <5>2. h[1] = h[1 - 1] \o ss[1] /\ ss[1] \in T
          BY <5>1, <1>1, <1>7
        <5> QED
          BY <5>2, <1>3
      <4>2. h[1] = ss[1]
        BY <4>1, <1>7
      <4> QED
        BY <4>2, <3>1
    <3>2. CASE i # 1
      <4>1. i - 1 \in 1..n
        BY <3>2, <1>1
      <4> QED
        BY <4>1, <3>2, <1>7
    <3> QED
      BY <3>1, <3>2
  <2> QED
    BY <2>1
<1> DEFINE f == CHOOSE x : Eq(x)
<1>9. Eq(f)
  BY <1>8
<1>10. FlattenSeq(ss) = f[n]
  BY <1>1 DEF FlattenSeq, n
<1> HIDE DEF f
<1>11. \A i \in 1..n : f[i] = IF i = 1 THEN ss[i] ELSE f[i - 1] \o ss[i]
  BY <1>9
<1>12. \A i \in 1..n : f[i] \in T
  <2> DEFINE Bad == {i \in 1..n : f[i] \notin T}
  <2> SUFFICES ASSUME Bad # {} PROVE FALSE
    OBVIOUS
  <2>1. PICK i \in Bad : \A k \in Bad : i <= k
    <3>1. Bad \in SUBSET Nat
      BY <1>1
    <3> HIDE DEF Bad
    <3> QED
      BY <3>1, LeastNatural
  <2>2. i \in 1..n /\ f[i] \notin T
    BY <2>1
  <2>3. i # 1
    BY <2>2, <1>1, <1>11
  <2>4. i - 1 \in 1..n /\ ~(i <= i - 1)
    BY <2>2, <2>3, <1>1
  <2>5. f[i - 1] \in T
    BY <2>1, <2>4
  <2> QED
    BY <2>2, <2>3, <2>5, <1>1, <1>2, <1>11
<1> QED
  BY <1>10, <1>11, <1>12 DEF Flattens, n, T

\* They do not depend on what follows.
LEMMA FlattenAgree ==
    ASSUME NEW ss, NEW tt, NEW f, NEW g, Flattens(ss, f), Flattens(tt, g),
           Len(ss) \in Nat, Len(tt) \in Nat, Len(ss) <= Len(tt),
           \A i \in 1..Len(ss) : ss[i] = tt[i]
    PROVE  \A i \in 1..Len(ss) : f[i] = g[i]
<1> DEFINE Bad == {i \in 1..Len(ss) : f[i] # g[i]}
<1> SUFFICES ASSUME Bad # {} PROVE FALSE
  OBVIOUS
<1>1. PICK i \in Bad : \A k \in Bad : i <= k
  <2>1. Bad \in SUBSET Nat
    OBVIOUS
  <2> HIDE DEF Bad
  <2> QED
    BY <2>1, LeastNatural
<1>2. i \in 1..Len(ss) /\ i \in 1..Len(tt) /\ f[i] # g[i]
  BY <1>1
<1>3. i # 1
  BY <1>2 DEF Flattens
<1>4. i - 1 \in 1..Len(ss) /\ ~(i <= i - 1)
  BY <1>2, <1>3
<1>5. f[i - 1] = g[i - 1]
  BY <1>1, <1>4
<1> QED
  BY <1>2, <1>3, <1>5 DEF Flattens

\* A sequence of sequences, flattened from the front.
LEMMA FlattenMore ==
    ASSUME NEW V, NEW ss \in Seq(Seq(V)), NEW x \in Seq(V)
    PROVE  /\ FlattenSeq(<<>>) = <<>> /\ FlattenSeq(ss) \in Seq(V)
           /\ FlattenSeq(Append(ss, x)) = FlattenSeq(ss) \o x
<1> DEFINE n == Len(ss)
<1> DEFINE tt == Append(ss, x)
<1>1. FlattenSeq(<<>>) = <<>>
  BY DEF FlattenSeq
<1>2. /\ n \in Nat /\ tt \in Seq(Seq(V)) /\ Len(tt) = n + 1 /\ tt[n + 1] = x /\ tt # <<>>
      /\ \A i \in 1..n : tt[i] = ss[i]
      /\ ss # <<>> => n >= 1
  <2>1. PICK Q : Q = Seq(V)
    OBVIOUS
  <2>2. ss \in Seq(Q) /\ x \in Q
    BY <2>1
  <2>3. n \in Nat /\ (ss # <<>> => n >= 1)
    BY <2>2
  <2>4. /\ tt \in Seq(Q) /\ Len(tt) = n + 1 /\ tt[n + 1] = x
        /\ \A i \in 1..n : tt[i] = ss[i]
    BY <2>2, AppendProperties
  <2>5. tt # <<>>
    <3>1. PICK t : t = tt
      OBVIOUS
    <3>2. Len(t) # 0
      BY <2>3, <2>4, <3>1
    <3>3. t # <<>>
      BY <3>2
    <3> QED
      BY <3>1, <3>3
  <2> QED
    BY <2>1, <2>3, <2>4, <2>5
<1> HIDE DEF tt
<1>3. PICK g : Flattens(tt, g) /\ FlattenSeq(tt) = g[n + 1]
  BY <1>2, FlattenSteps
<1>4. CASE ss = <<>>
  <2>1. n = 0 /\ FlattenSeq(ss) = <<>>
    BY <1>1, <1>4
  <2>2. g[1] = x
    BY <2>1, <1>2, <1>3 DEF Flattens
  <2>3. <<>> \o x = x /\ <<>> \in Seq(V)
    BY ConcatEmptySeq, EmptySeq
  <2> QED
    BY <2>1, <2>2, <2>3, <1>1, <1>3 DEF tt
<1>5. CASE ss # <<>>
  <2>1. PICK f : /\ Flattens(ss, f) /\ FlattenSeq(ss) = f[n]
                 /\ \A i \in 1..n : f[i] \in Seq(V)
    BY <1>5, FlattenSteps
  <2>2. n \in 1..n /\ n <= n + 1 /\ n + 1 \in 1..(n + 1) /\ n + 1 # 1 /\ (n + 1) - 1 = n
    BY <1>2, <1>5
  <2>3. f[n] = g[n]
    <3>1. \A i \in 1..n : ss[i] = tt[i]
      BY <1>2
    <3>2. \A i \in 1..Len(ss) : f[i] = g[i]
      <4> HIDE DEF n
      <4>1. Len(ss) = n
        BY DEF n
      <4>2. Len(ss) \in Nat /\ Len(tt) \in Nat /\ Len(ss) <= Len(tt)
        BY <4>1, <1>2
      <4> QED
        <5>1. \A i \in 1..Len(ss) : ss[i] = tt[i]
          BY <4>1, <3>1
        <5>2. Flattens(ss, f) /\ Flattens(tt, g)
          BY <2>1, <1>3
        <5> QED
          BY SMTT(20), <4>2, <5>1, <5>2, FlattenAgree
    <3> QED
      BY <3>2, <2>2
  <2>4. g[n + 1] = g[n] \o x
    BY <2>2, <1>2, <1>3 DEF Flattens
  <2> QED
    BY <2>1, <2>2, <2>3, <2>4, <1>1, <1>3 DEF tt
<1> QED
  BY <1>4, <1>5

-----------------------------------------------------------------------------
\* A sequence that is not empty ends with its last element.
LEMMA FrontLast ==
    ASSUME NEW V, NEW s \in Seq(V), s # <<>>
    PROVE  /\ Front(s) \in Seq(V) /\ Last(s) \in V /\ Last(s) = s[Len(s)]
           /\ Len(s) \in Nat /\ Len(s) >= 1 /\ Len(Front(s)) = Len(s) - 1
           /\ \A i \in 1..(Len(s) - 1) : Front(s)[i] = s[i]
           /\ s = Append(Front(s), Last(s))
<1>1. Len(s) \in Nat /\ Len(s) >= 1 /\ Last(s) = s[Len(s)] /\ Last(s) \in V
  BY DEF Last
<1>2. PICK m : m = Len(s) - 1
  OBVIOUS
<1>3. /\ SubSeq(s, 1, m) \in Seq(V) /\ Len(SubSeq(s, 1, m)) = m
      /\ \A j \in 1..m : SubSeq(s, 1, m)[j] = s[j]
  BY <1>1, <1>2
<1>4. Front(s) = SubSeq(s, 1, m)
  BY <1>2 DEF Front
<1>5. PICK t : t = Front(s)
  OBVIOUS
<1>6. t \in Seq(V) /\ Len(t) = m /\ \A j \in 1..m : t[j] = s[j]
  BY <1>3, <1>4, <1>5
<1>7. PICK x : x = Last(s)
  OBVIOUS
<1>8. /\ Append(t, x) \in Seq(V) /\ Len(Append(t, x)) = Len(s)
      /\ \A i \in 1..Len(s) : Append(t, x)[i] = s[i]
  BY <1>1, <1>2, <1>6, <1>7
<1>9. Append(t, x) = s
  BY <1>8, SeqEqual
<1> QED
  BY <1>1, <1>2, <1>5, <1>6, <1>7, <1>9

\* The elements that are in a set.
Sifted(s, S) == FlattenSeq([i \in DOMAIN s |-> IF s[i] \in S THEN <<s[i]>> ELSE <<>>])

\* None of nothing.
LEMMA SiftedEmpty ==
    ASSUME NEW S
    PROVE  Sifted(<<>>, S) = <<>> /\ FlattenSeq(<<>>) = <<>>
<1>1. FlattenSeq(<<>>) = <<>>
  BY DEF FlattenSeq
<1>2. [i \in DOMAIN <<>> |-> IF <<>>[i] \in S THEN <<<<>>[i]>> ELSE <<>>] = <<>>
  OBVIOUS
<1> QED
  BY <1>1, <1>2 DEF Sifted

\* One more element is one more that is sifted out, or none.
LEMMA SiftedMore ==
    ASSUME NEW V, NEW S, NEW s \in Seq(V), NEW x \in V
    PROVE  /\ Sifted(s, S) \in Seq(V)
           /\ x \in S => Sifted(Append(s, x), S) = Append(Sifted(s, S), x)
           /\ x \notin S => Sifted(Append(s, x), S) = Sifted(s, S)
<1> DEFINE One(e) == IF e \in S THEN <<e>> ELSE <<>>
<1> DEFINE m(q) == [i \in DOMAIN q |-> One(q[i])]
<1>0. \A e \in V : One(e) \in Seq(V)
  OBVIOUS
<1>1. \A q \in Seq(V) : m(q) \in Seq(Seq(V)) /\ Len(m(q)) = Len(q)
                        /\ \A i \in 1..Len(q) : m(q)[i] = One(q[i])
  <2> TAKE q \in Seq(V)
  <2>1. Len(q) \in Nat /\ DOMAIN q = 1..Len(q) /\ \A i \in 1..Len(q) : q[i] \in V
    OBVIOUS
  <2>2. PICK Q : Q = Seq(V)
    OBVIOUS
  <2>3. \A i \in 1..Len(q) : One(q[i]) \in Q
    BY <2>1, <2>2, <1>0
  <2> HIDE DEF One
  <2>4. m(q) = [i \in 1..Len(q) |-> One(q[i])]
    BY <2>1
  <2>5. m(q) \in Seq(Q) /\ Len(m(q)) = Len(q)
    BY <2>1, <2>3, <2>4
  <2> QED
    BY <2>2, <2>4, <2>5
<1>2. \A q : Sifted(q, S) = FlattenSeq(m(q))
  BY DEF Sifted
<1>3. m(<<>>) = <<>>
  OBVIOUS
<1>4. m(Append(s, x)) = Append(m(s), One(x))
  <2>1. PICK t : t = Append(s, x)
    OBVIOUS
  <2>2. /\ t \in Seq(V) /\ Len(t) = Len(s) + 1 /\ Len(s) \in Nat /\ t[Len(s) + 1] = x
        /\ \A i \in 1..Len(s) : t[i] = s[i]
    BY <2>1
  <2>3. PICK a, b, o, Q : a = m(t) /\ b = m(s) /\ o = One(x) /\ Q = Seq(V)
    OBVIOUS
  <2>4. /\ a \in Seq(Q) /\ Len(a) = Len(t) /\ \A i \in 1..Len(t) : a[i] = One(t[i])
        /\ b \in Seq(Q) /\ Len(b) = Len(s) /\ \A i \in 1..Len(s) : b[i] = One(s[i])
        /\ o \in Q
    BY <2>2, <2>3, <1>0, <1>1
  <2> HIDE DEF One, m
  <2>5. /\ Append(b, o) \in Seq(Q) /\ Len(Append(b, o)) = Len(a)
        /\ \A i \in 1..Len(a) : a[i] = Append(b, o)[i]
    BY <2>2, <2>3, <2>4
  <2>6. a = Append(b, o)
    BY <2>4, <2>5, SeqEqual
  <2> QED
    BY <2>1, <2>3, <2>6
<1> HIDE DEF m
<1>5. FlattenSeq(Append(m(s), One(x))) = FlattenSeq(m(s)) \o One(x) /\ FlattenSeq(m(s)) \in Seq(V)
      /\ FlattenSeq(<<>>) = <<>>
  BY <1>0, <1>1, FlattenMore
<1>6. PICK r : r = Sifted(s, S)
  OBVIOUS
<1>7. r \in Seq(V) /\ Sifted(Append(s, x), S) = r \o One(x) /\ Sifted(<<>>, S) = <<>>
  BY <1>2, <1>3, <1>4, <1>5, <1>6
<1>8. r \o <<>> = r /\ r \o <<x>> = Append(r, x)
  BY <1>7
<1> QED
  BY <1>6, <1>7, <1>8

\* Whatever holds of no sequence that is shorter by one fails nowhere: the least length.
LEMMA ShortestFails ==
    ASSUME NEW V, NEW Bad \in SUBSET Seq(V), Bad # {}
    PROVE  \E s \in Bad : s = <<>> \/ (s # <<>> /\ Front(s) \notin Bad)
<1> DEFINE T == {Len(s) : s \in Bad}
<1>1. T \in SUBSET Nat /\ T # {}
  <2>1. \A s \in Bad : Len(s) \in Nat
    BY LenProperties
  <2> QED
    BY <2>1
<1>2. PICK k \in T : \A j \in T : k <= j
  BY <1>1, LeastNatural
<1>3. PICK s \in Bad : Len(s) = k
  BY <1>2
<1>4. s \in Seq(V)
  OBVIOUS
<1>5. CASE s # <<>>
  <2>1. Front(s) \in Seq(V) /\ Len(Front(s)) = Len(s) - 1 /\ Len(s) \in Nat
    BY <1>4, <1>5, FrontLast
  <2>2. Len(Front(s)) \notin T
    <3>1. ~(k <= Len(Front(s)))
      BY <2>1, <1>3
    <3> QED
      BY <3>1, <1>2
  <2> QED
    BY <2>2, <1>5
<1> QED
  BY <1>5

\* Joining and appending.
LEMMA JoinMore ==
    ASSUME NEW V, NEW s \in Seq(V), NEW t \in Seq(V), NEW x \in V
    PROVE  s \o Append(t, x) = Append(s \o t, x)
OBVIOUS

\* Of two parts, the elements in a set are those of the first and then those of the
\* second one.
LEMMA SiftedJoined ==
    ASSUME NEW V, NEW s \in Seq(V), NEW t \in Seq(V), NEW S
    PROVE  Sifted(s \o t, S) = Sifted(s, S) \o Sifted(t, S)
<1>9. ASSUME NEW p \in Seq(V), NEW q \in Seq(V), NEW e \in V
      PROVE  p \o Append(q, e) = Append(p \o q, e)
  BY JoinMore
<1> DEFINE Bad == {u \in Seq(V) : Sifted(s \o u, S) # Sifted(s, S) \o Sifted(u, S)}
<1> SUFFICES ASSUME Bad # {} PROVE FALSE
  OBVIOUS
<1>1. PICK u \in Bad : u = <<>> \/ (u # <<>> /\ Front(u) \notin Bad)
  <2>1. Bad \in SUBSET Seq(V)
    OBVIOUS
  <2> HIDE DEF Bad
  <2> QED
    BY <2>1, ShortestFails
<1>2. u \in Seq(V) /\ Sifted(s \o u, S) # Sifted(s, S) \o Sifted(u, S)
  OBVIOUS
<1>3. PICK a : a = Sifted(s, S)
  OBVIOUS
<1>10. \A f \in Seq(V) : f \notin Bad => Sifted(s \o f, S) = Sifted(s, S) \o Sifted(f, S)
  OBVIOUS
<1> HIDE DEF Bad
<1>4. a \in Seq(V)
  <2>1. CASE V = {}
    <3>1. s = <<>>
      BY <2>1
    <3> QED
      BY <3>1, <1>3, SiftedEmpty
  <2>2. ASSUME NEW x \in V PROVE a \in Seq(V)
    BY <1>3, SiftedMore
  <2> QED
    BY <2>1, <2>2
<1>5. CASE u = <<>>
  <2>1. Sifted(<<>>, S) = <<>>
    BY SiftedEmpty
  <2>2. s \o u = s /\ a \o <<>> = a
    BY <1>4, <1>5
  <2> QED
    BY <2>1, <2>2, <1>2, <1>3, <1>5
<1>6. CASE u # <<>>
  <2>1. PICK f, x : f = Front(u) /\ x = Last(u)
    OBVIOUS
  <2>2. f \in Seq(V) /\ x \in V /\ u = Append(f, x)
    BY <2>1, <1>2, <1>6, FrontLast
  <2>3. f \notin Bad
    BY <2>1, <1>1, <1>6
  <2>4. PICK b : b = Sifted(f, S)
    OBVIOUS
  <2>5. b \in Seq(V) /\ Sifted(u, S) = IF x \in S THEN Append(b, x) ELSE b
    <3>1. f \in Seq(V) /\ x \in V
      BY <2>2
    <3>2. /\ Sifted(f, S) \in Seq(V)
          /\ Sifted(Append(f, x), S) = IF x \in S THEN Append(Sifted(f, S), x) ELSE Sifted(f, S)
      BY <3>1, SiftedMore
    <3> QED
      BY <3>2, <2>2, <2>4
  <2>6. Sifted(s \o f, S) = a \o b
    BY <2>2, <2>3, <2>4, <1>3, <1>10
  <2>7. s \o u = Append(s \o f, x) /\ s \o f \in Seq(V)
    <3>1. f \in Seq(V) /\ x \in V
      BY <2>2
    <3>2. s \o Append(f, x) = Append(s \o f, x)
      BY <3>1, <1>4, <1>9
    <3>3. s \o f \in Seq(V)
      BY <3>1, ConcatProperties
    <3> QED
      BY <3>2, <3>3, <2>2
  <2>8. Sifted(s \o u, S) = IF x \in S THEN Append(a \o b, x) ELSE a \o b
    <3>1. PICK p : p = s \o f
      OBVIOUS
    <3>2. p \in Seq(V) /\ x \in V
      BY <3>1, <2>2, <2>7
    <3>3. /\ x \in S => Sifted(Append(p, x), S) = Append(Sifted(p, S), x)
          /\ x \notin S => Sifted(Append(p, x), S) = Sifted(p, S)
      BY <3>2, SiftedMore
    <3>4. s \o u = Append(p, x) /\ Sifted(p, S) = a \o b
      BY <3>1, <2>6, <2>7
    <3> QED
      BY <3>3, <3>4
  <2>9. a \o Append(b, x) = Append(a \o b, x)
    <3>1. a \in Seq(V) /\ b \in Seq(V) /\ x \in V
      BY <2>2, <2>5, <1>4
    <3> QED
      BY <3>1, <1>4, <1>9
  <2> QED
    BY <2>5, <2>8, <2>9, <1>2, <1>3
<1> QED
  BY <1>5, <1>6

\* The elements chosen are elements of the sequence and of the set.
LEMMA SiftedFrom ==
    ASSUME NEW V, NEW s \in Seq(V), NEW S
    PROVE  /\ Sifted(s, S) \in Seq(V) /\ Len(Sifted(s, S)) \in Nat
           /\ \A i \in 1..Len(Sifted(s, S)) :
                 \E j \in 1..Len(s) : Sifted(s, S)[i] = s[j] /\ s[j] \in S
<1> DEFINE From(u) == \A i \in 1..Len(Sifted(u, S)) :
                          \E j \in 1..Len(u) : Sifted(u, S)[i] = u[j] /\ u[j] \in S
<1> DEFINE Good(u) == Sifted(u, S) \in Seq(V) /\ Len(Sifted(u, S)) \in Nat /\ From(u)
<1> DEFINE Bad == {u \in Seq(V) : ~Good(u)}
<1> SUFFICES ASSUME Bad # {} PROVE FALSE
  OBVIOUS
<1>1. PICK u \in Bad : u = <<>> \/ (u # <<>> /\ Front(u) \notin Bad)
  <2>1. Bad \in SUBSET Seq(V)
    OBVIOUS
  <2> HIDE DEF Bad
  <2> QED
    BY <2>1, ShortestFails
<1>2. u \in Seq(V) /\ ~Good(u)
  BY <1>1
<1>3. CASE u = <<>>
  <2>1. Sifted(u, S) = <<>>
    BY <1>3, SiftedEmpty
  <2> QED
    BY <2>1, <1>2, <1>3
<1>4. CASE u # <<>>
  <2>1. PICK f, x : f = Front(u) /\ x = Last(u)
    OBVIOUS
  <2>2. /\ f \in Seq(V) /\ x \in V /\ u = Append(f, x)
        /\ Len(f) = Len(u) - 1 /\ Len(u) \in Nat /\ Len(u) >= 1 /\ x = u[Len(u)]
        /\ \A i \in 1..(Len(u) - 1) : f[i] = u[i]
    BY <2>1, <1>2, <1>4, FrontLast
  <2>3. Good(f)
    BY <2>1, <2>2, <1>1, <1>4
  <2>4. PICK b, c : b = Sifted(f, S) /\ c = Sifted(u, S)
    OBVIOUS
  <2>5. b \in Seq(V) /\ c = IF x \in S THEN Append(b, x) ELSE b
    <3>1. f \in Seq(V) /\ x \in V
      BY <2>2
    <3>2. /\ Sifted(f, S) \in Seq(V)
          /\ Sifted(Append(f, x), S) = IF x \in S THEN Append(Sifted(f, S), x) ELSE Sifted(f, S)
      BY <3>1, SiftedMore
    <3> QED
      BY <3>2, <2>2, <2>4
  <2>6. ASSUME NEW i \in 1..Len(b) PROVE \E j \in 1..Len(u) : b[i] = u[j] /\ u[j] \in S
    <3>1. PICK j \in 1..Len(f) : b[i] = f[j] /\ f[j] \in S
      BY <2>3, <2>4
    <3>2. j \in 1..Len(u) /\ f[j] = u[j]
      BY <2>2
    <3> QED
      BY <3>1, <3>2
  <2>7. CASE x \notin S
    BY <2>4, <2>5, <2>6, <2>7, <1>2
  <2>8. CASE x \in S
    <3>1. /\ c \in Seq(V) /\ Len(c) = Len(b) + 1 /\ c[Len(b) + 1] = x /\ Len(b) \in Nat
          /\ \A i \in 1..Len(b) : c[i] = b[i]
      BY <2>2, <2>5, <2>8, AppendProperties
    <3>2. ASSUME NEW i \in 1..Len(c) PROVE \E j \in 1..Len(u) : c[i] = u[j] /\ u[j] \in S
      <4>1. CASE i \in 1..Len(b)
        BY <4>1, <3>1, <2>6
      <4>2. CASE i = Len(b) + 1
        <5>1. Len(u) \in 1..Len(u)
          BY <2>2
        <5> QED
          BY <5>1, <4>2, <3>1, <2>2, <2>8
      <4> QED
        BY <4>1, <4>2, <3>1
    <3> QED
      BY SMTT(20), <3>1, <3>2, <2>4, <1>2
  <2> QED
    BY <2>7, <2>8
<1> QED
  BY <1>3, <1>4

\* Of the parts of a sequence, the elements in a set part by part.
LEMMA SiftedParts ==
    ASSUME NEW V, NEW ss \in Seq(Seq(V)), NEW S
    PROVE  Sifted(FlattenSeq(ss), S) = FlattenSeq([i \in DOMAIN ss |-> Sifted(ss[i], S)])
<1> DEFINE m(q) == [i \in DOMAIN q |-> Sifted(q[i], S)]
<1> DEFINE W == Seq(V)
<1>1. ASSUME NEW q \in Seq(W)
      PROVE  m(q) \in Seq(W) /\ Len(m(q)) = Len(q) /\ \A i \in 1..Len(q) : m(q)[i] = Sifted(q[i], S)
  <2> HIDE DEF W
  <2>1. Len(q) \in Nat /\ DOMAIN q = 1..Len(q) /\ \A i \in 1..Len(q) : q[i] \in W
    OBVIOUS
  <2>2. \A i \in 1..Len(q) : Sifted(q[i], S) \in W
    BY <2>1, SiftedFrom DEF W
  <2>3. m(q) = [i \in 1..Len(q) |-> Sifted(q[i], S)]
    BY <2>1
  <2>4. m(q) \in Seq(W) /\ Len(m(q)) = Len(q)
    BY <2>1, <2>2, <2>3
  <2> QED
    BY <2>3, <2>4
<1> DEFINE Bad == {q \in Seq(W) : Sifted(FlattenSeq(q), S) # FlattenSeq(m(q))}
<1>0. ss \in Seq(W)
  OBVIOUS
<1> HIDE DEF W
<1> SUFFICES ASSUME Bad # {} PROVE FALSE
  BY <1>0
<1>2. PICK q \in Bad : q = <<>> \/ (q # <<>> /\ Front(q) \notin Bad)
  <2>1. Bad \in SUBSET Seq(W)
    OBVIOUS
  <2> HIDE DEF Bad
  <2> QED
    BY <2>1, ShortestFails
<1>3. q \in Seq(W) /\ Sifted(FlattenSeq(q), S) # FlattenSeq(m(q))
  BY <1>2
<1>4. CASE q = <<>>
  <2>1. m(<<>>) = <<>>
    OBVIOUS
  <2>2. FlattenSeq(<<>>) = <<>> /\ Sifted(<<>>, S) = <<>>
    BY SiftedEmpty
  <2> HIDE DEF m
  <2> QED
    BY <2>1, <2>2, <1>3, <1>4
<1>5. CASE q # <<>>
  <2>1. PICK f, x : f = Front(q) /\ x = Last(q)
    OBVIOUS
  <2>2. /\ f \in Seq(W) /\ x \in W /\ q = Append(f, x)
        /\ Len(f) = Len(q) - 1 /\ Len(q) \in Nat /\ Len(q) >= 1 /\ x = q[Len(q)]
        /\ \A i \in 1..(Len(q) - 1) : f[i] = q[i]
    BY <2>1, <1>3, <1>5, FrontLast
  <2>3. Sifted(FlattenSeq(f), S) = FlattenSeq(m(f))
    BY <2>1, <2>2, <1>2, <1>5
  <2>4. PICK a, b, y : a = m(f) /\ b = m(q) /\ y = Sifted(x, S)
    OBVIOUS
  <2>5. /\ a \in Seq(W) /\ Len(a) = Len(f) /\ \A i \in 1..Len(f) : a[i] = Sifted(f[i], S)
        /\ b \in Seq(W) /\ Len(b) = Len(q) /\ \A i \in 1..Len(q) : b[i] = Sifted(q[i], S)
        /\ y \in W
    <3>1. y \in W
      BY <2>2, <2>4, SiftedFrom DEF W
    <3> QED
      BY <3>1, <2>2, <2>4, <1>1, <1>3
  <2> HIDE DEF m
  <2>6. /\ Append(a, y) \in Seq(W) /\ Len(Append(a, y)) = Len(b)
        /\ \A i \in 1..Len(b) : b[i] = Append(a, y)[i]
    BY <2>2, <2>4, <2>5
  <2>7. b = Append(a, y)
    BY <2>5, <2>6, SeqEqual
  <2>8. /\ FlattenSeq(b) = FlattenSeq(a) \o y
        /\ FlattenSeq(q) = FlattenSeq(f) \o x /\ FlattenSeq(f) \in Seq(V)
    BY ZenonT(40), <2>2, <2>5, <2>7, FlattenMore DEF W
  <2>9. Sifted(FlattenSeq(f) \o x, S) = Sifted(FlattenSeq(f), S) \o y
    <3>1. PICK g : g = FlattenSeq(f)
      OBVIOUS
    <3>2. g \in Seq(V) /\ x \in Seq(V)
      BY <3>1, <2>2, <2>8 DEF W
    <3>3. Sifted(g \o x, S) = Sifted(g, S) \o Sifted(x, S)
      BY <3>2, SiftedJoined
    <3> QED
      BY <3>1, <3>3, <2>4
  <2> QED
    BY <2>3, <2>4, <2>8, <2>9, <1>3
<1> QED
  BY <1>4, <1>5

-----------------------------------------------------------------------------
(* Lists.                                                                  *)

\* Sequences with a mark between them.
List(ss, mark) == FlattenSeq([i \in DOMAIN ss |-> ss[i] \o (IF i < Len(ss) THEN mark ELSE <<>>)])

\* One text after another: a concatenation that the provers take as it stands.
Joined(a, b) == a \o b

\* What proofs use of it.
LEMMA JoinedTexts ==
    ASSUME NEW V, NEW a \in Seq(V), NEW b \in Seq(V), NEW c \in Seq(V)
    PROVE  /\ Joined(a, b) \in Seq(V)
           /\ Joined(Joined(a, b), c) = Joined(a, Joined(b, c))
BY ConcatProperties, ConcatAssociative DEF Joined

\* Nothing before or after a text is that text.
LEMMA JoinedEmpty ==
    ASSUME NEW V, NEW a \in Seq(V)
    PROVE  Joined(a, <<>>) = a /\ Joined(<<>>, a) = a
BY ConcatEmptySeq DEF Joined

\* A sequence made element by element.
LEMMA SeqMade ==
    ASSUME NEW W, NEW n \in Nat, NEW f \in [1..n -> W]
    PROVE  f \in Seq(W) /\ Len(f) = n
<1>1. f \in Seq(W)
  BY SeqDef
<1>2. DOMAIN f = 1..n /\ DOMAIN f = 1..Len(f) /\ Len(f) \in Nat
  BY <1>1, LenProperties
<1> QED
  BY <1>1, <1>2

\* A sequence that has one element more than another one.
LEMMA AppendIs ==
    ASSUME NEW W, NEW q \in Seq(W), NEW y \in W, NEW t \in Seq(W), Len(t) = Len(q) + 1,
           t[Len(q) + 1] = y, \A i \in 1..Len(q) : t[i] = q[i]
    PROVE  t = Append(q, y)
<1>1. PICK a : a = Append(q, y)
  OBVIOUS
<1>2. /\ a \in Seq(W) /\ Len(a) = Len(q) + 1 /\ a[Len(q) + 1] = y /\ Len(q) \in Nat
      /\ \A i \in 1..Len(q) : a[i] = q[i]
  BY <1>1, AppendProperties
<1>3. \A i \in 1..Len(t) : t[i] = a[i]
  BY <1>2
<1>4. t = a
  BY <1>2, <1>3, SeqEqual
<1> QED
  BY <1>1, <1>4

\* One more of them.
LEMMA ListMore ==
    ASSUME NEW V, NEW mark \in Seq(V), NEW ss \in Seq(Seq(V)), NEW x \in Seq(V)
    PROVE  /\ List(ss, mark) \in Seq(V)
           /\ ss = <<>> => List(ss, mark) = <<>> /\ List(Append(ss, x), mark) = x
           /\ ss # <<>> => List(Append(ss, x), mark) = Joined(Joined(List(ss, mark), mark), x)
<1> DEFINE c(q) == [i \in DOMAIN q |-> q[i] \o mark]
<1> DEFINE l(q) == [i \in DOMAIN q |-> q[i] \o (IF i < Len(q) THEN mark ELSE <<>>)]
<1>2. PICK W : W = Seq(V)
  OBVIOUS
<1>3. /\ \A y \in W : y \o mark \in W /\ y \o <<>> = y
      /\ \A y, z \in W : y \o z \in W /\ (y \o z) \o mark = y \o (z \o mark)
  BY SMTT(20), <1>2, ConcatProperties, ConcatAssociative, ConcatEmptySeq
<1>4. ASSUME NEW q \in Seq(W)
      PROVE  /\ Len(q) \in Nat /\ DOMAIN q = 1..Len(q) /\ \A i \in 1..Len(q) : q[i] \in W
             /\ c(q) \in Seq(W) /\ Len(c(q)) = Len(q) /\ \A i \in 1..Len(q) : c(q)[i] = q[i] \o mark
             /\ l(q) \in Seq(W) /\ Len(l(q)) = Len(q)
             /\ \A i \in 1..Len(q) : l(q)[i] = IF i < Len(q) THEN q[i] \o mark ELSE q[i]
  <2>1. Len(q) \in Nat /\ DOMAIN q = 1..Len(q) /\ \A i \in 1..Len(q) : q[i] \in W
    BY LenProperties, ElementOfSeq
  <2>2. \A i \in 1..Len(q) : q[i] \o mark \in W /\ q[i] \o <<>> = q[i]
    BY <2>1, <1>3
  <2>3. c(q) \in [1..Len(q) -> W] /\ \A i \in 1..Len(q) : c(q)[i] = q[i] \o mark
    BY <2>1, <2>2
  <2>4. l(q) \in [1..Len(q) -> W]
        /\ \A i \in 1..Len(q) : l(q)[i] = IF i < Len(q) THEN q[i] \o mark ELSE q[i]
    BY <2>1, <2>2
  <2> HIDE DEF c, l
  <2>5. c(q) \in Seq(W) /\ Len(c(q)) = Len(q) /\ l(q) \in Seq(W) /\ Len(l(q)) = Len(q)
    BY <2>1, <2>3, <2>4, SeqMade
  <2> QED
    BY <2>1, <2>3, <2>4, <2>5
<1>5. \A q : List(q, mark) = FlattenSeq(l(q))
  BY DEF List
<1>10. c(<<>>) = <<>> /\ l(<<>>) = <<>>
  OBVIOUS
<1> HIDE DEF c, l
<1>6. ASSUME NEW q \in Seq(W), NEW y \in W
      PROVE  /\ FlattenSeq(c(q)) \in W
             /\ List(Append(q, y), mark) = FlattenSeq(c(q)) \o y
             /\ FlattenSeq(c(Append(q, y))) = FlattenSeq(c(q)) \o (y \o mark)
  <2>1. PICK t : t = Append(q, y)
    OBVIOUS
  <2>2. /\ t \in Seq(W) /\ Len(t) = Len(q) + 1 /\ Len(q) \in Nat /\ t[Len(q) + 1] = y
        /\ \A i \in 1..Len(q) : t[i] = q[i]
    BY <2>1, AppendProperties, LenProperties
  <2>3. PICK a, b, d, z : a = c(q) /\ b = l(t) /\ d = c(t) /\ z = y \o mark
    OBVIOUS
  <2>4. /\ a \in Seq(W) /\ Len(a) = Len(q) /\ \A i \in 1..Len(q) : a[i] = q[i] \o mark
        /\ z \in W
    BY <2>3, <1>3, <1>4
  <2>5. /\ d \in Seq(W) /\ Len(d) = Len(t) /\ \A i \in 1..Len(t) : d[i] = t[i] \o mark
        /\ b \in Seq(W) /\ Len(b) = Len(t)
        /\ \A i \in 1..Len(t) : b[i] = IF i < Len(t) THEN t[i] \o mark ELSE t[i]
    BY <2>2, <2>3, <1>4
  <2>10. Len(q) + 1 \in 1..Len(t) /\ ~(Len(q) + 1 < Len(t))
         /\ \A i \in 1..Len(q) : i \in 1..Len(t) /\ i < Len(t)
    BY <2>2
  <2>6. b = Append(a, y)
    <3>1. Len(b) = Len(a) + 1 /\ b[Len(a) + 1] = y
      BY <2>2, <2>4, <2>5, <2>10
    <3>2. ASSUME NEW i \in 1..Len(a) PROVE b[i] = a[i]
      <4>1. i \in 1..Len(q) /\ i \in 1..Len(t) /\ i < Len(t)
        BY <2>4, <2>10
      <4> QED
        BY <4>1, <2>2, <2>4, <2>5
    <3> QED
      BY <3>1, <3>2, <2>4, <2>5, AppendIs
  <2>7. d = Append(a, z)
    <3>1. /\ Len(d) = Len(a) + 1 /\ d[Len(a) + 1] = z
          /\ \A i \in 1..Len(a) : d[i] = a[i]
      BY ZenonT(40), <2>2, <2>3, <2>4, <2>5, <2>10
    <3> QED
      BY <3>1, <2>4, <2>5, AppendIs
  <2>8. /\ FlattenSeq(a) \in W /\ FlattenSeq(Append(a, y)) = FlattenSeq(a) \o y
    BY <2>4, <1>2, FlattenMore
  <2>9. FlattenSeq(Append(a, z)) = FlattenSeq(a) \o z
    BY <2>4, <1>2, FlattenMore
  <2> QED
    BY <2>1, <2>3, <2>6, <2>7, <2>8, <2>9, <1>5
<1>7. ss \in Seq(W) /\ x \in W
  BY <1>2
<1>8. CASE ss = <<>>
  <2>1. FlattenSeq(<<>>) = <<>>
    BY SiftedEmpty
  <2>2. <<>> \o x = x /\ <<>> \in Seq(V)
    BY ConcatEmptySeq, EmptySeq
  <2>3. List(Append(ss, x), mark) = FlattenSeq(c(ss)) \o x
    BY <1>6, <1>7
  <2> QED
    BY <2>1, <2>2, <2>3, <1>5, <1>8, <1>10
<1>9. CASE ss # <<>>
  <2>1. PICK f, y : f = Front(ss) /\ y = Last(ss)
    OBVIOUS
  <2>2. f \in Seq(W) /\ y \in W /\ ss = Append(f, y)
    BY <2>1, <1>7, <1>9, FrontLast
  <2>3. PICK k : k = FlattenSeq(c(f))
    OBVIOUS
  <2>4. /\ k \in W /\ List(ss, mark) = k \o y
        /\ FlattenSeq(c(ss)) = k \o (y \o mark)
    BY <2>2, <2>3, <1>6
  <2>5. List(Append(ss, x), mark) = FlattenSeq(c(ss)) \o x
    BY <1>6, <1>7
  <2>6. (k \o y) \o mark = k \o (y \o mark) /\ k \o y \in W
    BY <2>2, <2>4, <1>3
  <2> QED
    BY <2>4, <2>5, <2>6, <1>2, <1>9 DEF Joined
<1> QED
  BY <1>8, <1>9

-----------------------------------------------------------------------------
(* Tokens.                                                                 *)

\* What is not kept: white space and what may stand between any tokens.
Blank == White \union Extras

\* A text without tokens of a set is what is sifted out of it.
LEMMA WithoutSifted ==
    ASSUME NEW s \in Seq(Tokens), NEW set
    PROVE  Without(s, set) = Sifted(s, Tokens \ set)
<1>1. DOMAIN s = 1..Len(s) /\ \A i \in 1..Len(s) : s[i] \in Tokens
  OBVIOUS
<1>2. \A i \in DOMAIN s : (s[i] \notin set) <=> (s[i] \in Tokens \ set)
  BY <1>1
<1>3. [i \in DOMAIN s |-> IF s[i] \notin set THEN <<s[i]>> ELSE <<>>]
        = [i \in DOMAIN s |-> IF s[i] \in Tokens \ set THEN <<s[i]>> ELSE <<>>]
  BY <1>2
<1> QED
  BY <1>3 DEF Without, Chosen, Sifted

\* Leaving out tokens, of the parts of a text or of all of it.
LEMMA WithoutJoined ==
    ASSUME NEW set, NEW s \in Seq(Tokens), NEW t \in Seq(Tokens)
    PROVE  /\ Without(s, set) \in Seq(Tokens)
           /\ Without(Joined(s, t), set) = Joined(Without(s, set), Without(t, set))
<1>1. s \o t \in Seq(Tokens)
  BY ConcatProperties
<1>2. Without(s \o t, set) = Sifted(s \o t, Tokens \ set)
  BY <1>1, WithoutSifted
<1>3. Without(s, set) = Sifted(s, Tokens \ set) /\ Without(t, set) = Sifted(t, Tokens \ set)
  BY WithoutSifted
<1>4. Sifted(s \o t, Tokens \ set) = Sifted(s, Tokens \ set) \o Sifted(t, Tokens \ set)
  BY SiftedJoined
<1>5. Sifted(s, Tokens \ set) \in Seq(Tokens)
  BY SiftedFrom
<1>6. Without(s \o t, set) = Without(s, set) \o Without(t, set)
  BY <1>2, <1>3, <1>4
<1>7. Without(s, set) \in Seq(Tokens)
  BY <1>3, <1>5
<1> QED
  BY <1>6, <1>7 DEF Joined

\* Leaving out tokens, of a text of one.
LEMMA WithoutOne ==
    ASSUME NEW set, NEW x \in Tokens
    PROVE  /\ <<x>> \in Seq(Tokens)
           /\ x \in set => Without(<<x>>, set) = <<>>
           /\ x \notin set => Without(<<x>>, set) = <<x>>
<1>1. <<x>> \in Seq(Tokens) /\ Append(<<>>, x) = <<x>> /\ <<>> \in Seq(Tokens)
  OBVIOUS
<1>2. Sifted(<<>>, Tokens \ set) = <<>>
  BY SiftedEmpty
<1>3. /\ x \in Tokens \ set => Sifted(Append(<<>>, x), Tokens \ set) = Append(<<>>, x)
      /\ x \notin Tokens \ set => Sifted(Append(<<>>, x), Tokens \ set) = <<>>
  <2>1. PICK S, e : S = Tokens \ set /\ e = <<>>
    OBVIOUS
  <2>2. e \in Seq(Tokens) /\ Sifted(e, S) = e
    BY <2>1, <1>1, <1>2
  <2>3. /\ x \in S => Sifted(Append(e, x), S) = Append(Sifted(e, S), x)
        /\ x \notin S => Sifted(Append(e, x), S) = Sifted(e, S)
    BY <2>2, SiftedMore
  <2> QED
    BY <2>1, <2>2, <2>3
<1>4. Without(<<x>>, set) = Sifted(<<x>>, Tokens \ set)
  BY <1>1, WithoutSifted
<1> QED
  BY <1>1, <1>3, <1>4

\* A text of nothing else is left without anything.
LEMMA WithoutAll ==
    ASSUME NEW set, NEW s \in Seq(Tokens), \A i \in 1..Len(s) : s[i] \in set
    PROVE  Without(s, set) = <<>>
<1>1. PICK r : r = Sifted(s, Tokens \ set)
  OBVIOUS
<1>2. /\ r \in Seq(Tokens) /\ Len(r) \in Nat
      /\ \A i \in 1..Len(r) : \E j \in 1..Len(s) : r[i] = s[j] /\ s[j] \in Tokens \ set
  BY <1>1, SiftedFrom
<1>3. Len(r) = 0
  <2>1. 1 \notin 1..Len(r)
    BY <1>2
  <2> QED
    BY <2>1, <1>2
<1>4. r = <<>>
  BY <1>2, <1>3
<1> QED
  BY <1>1, <1>4, WithoutSifted

\* Leaving out tokens, of the parts of a flattened text.
LEMMA WithoutParts ==
    ASSUME NEW set, NEW ss \in Seq(Seq(Tokens))
    PROVE  Without(FlattenSeq(ss), set) = FlattenSeq([i \in DOMAIN ss |-> Without(ss[i], set)])
<1>1. PICK W : W = Seq(Tokens)
  OBVIOUS
<1>2. ss \in Seq(W)
  BY <1>1
<1>3. \A i \in DOMAIN ss : ss[i] \in W
  BY <1>2
<1>4. \A i \in DOMAIN ss : Without(ss[i], set) = Sifted(ss[i], Tokens \ set)
  BY <1>1, <1>3, WithoutSifted
<1>5. [i \in DOMAIN ss |-> Without(ss[i], set)] = [i \in DOMAIN ss |-> Sifted(ss[i], Tokens \ set)]
  BY <1>4
<1>6. FlattenSeq(ss) \in Seq(Tokens)
  <2>1. <<>> \in Seq(Tokens)
    OBVIOUS
  <2> QED
    BY <2>1, FlattenMore
<1>7. Sifted(FlattenSeq(ss), Tokens \ set)
        = FlattenSeq([i \in DOMAIN ss |-> Sifted(ss[i], Tokens \ set)])
  BY SiftedParts
<1> QED
  BY <1>5, <1>6, <1>7, WithoutSifted

\* The tokens of a text that formatting is to keep, and those of a part of it.
Bare(s) == Without(s, Blank)

Part(word, a, u) == Bare(SubSeq(word, a, u))

\* A text without syntax errors.
IsClean(word) == IsText(word) /\ \A i \in 1..Len(word) : word[i] \notin Skipped \union NoBytes

\* Part of a text, and the tokens to keep in it.
LEMMA PartType ==
    ASSUME NEW word, IsText(word), NEW a \in Nat \ {0}, NEW u \in Nat, u <= Len(word)
    PROVE  SubSeq(word, a, u) \in Seq(Tokens) /\ Part(word, a, u) \in Seq(Tokens)
<1>1. \A i \in a..u : word[i] \in Tokens
  BY TextTokens
<1>2. SubSeq(word, a, u) \in Seq(Tokens)
  BY <1>1, SubSeqProperties
<1>3. <<>> \in Seq(Tokens)
  OBVIOUS
<1> QED
  BY <1>2, <1>3, WithoutJoined DEF Part, Bare

\* What is kept in a part is kept in one half of it, and then in the other one.
LEMMA PartJoined ==
    ASSUME NEW word, IsText(word), NEW a \in Nat \ {0}, NEW u \in Nat, NEW v \in Nat,
           a <= u + 1, u <= v, v <= Len(word)
    PROVE  Part(word, a, v) = Joined(Part(word, a, u), Part(word, u + 1, v))
<1>1. Len(word) \in Nat /\ word \in Seq(Tokens)
  BY TextTokens DEF IsText
<1>2. a \in 1..(Len(word) + 1) /\ u \in (a - 1)..Len(word) /\ v \in u..Len(word)
  BY <1>1
<1>3. Joined(SubSeq(word, a, u), SubSeq(word, u + 1, v)) = SubSeq(word, a, v)
  BY <1>1, <1>2, ConcatAdjacentSubSeq DEF Joined
<1>4. SubSeq(word, a, u) \in Seq(Tokens) /\ SubSeq(word, u + 1, v) \in Seq(Tokens)
  <2>1. u <= Len(word) /\ u + 1 \in Nat \ {0}
    BY <1>1
  <2> QED
    BY <2>1, PartType
<1>5. PICK p, q : p = SubSeq(word, a, u) /\ q = SubSeq(word, u + 1, v)
  OBVIOUS
<1>6. p \in Seq(Tokens) /\ q \in Seq(Tokens)
  BY <1>4, <1>5
<1>7. Without(Joined(p, q), Blank) = Joined(Without(p, Blank), Without(q, Blank))
  BY <1>6, WithoutJoined
<1> QED
  BY <1>3, <1>5, <1>7 DEF Part, Bare

\* A token more.
LEMMA PartOne ==
    ASSUME NEW word, IsText(word), NEW i \in 1..Len(word)
    PROVE  /\ SubSeq(word, i, i) = <<word[i]>> /\ word[i] \in Tokens
           /\ word[i] \in Blank => Part(word, i, i) = <<>>
           /\ word[i] \notin Blank => Part(word, i, i) = <<word[i]>>
<1>1. word[i] \in Tokens /\ i \in Int
  BY TextTokens
<1>2. SubSeq(word, i, i) = <<word[i]>>
  <2>1. PICK s : s = SubSeq(word, i, i)
    OBVIOUS
  <2>2. \A j \in i..i : word[j] \in Tokens
    BY <1>1
  <2>3. s \in Seq(Tokens) /\ Len(s) = 1 /\ s[1] = word[i]
    <3>1. /\ SubSeq(word, i, i) \in Seq(Tokens)
          /\ Len(SubSeq(word, i, i)) = IF i <= i THEN i - i + 1 ELSE 0
          /\ \A j \in 1..(i - i + 1) : SubSeq(word, i, i)[j] = word[i + j - 1]
      BY <1>1, <2>2, SubSeqProperties
    <3>2. 1 \in 1..(i - i + 1) /\ i + 1 - 1 = i /\ i - i + 1 = 1 /\ i <= i
      BY <1>1
    <3> QED
      BY <2>1, <3>1, <3>2
  <2>4. PICK x : x = word[i]
    OBVIOUS
  <2>5. <<x>> \in Seq(Tokens) /\ Len(<<x>>) = 1 /\ <<x>>[1] = x
    BY <1>1, <2>4
  <2>6. s = <<x>>
    <3>1. \A j \in 1..Len(s) : s[j] = <<x>>[j]
      BY <2>3, <2>4, <2>5
    <3> QED
      BY <3>1, <2>3, <2>5, SeqEqual
  <2> QED
    BY <2>1, <2>4, <2>6
<1> QED
  BY <1>1, <1>2, WithoutOne DEF Part, Bare

\* A part that is longer by one token.
LEMMA PartMore ==
    ASSUME NEW word, IsText(word), NEW i \in 1..Len(word), NEW a \in 1..i
    PROVE  /\ Part(word, a, i - 1) \in Seq(Tokens)
           /\ word[i] \in Blank => Part(word, a, i) = Part(word, a, i - 1)
           /\ word[i] \notin Blank => Part(word, a, i) = Joined(Part(word, a, i - 1), <<word[i]>>)
<1>1. Len(word) \in Nat
  BY TextTokens
<1>2. /\ a \in Nat \ {0} /\ i - 1 \in Nat /\ i \in Nat /\ a <= (i - 1) + 1 /\ i - 1 <= i
      /\ i <= Len(word) /\ i - 1 <= Len(word) /\ (i - 1) + 1 = i
  BY <1>1
<1>3. Part(word, a, i) = Joined(Part(word, a, i - 1), Part(word, i, i))
  BY <1>2, PartJoined
<1>4. PICK p : p = Part(word, a, i - 1)
  OBVIOUS
<1>5. p \in Seq(Tokens) /\ Joined(p, <<>>) = p
  BY <1>2, <1>4, PartType, JoinedEmpty
<1> QED
  BY <1>3, <1>4, <1>5, PartOne

-----------------------------------------------------------------------------
(* Members.                                                                *)

\* The pairs of an object, or the items of an array.
Members(x) == IF x.kind = "object" THEN ObjectPairs(x) ELSE ArrayItems(x)

\* A node that is a pair of an object, or an item of an array.
IsMember(kind, node) == IF kind = "object" THEN node.kind = "pair" ELSE IsValueNode(node)

\* The tokens to keep in each of some nodes, and in all of them with commas between them.
Bares(nodes) == [i \in DOMAIN nodes |-> Bare(nodes[i].tokens)]

Inner(x) == List(Bares(Members(x)), <<",">>)

\* Members are sifted out of the children.
LEMMA MembersSifted ==
    ASSUME NEW S, NEW x, x.children \in Seq(S)
    PROVE  Members(x) = Sifted(x.children, {n \in S : IsMember(x.kind, n)})
<1>1. PICK c, k : c = x.children /\ k = x.kind
  OBVIOUS
<1>2. c \in Seq(S)
  BY <1>1
<1>3. DOMAIN c = 1..Len(c) /\ \A i \in 1..Len(c) : c[i] \in S
  BY <1>2
<1>4. CASE k = "object"
  <2>1. \A i \in DOMAIN c : (c[i].kind = "pair") <=> (c[i] \in {n \in S : IsMember(k, n)})
    BY <1>3, <1>4 DEF IsMember
  <2>2. [i \in DOMAIN c |-> IF c[i].kind = "pair" THEN <<c[i]>> ELSE <<>>]
          = [i \in DOMAIN c |-> IF c[i] \in {n \in S : IsMember(k, n)} THEN <<c[i]>> ELSE <<>>]
    BY <2>1
  <2> QED
    BY ZenonT(40), <2>2, <1>1, <1>4 DEF Members, ObjectPairs, Chosen, Sifted
<1>5. CASE k # "object"
  <2>1. \A i \in DOMAIN c : IsValueNode(c[i]) <=> (c[i] \in {n \in S : IsMember(k, n)})
    BY <1>3, <1>5 DEF IsMember
  <2>2. [i \in DOMAIN c |-> IF IsValueNode(c[i]) THEN <<c[i]>> ELSE <<>>]
          = [i \in DOMAIN c |-> IF c[i] \in {n \in S : IsMember(k, n)} THEN <<c[i]>> ELSE <<>>]
    BY <2>1
  <2> QED
    BY <2>2, <1>1, <1>5 DEF Members, ArrayItems, Chosen, Sifted
<1> QED
  BY <1>4, <1>5

\* Nodes with tokens.
Tokened(S) == \A n \in S : n.tokens \in Seq(Tokens)

\* They are nodes, and lists of their tokens are texts.
LEMMA MembersType ==
    ASSUME NEW S, Tokened(S), NEW x, x.children \in Seq(S)
    PROVE  /\ Members(x) \in Seq(S) /\ Len(Members(x)) \in Nat
           /\ \A i \in 1..Len(Members(x)) :
                 \E j \in 1..Len(x.children) : Members(x)[i] = x.children[j]
           /\ \A i \in 1..Len(Members(x)) : IsMember(x.kind, Members(x)[i])
           /\ Bares(Members(x)) \in Seq(Seq(Tokens))
           /\ Len(Bares(Members(x))) = Len(Members(x))
           /\ \A i \in 1..Len(Members(x)) : Bares(Members(x))[i] = Bare(Members(x)[i].tokens)
           /\ Inner(x) \in Seq(Tokens)
<1>1. PICK c, k, ms : c = x.children /\ k = x.kind /\ ms = Members(x)
  OBVIOUS
<1>2. PICK T : T = {n \in S : IsMember(k, n)}
  OBVIOUS
<1>3. c \in Seq(S) /\ ms = Sifted(c, T)
  BY <1>1, <1>2, MembersSifted
<1>4. /\ ms \in Seq(S) /\ Len(ms) \in Nat
      /\ \A i \in 1..Len(ms) : \E j \in 1..Len(c) : ms[i] = c[j] /\ c[j] \in T
  BY <1>3, SiftedFrom
<1>5. \A i \in 1..Len(ms) : IsMember(k, ms[i]) /\ \E j \in 1..Len(c) : ms[i] = c[j]
  BY <1>2, <1>4
<1>6. DOMAIN ms = 1..Len(ms) /\ \A i \in 1..Len(ms) : ms[i] \in S
  BY <1>4, LenProperties, ElementOfSeq
<1>7. PICK W : W = Seq(Tokens)
  OBVIOUS
<1>8. \A n \in S : Bare(n.tokens) \in W
  BY <1>7, WithoutJoined DEF Tokened, Bare
<1>9. PICK b : b = Bares(ms)
  OBVIOUS
<1>10. b = [i \in 1..Len(ms) |-> Bare(ms[i].tokens)]
  BY <1>6, <1>9 DEF Bares
<1>11. b \in [1..Len(ms) -> W] /\ \A i \in 1..Len(ms) : b[i] = Bare(ms[i].tokens)
  BY <1>6, <1>8, <1>10
<1>12. b \in Seq(W) /\ Len(b) = Len(ms)
  BY <1>4, <1>11, SeqMade
<1>13. List(b, <<",">>) \in Seq(Tokens)
  <2>1. "," \in Tokens
    BY DEF Tokens
  <2>2. <<",">> \in Seq(Tokens) /\ <<>> \in Seq(Tokens)
    BY <2>1, WithoutOne, EmptySeq
  <2>3. PICK mark, e : mark = <<",">> /\ e = <<>>
    OBVIOUS
  <2>4. mark \in Seq(Tokens) /\ e \in Seq(Tokens)
    BY <2>2, <2>3
  <2>5. List(b, mark) \in Seq(Tokens)
    BY <2>4, <1>7, <1>12, ListMore
  <2> QED
    BY <2>3, <2>5
<1> QED
  BY <1>1, <1>4, <1>5, <1>7, <1>9, <1>11, <1>12, <1>13 DEF Inner

\* A child more, which may be a member.
LEMMA MembersMore ==
    ASSUME NEW S, Tokened(S), NEW x, x.children \in Seq(S), NEW c \in S,
           NEW y, y.kind = x.kind, y.children = Append(x.children, c)
    PROVE  /\ ~IsMember(x.kind, c) => Members(y) = Members(x) /\ Inner(y) = Inner(x)
           /\ IsMember(x.kind, c) =>
                 /\ Members(y) # <<>>
                 /\ Members(x) = <<>> => Inner(y) = Bare(c.tokens)
                 /\ Members(x) # <<>> =>
                       Inner(y) = Joined(Joined(Inner(x), <<",">>), Bare(c.tokens))
<1>1. PICK a, k, T : a = x.children /\ k = x.kind /\ T = {n \in S : IsMember(k, n)}
  OBVIOUS
<1>2. a \in Seq(S) /\ Append(a, c) \in Seq(S)
  BY <1>1
<1>3. PICK p, q : p = Members(x) /\ q = Members(y)
  OBVIOUS
<1>4. p = Sifted(a, T) /\ q = Sifted(Append(a, c), T)
  BY ZenonT(40), <1>1, <1>2, <1>3, MembersSifted
<1>5. p \in Seq(S) /\ (c \in T => q = Append(p, c)) /\ (c \notin T => q = p)
  BY <1>2, <1>4, SiftedMore
<1>6. CASE ~IsMember(k, c)
  <2>1. q = p
    BY <1>1, <1>5, <1>6
  <2> QED
    BY <2>1, <1>1, <1>3, <1>6 DEF Inner
<1>7. CASE IsMember(k, c)
  <2>1. q = Append(p, c)
    BY <1>1, <1>5, <1>7
  <2>2. q # <<>>
    <3>1. Len(q) = Len(p) + 1 /\ Len(p) \in Nat
      BY <2>1, <1>5, AppendProperties, LenProperties
    <3>2. Len(q) # 0
      BY <3>1
    <3> QED
      BY <3>2
  <2>3. PICK W, bp, bq, bc : /\ W = Seq(Tokens) /\ bp = Bares(p) /\ bq = Bares(q)
                             /\ bc = Bare(c.tokens)
    OBVIOUS
  <2>4. /\ bp \in Seq(W) /\ Len(bp) = Len(p) /\ \A i \in 1..Len(p) : bp[i] = Bare(p[i].tokens)
    <3>1. x.children \in Seq(S)
      OBVIOUS
    <3>2. /\ Bares(Members(x)) \in Seq(Seq(Tokens)) /\ Len(Bares(Members(x))) = Len(Members(x))
          /\ \A i \in 1..Len(Members(x)) : Bares(Members(x))[i] = Bare(Members(x)[i].tokens)
      BY ZenonT(40), <3>1, MembersType
    <3> QED
      BY <3>2, <2>3, <1>3
  <2>5. /\ bq \in Seq(W) /\ Len(bq) = Len(q) /\ \A i \in 1..Len(q) : bq[i] = Bare(q[i].tokens)
    <3>1. y.children \in Seq(S)
      BY <1>1, <1>2
    <3>2. /\ Bares(Members(y)) \in Seq(Seq(Tokens)) /\ Len(Bares(Members(y))) = Len(Members(y))
          /\ \A i \in 1..Len(Members(y)) : Bares(Members(y))[i] = Bare(Members(y)[i].tokens)
      BY ZenonT(40), <3>1, MembersType
    <3> QED
      BY <3>2, <2>3, <1>3
  <2>6. bc \in W
    BY <2>3, WithoutJoined DEF Tokened, Bare
  <2>7. bq = Append(bp, bc)
    <3>1. /\ Len(q) = Len(p) + 1 /\ Len(p) \in Nat /\ q[Len(p) + 1] = c
          /\ \A i \in 1..Len(p) : q[i] = p[i]
      BY <2>1, <1>5, AppendProperties, LenProperties
    <3>2. Len(p) + 1 \in 1..Len(q) /\ \A i \in 1..Len(p) : i \in 1..Len(q)
      BY <3>1
    <3>3. bq[Len(bp) + 1] = bc
      BY <3>1, <3>2, <2>3, <2>4, <2>5
    <3>4. \A i \in 1..Len(bp) : bq[i] = bp[i]
      BY <3>1, <3>2, <2>4, <2>5
    <3> QED
      BY <3>1, <3>3, <3>4, <2>4, <2>5, <2>6, AppendIs
  <2>8. PICK mark : mark = <<",">>
    OBVIOUS
  <2>9. mark \in Seq(Tokens)
    <3>1. "," \in Tokens
      BY DEF Tokens
    <3> QED
      BY <3>1, <2>8, WithoutOne
  <2>10. /\ bp = <<>> => List(bq, mark) = bc
         /\ bp # <<>> => List(bq, mark) = Joined(Joined(List(bp, mark), mark), bc)
    <3>1. bp \in Seq(Seq(Tokens)) /\ bc \in Seq(Tokens)
      BY <2>3, <2>4, <2>6
    <3> QED
      BY <3>1, <2>7, <2>9, ListMore
  <2>11. bp = <<>> <=> p = <<>>
    BY <2>4, <1>5
  <2> QED
    BY <2>2, <2>3, <2>8, <2>10, <2>11, <1>1, <1>3, <1>7 DEF Inner
<1> QED
  BY <1>1, <1>6, <1>7

-----------------------------------------------------------------------------
(* What is read of a text without syntax errors.                           *)

\* The brackets of a container.
Opening == [object |-> "{", array |-> "["]
Closing == [object |-> "}", array |-> "]"]

\* What a container reads as, without its closing bracket.
Shown(x) == Joined(<<Opening[x.kind]>>, Inner(x))

\* The key of a pair is a string, its value is a value.
HasKey(x) == x.children # <<>> /\ \E s \in Strings : x.children[1].tokens = <<s>>

HasValue(x) == IsValueNode(x.children[Len(x.children)])

KeyPart(x) == Bare(x.children[1].tokens)

ValuePart(x) == Bare(x.children[Len(x.children)].tokens)

\* A node reads as its members do, within its brackets, or as its key and its value; any
\* other value is one token.
Shaped(n) ==
    /\ n.kind \in Brackets => Bare(n.tokens) = Joined(Shown(n), <<Closing[n.kind]>>)
    /\ n.kind = "pair" =>
          /\ HasKey(n) /\ HasValue(n)
          /\ Bare(n.tokens) = Joined(Joined(KeyPart(n), <<":">>), ValuePart(n))
    /\ n.kind \in {"string", "number"} => \E t \in Strings \union Scalars : n.tokens = <<t>>

\* All of them do, and their children are among them.
Firm(S) ==
    \A n \in S : n.tokens \in Seq(Tokens) /\ n.children \in Seq(S) /\ Shaped(n)

\* What has been read of a node that is unfinished after the u-th token.
Reads(word, f, u) ==
    /\ f.kind \in Brackets =>
          /\ f.expect \in {"first", "comma"} => Part(word, f.first, u) = Shown(f)
          /\ f.expect = "member" => Part(word, f.first, u) = Joined(Shown(f), <<",">>)
          /\ f.expect = "end" => Part(word, f.first, u) = Joined(Shown(f), <<Closing[f.kind]>>)
    /\ f.kind = "pair" =>
          /\ f.expect = "colon" => Part(word, f.first, u) = KeyPart(f)
          /\ f.expect = "member" => Part(word, f.first, u) = Joined(KeyPart(f), <<":">>)
          /\ f.expect = "end" =>
                Part(word, f.first, u) = Joined(Joined(KeyPart(f), <<":">>), ValuePart(f))

\* Which members it has then.
HasMembers(f) ==
    /\ f.kind = "document" => f.expect = "member"
    /\ f.kind \in Brackets =>
          /\ f.expect \in {"first", "comma", "member", "end"}
          /\ f.expect = "first" => Members(f) = <<>>
          /\ f.expect \in {"comma", "member"} => Members(f) # <<>>
    /\ f.kind = "pair" =>
          /\ f.expect \in {"colon", "member", "end"} /\ HasKey(f)
          /\ f.expect = "end" => HasValue(f)

\* An unfinished node as it should be after the u-th token.
Tidy(S, word, f, u) ==
    /\ f \in Frames(S) /\ f.kind # "error" /\ u \in Nat /\ u <= Len(word)
    /\ f.first # 0 /\ f.first <= u + 1
    /\ f.kind # "document" => f.first <= u
    /\ HasMembers(f) /\ Reads(word, f, u)

\* What may be unfinished within what, in a text without errors.
Within(f, g) ==
    /\ f.expect \in {"first", "member"}
    /\ g.kind # "document" /\ (g.kind = "pair" <=> f.kind = "object")

\* The unfinished nodes after the i-th token.
TidyStand(S, word, frames, i) ==
    /\ frames \in Seq(Frames(S)) /\ frames # <<>>
    /\ frames[1].kind = "document"
    /\ Tidy(S, word, frames[Len(frames)], i)
    /\ \A j \in 1..(Len(frames) - 1) :
          /\ Tidy(S, word, frames[j], frames[j + 1].first - 1)
          /\ Within(frames[j], frames[j + 1])

\* More nodes change nothing for those that are unfinished.
LEMMA TidyMore ==
    ASSUME NEW S, NEW R, S \subseteq R, NEW word, NEW f, NEW u, Tidy(S, word, f, u)
    PROVE  Tidy(R, word, f, u)
BY FramesMore DEF Tidy

\* The innermost one.
LEMMA TidyTop ==
    ASSUME NEW S, NEW word, NEW frames, NEW i, TidyStand(S, word, frames, i)
    PROVE  /\ Len(frames) \in Nat /\ Len(frames) >= 1
           /\ Last(frames) = frames[Len(frames)]
           /\ Tidy(S, word, Last(frames), i)
           /\ Front(frames) \in Seq(Frames(S)) /\ Len(Front(frames)) = Len(frames) - 1
           /\ \A j \in 1..(Len(frames) - 1) : Front(frames)[j] = frames[j]
           /\ Last(frames).kind # "document" => Len(frames) > 1
<1>1. frames \in Seq(Frames(S)) /\ frames # <<>>
  BY DEF TidyStand
<1>2. Len(frames) \in Nat /\ Len(frames) >= 1
  BY <1>1
<1>3. Last(frames) = frames[Len(frames)]
  BY DEF Last
<1>4. /\ Front(frames) \in Seq(Frames(S)) /\ Len(Front(frames)) = Len(frames) - 1
      /\ \A j \in 1..(Len(frames) - 1) : Front(frames)[j] = frames[j]
  <2>1. PICK m : m = Len(frames) - 1
    OBVIOUS
  <2>2. m \in Nat /\ m <= Len(frames)
    BY <2>1, <1>2
  <2>3. PICK F : F = Frames(S)
    OBVIOUS
  <2>4. /\ SubSeq(frames, 1, m) \in Seq(F) /\ Len(SubSeq(frames, 1, m)) = m
        /\ \A j \in 1..m : SubSeq(frames, 1, m)[j] = frames[j]
    BY <1>1, <1>2, <2>2, <2>3
  <2>5. Front(frames) = SubSeq(frames, 1, m)
    BY <2>1 DEF Front
  <2> QED
    BY <2>1, <2>3, <2>4, <2>5
<1>5. Tidy(S, word, Last(frames), i)
  BY <1>3 DEF TidyStand
<1>6. Last(frames).kind # "document" => Len(frames) > 1
  BY <1>2, <1>3 DEF TidyStand
<1> QED
  BY <1>2, <1>3, <1>4, <1>5, <1>6

\* The innermost one is replaced by one that began there.
LEMMA TidyReplaced ==
    ASSUME NEW S, NEW word, NEW frames, NEW i, TidyStand(S, word, frames, i),
           NEW R, S \subseteq R, NEW g, NEW k, Tidy(R, word, g, k),
           g.kind = Last(frames).kind, g.first = Last(frames).first
    PROVE  TidyStand(R, word, Append(Front(frames), g), k)
<1> DEFINE n == Len(frames)
<1> DEFINE t == Append(Front(frames), g)
<1>1. /\ n \in Nat /\ n >= 1 /\ Last(frames) = frames[n]
      /\ Front(frames) \in Seq(Frames(S)) /\ Len(Front(frames)) = n - 1
      /\ \A j \in 1..(n - 1) : Front(frames)[j] = frames[j]
  BY TidyTop
<1>2. Front(frames) \in Seq(Frames(R)) /\ g \in Frames(R)
  BY <1>1, FramesMore, SeqMore DEF Tidy
<1>3. /\ t \in Seq(Frames(R)) /\ Len(t) = n /\ t[n] = g
      /\ \A j \in 1..(n - 1) : t[j] = frames[j]
  <2>1. PICK u : u = Front(frames)
    OBVIOUS
  <2>2. u \in Seq(Frames(R)) /\ Len(u) = n - 1 /\ \A j \in 1..(n - 1) : u[j] = frames[j]
    BY <1>1, <1>2, <2>1
  <2>3. /\ Append(u, g) \in Seq(Frames(R)) /\ Len(Append(u, g)) = n
        /\ Append(u, g)[n] = g
        /\ \A j \in 1..(n - 1) : Append(u, g)[j] = u[j]
    BY <1>1, <1>2, <2>2, AppendProperties
  <2> QED
    BY <2>1, <2>2, <2>3
<1> HIDE DEF t, n
<1>4. t # <<>>
  BY <1>1, <1>3
<1>5. t[1].kind = "document"
  <2>1. CASE n = 1
    BY <2>1, <1>1, <1>3 DEF TidyStand
  <2>2. CASE n # 1
    <3>1. 1 \in 1..(n - 1)
      BY <1>1, <2>2
    <3> QED
      BY <3>1, <1>3 DEF TidyStand
  <2> QED
    BY <2>1, <2>2
<1>6. ASSUME NEW j \in 1..(n - 1)
      PROVE  Tidy(R, word, t[j], t[j + 1].first - 1) /\ Within(t[j], t[j + 1])
  <2>1. Tidy(S, word, frames[j], frames[j + 1].first - 1) /\ Within(frames[j], frames[j + 1])
    BY DEF TidyStand, n
  <2>2. Tidy(R, word, frames[j], frames[j + 1].first - 1)
    <3>1. PICK f, u : f = frames[j] /\ u = frames[j + 1].first - 1
      OBVIOUS
    <3>2. Tidy(S, word, f, u)
      BY <2>1, <3>1
    <3> QED
      BY <3>1, <3>2, TidyMore
  <2>3. t[j] = frames[j] /\ t[j + 1].first = frames[j + 1].first
        /\ t[j + 1].kind = frames[j + 1].kind
    <3>1. j + 1 \in 1..(n - 1) \/ j + 1 = n
      BY <1>1
    <3> QED
      BY <3>1, <1>1, <1>3
  <2> QED
    BY <2>1, <2>2, <2>3 DEF Within
<1> QED
  BY <1>3, <1>4, <1>5, <1>6 DEF TidyStand, t

\* Another one begins.
LEMMA TidyPushed ==
    ASSUME NEW S, NEW word, NEW frames, NEW i \in Nat \ {0}, TidyStand(S, word, frames, i - 1),
           NEW R, S \subseteq R, NEW g, Tidy(R, word, g, i), g.first = i,
           Within(Last(frames), g)
    PROVE  TidyStand(R, word, Append(frames, g), i)
<1> DEFINE n == Len(frames)
<1> DEFINE t == Append(frames, g)
<1>1. n \in Nat /\ n >= 1 /\ Last(frames) = frames[n] /\ Tidy(S, word, frames[n], i - 1)
  BY TidyTop
<1>2. frames \in Seq(Frames(R)) /\ g \in Frames(R)
  BY FramesMore, SeqMore DEF TidyStand, Tidy
<1>3. /\ t \in Seq(Frames(R)) /\ Len(t) = n + 1 /\ t[n + 1] = g
      /\ \A j \in 1..n : t[j] = frames[j]
  BY <1>2, AppendProperties
<1> HIDE DEF t, n
<1>4. t # <<>>
  BY <1>1, <1>3
<1>5. t[1].kind = "document"
  <2>1. 1 \in 1..n
    BY <1>1
  <2> QED
    BY <2>1, <1>3 DEF TidyStand
<1>6. ASSUME NEW j \in 1..n
      PROVE  Tidy(R, word, t[j], t[j + 1].first - 1) /\ Within(t[j], t[j + 1])
  <2>1. CASE j = n
    <3>1. Tidy(R, word, frames[n], i - 1)
      <4>1. PICK f, u : f = frames[n] /\ u = i - 1
        OBVIOUS
      <4>2. Tidy(S, word, f, u)
        BY <1>1, <4>1
      <4> QED
        BY <4>1, <4>2, TidyMore
    <3> QED
      BY <2>1, <3>1, <1>1, <1>3
  <2>2. CASE j # n
    <3>1. j \in 1..(n - 1) /\ j + 1 \in 1..n
      BY <1>1, <2>2
    <3>2. Tidy(S, word, frames[j], frames[j + 1].first - 1) /\ Within(frames[j], frames[j + 1])
      BY <3>1 DEF TidyStand, n
    <3>3. Tidy(R, word, frames[j], frames[j + 1].first - 1)
      <4>1. PICK f, u : f = frames[j] /\ u = frames[j + 1].first - 1
        OBVIOUS
      <4>2. Tidy(S, word, f, u)
        BY <3>2, <4>1
      <4> QED
        BY <4>1, <4>2, TidyMore
    <3> QED
      BY <3>1, <3>2, <3>3, <1>3
  <2> QED
    BY <2>1, <2>2
<1>7. Len(t) - 1 = n /\ t[Len(t)] = g
  BY <1>1, <1>3
<1> QED
  BY <1>3, <1>4, <1>5, <1>6, <1>7 DEF TidyStand, t

\* Without the innermost one, what is left is the stack when that began.
LEMMA TidyPopped ==
    ASSUME NEW S, NEW word, NEW frames, NEW i, TidyStand(S, word, frames, i),
           Last(frames).kind # "document"
    PROVE  /\ TidyStand(S, word, Front(frames), Last(frames).first - 1)
           /\ Within(Last(Front(frames)), Last(frames))
<1> DEFINE n == Len(frames)
<1> DEFINE t == Front(frames)
<1>1. /\ n \in Nat /\ n > 1 /\ Last(frames) = frames[n]
      /\ t \in Seq(Frames(S)) /\ Len(t) = n - 1 /\ \A j \in 1..(n - 1) : t[j] = frames[j]
  BY TidyTop
<1> HIDE DEF t
<1>2. t # <<>> /\ t[1].kind = "document"
  <2>1. 1 \in 1..(n - 1)
    BY <1>1
  <2>2. t # <<>>
    BY <1>1
  <2> QED
    BY <2>1, <2>2, <1>1 DEF TidyStand
<1>3. ASSUME NEW j \in 1..(n - 1)
      PROVE  Tidy(S, word, frames[j], frames[j + 1].first - 1) /\ Within(frames[j], frames[j + 1])
  BY DEF TidyStand
<1>4. n - 1 \in 1..(n - 1) /\ (n - 1) + 1 = n
  BY <1>1
<1>5. Tidy(S, word, t[n - 1], Last(frames).first - 1) /\ Within(t[n - 1], Last(frames))
  BY <1>1, <1>3, <1>4
<1>6. ASSUME NEW j \in 1..((n - 1) - 1)
      PROVE  Tidy(S, word, t[j], t[j + 1].first - 1) /\ Within(t[j], t[j + 1])
  <2>1. j \in 1..(n - 1) /\ j + 1 \in 1..(n - 1)
    BY <1>1
  <2> QED
    BY <2>1, <1>1, <1>3
<1>7. Last(t) = t[n - 1]
  BY <1>1 DEF Last
<1> HIDE DEF n
<1>8. TidyStand(S, word, t, Last(frames).first - 1)
  BY <1>1, <1>2, <1>5, <1>6 DEF TidyStand
<1> QED
  BY <1>5, <1>7, <1>8 DEF t

\* What may follow in an unfinished node.
Expects == {"first", "member", "colon", "comma", "any", "end"}

\* The types of these.
LEMMA FrameType ==
    ASSUME NEW S, NEW f \in Frames(S)
    PROVE  /\ f.kind \in FrameKinds /\ f.first \in Nat /\ f.children \in Seq(S)
           /\ f.expect \in Expects
           /\ Len(f.children) \in Nat /\ DOMAIN f.children = 1..Len(f.children)
           /\ \A i \in 1..Len(f.children) : f.children[i] \in S
<1>1. f.kind \in FrameKinds /\ f.first \in Nat /\ f.children \in Seq(S) /\ f.expect \in Expects
  BY DEF Frames, Expects
<1>2. PICK c : c = f.children
  OBVIOUS
<1>3. c \in Seq(S)
  BY <1>1, <1>2
<1>4. Len(c) \in Nat /\ DOMAIN c = 1..Len(c) /\ \A i \in 1..Len(c) : c[i] \in S
  BY <1>3, LenProperties, ElementOfSeq
<1> QED
  BY <1>1, <1>2, <1>4

\* Firm nodes have tokens.
LEMMA FirmTokens ==
    ASSUME NEW S, Firm(S)
    PROVE  Tokened(S)
BY DEF Firm, Tokened

\* A child more.
LEMMA MoreChildren ==
    ASSUME NEW S, NEW f \in Frames(S), NEW c \in S, NEW e \in Expects
    PROVE  LET g == WithChild(f, c, e)
           IN  /\ g \in Frames(S) /\ g.kind = f.kind /\ g.first = f.first /\ g.expect = e
               /\ g.children = Append(f.children, c) /\ g.children # <<>>
               /\ g.children[Len(g.children)] = c
               /\ f.children # <<>> => g.children[1] = f.children[1]
<1>1. PICK a, t : a = f.children /\ t = Append(a, c)
  OBVIOUS
<1>2. a \in Seq(S) /\ Len(a) \in Nat
  BY <1>1, FrameType
<1>3. /\ t \in Seq(S) /\ Len(t) = Len(a) + 1 /\ t[Len(a) + 1] = c
      /\ \A i \in 1..Len(a) : t[i] = a[i]
  BY <1>1, <1>2, AppendProperties
<1>4. t # <<>>
  BY <1>2, <1>3
<1>5. a # <<>> => t[1] = a[1]
  <2>1. a # <<>> => 1 \in 1..Len(a)
    BY <1>2
  <2> QED
    BY <2>1, <1>3
<1>6. PICK g : g = WithChild(f, c, e)
  OBVIOUS
<1>7. g = [kind |-> f.kind, first |-> f.first, children |-> t, expect |-> e]
  BY <1>1, <1>6 DEF WithChild, Unfinished
<1>8. g \in Frames(S)
  BY <1>3, <1>7, FrameType DEF Frames, Expects
<1> QED
  BY <1>1, <1>3, <1>4, <1>5, <1>6, <1>7, <1>8

\* A child that is no member.
LEMMA OtherChild ==
    ASSUME NEW S, Firm(S), NEW f \in Frames(S), NEW c \in S, NEW e \in Expects,
           ~IsMember(f.kind, c)
    PROVE  LET g == WithChild(f, c, e)
           IN  /\ Members(g) = Members(f) /\ Shown(g) = Shown(f)
               /\ HasKey(f) => HasKey(g) /\ KeyPart(g) = KeyPart(f)
<1>1. PICK g : g = WithChild(f, c, e)
  OBVIOUS
<1>2. /\ g \in Frames(S) /\ g.kind = f.kind
      /\ g.children = Append(f.children, c) /\ g.children # <<>>
      /\ f.children # <<>> => g.children[1] = f.children[1]
  BY <1>1, MoreChildren
<1>3. f.children \in Seq(S) /\ Tokened(S)
  BY FrameType, FirmTokens
<1>4. Members(g) = Members(f) /\ Inner(g) = Inner(f)
  BY <1>2, <1>3, MembersMore
<1> QED
  BY <1>1, <1>2, <1>4 DEF Shown, HasKey, KeyPart

\* Without members there is nothing inside.
LEMMA NoMembers ==
    ASSUME NEW x, Members(x) = <<>>
    PROVE  Inner(x) = <<>>
<1>1. Bares(<<>>) = <<>>
  BY DEF Bares
<1>2. List(<<>>, <<",">>) = <<>>
  <2>1. [i \in DOMAIN <<>> |-> <<>>[i] \o (IF i < Len(<<>>) THEN <<",">> ELSE <<>>)] = <<>>
    OBVIOUS
  <2> QED
    BY <2>1, SiftedEmpty DEF List
<1> QED
  BY <1>1, <1>2 DEF Inner

\* There are none if no child is one.
LEMMA NotMembers ==
    ASSUME NEW S, Firm(S), NEW x, x.children \in Seq(S),
           \A j \in 1..Len(x.children) : ~IsMember(x.kind, x.children[j])
    PROVE  Members(x) = <<>>
<1>1. PICK ms : ms = Members(x)
  OBVIOUS
<1>2. /\ Members(x) \in Seq(S) /\ Len(Members(x)) \in Nat
      /\ \A k \in 1..Len(Members(x)) :
            \E j \in 1..Len(x.children) : Members(x)[k] = x.children[j]
      /\ \A k \in 1..Len(Members(x)) : IsMember(x.kind, Members(x)[k])
  BY FirmTokens, MembersType
<1>3. ASSUME Len(ms) # 0 PROVE FALSE
  <2>1. 1 \in 1..Len(ms)
    BY <1>1, <1>2, <1>3
  <2>2. IsMember(x.kind, ms[1]) /\ \E j \in 1..Len(x.children) : ms[1] = x.children[j]
    BY <2>1, <1>1, <1>2
  <2> QED
    BY <2>2
<1> QED
  BY <1>1, <1>2, <1>3

\* Brackets and marks.
LEMMA MarkType ==
    /\ <<",">> \in Seq(Tokens) /\ <<":">> \in Seq(Tokens) /\ <<>> \in Seq(Tokens)
    /\ \A kind \in Brackets : <<Opening[kind]>> \in Seq(Tokens) /\ <<Closing[kind]>> \in Seq(Tokens)
<1>1. /\ "," \in Tokens /\ ":" \in Tokens
      /\ \A kind \in Brackets : Opening[kind] \in Tokens /\ Closing[kind] \in Tokens
  BY DEF Tokens, Brackets, Opening, Closing
<1>2. \A t \in Tokens : <<t>> \in Seq(Tokens)
  BY WithoutOne
<1>3. <<>> \in Seq(Tokens)
  OBVIOUS
<1> QED
  BY Zenon, <1>1, <1>2, <1>3

\* The texts of a node.
LEMMA ShownType ==
    ASSUME NEW S, Firm(S), NEW x, x.children \in Seq(S)
    PROVE  /\ Inner(x) \in Seq(Tokens)
           /\ x.kind \in Brackets => Shown(x) \in Seq(Tokens)
           /\ x.children # <<>> => KeyPart(x) \in Seq(Tokens) /\ ValuePart(x) \in Seq(Tokens)
<1>1. Inner(x) \in Seq(Tokens)
  BY FirmTokens, MembersType
<1>2. x.kind \in Brackets => Shown(x) \in Seq(Tokens)
  BY <1>1, MarkType, JoinedTexts DEF Shown
<1>3. PICK c : c = x.children
  OBVIOUS
<1>4. c # <<>> => /\ 1 \in 1..Len(c) /\ Len(c) \in 1..Len(c) /\ c[1] \in S /\ c[Len(c)] \in S
  <2>1. c \in Seq(S)
    BY <1>3
  <2>2. Len(c) \in Nat /\ \A i \in 1..Len(c) : c[i] \in S
    BY <2>1, LenProperties, ElementOfSeq
  <2>3. c # <<>> => Len(c) # 0
    BY <2>1
  <2> QED
    BY <2>2, <2>3
<1>5. \A n \in S : Bare(n.tokens) \in Seq(Tokens)
  BY WithoutJoined DEF Firm, Bare
<1> QED
  BY <1>1, <1>2, <1>3, <1>4, <1>5 DEF KeyPart, ValuePart

\* A frame that reads on.
LEMMA TidyThen ==
    ASSUME NEW S, NEW word, NEW f, NEW u, Tidy(S, word, f, u), NEW R, S \subseteq R,
           NEW g \in Frames(R), g.kind = f.kind, g.first = f.first, NEW v \in Nat, u <= v,
           v <= Len(word), HasMembers(g), Reads(word, g, v)
    PROVE  Tidy(R, word, g, v)
<1>1. f.first \in Nat /\ u \in Nat
  BY FrameType DEF Tidy
<1> QED
  BY <1>1 DEF Tidy

\* A frame that is not the document has begun.
LEMMA FrameBegan ==
    ASSUME NEW S, NEW word, IsText(word), NEW i \in 1..Len(word), NEW f,
           Tidy(S, word, f, i - 1), f.kind # "document"
    PROVE  f.first \in 1..i
<1>1. Len(word) \in Nat
  BY TextTokens
<1>2. f.first \in Nat /\ f.first # 0 /\ f.first <= i - 1 /\ i - 1 \in Nat
  BY FrameType DEF Tidy
<1> QED
  BY <1>1, <1>2

\* White space.
LEMMA WhiteTidy ==
    ASSUME NEW S, NEW word, IsText(word), NEW i \in 1..Len(word), word[i] \in White, NEW f,
           Tidy(S, word, f, i - 1)
    PROVE  Tidy(S, word, f, i)
<1>1. Len(word) \in Nat
  BY TextTokens
<1>2. f \in Frames(S) /\ HasMembers(f) /\ Reads(word, f, i - 1)
  BY DEF Tidy
<1>3. word[i] \in Blank
  BY DEF Blank
<1>4. f.kind # "document" => Part(word, f.first, i) = Part(word, f.first, i - 1)
  BY <1>3, FrameBegan, PartMore
<1>5. Reads(word, f, i)
  BY <1>2, <1>4 DEF Reads, Brackets
<1>6. i \in Nat /\ i - 1 <= i /\ i <= Len(word)
  BY <1>1
<1> QED
  BY <1>2, <1>5, <1>6, TidyThen

\* A comment.
LEMMA CommentTidy ==
    ASSUME NEW S, NEW word, IsText(word), NEW i \in 1..Len(word), word[i] \in Blank, NEW f,
           Tidy(S, word, f, i - 1), f.expect # "end", NEW R, S \subseteq R, Firm(R),
           NEW c \in R, ~IsMember(f.kind, c)
    PROVE  Tidy(R, word, WithChild(f, c, f.expect), i)
<1>1. Len(word) \in Nat
  BY TextTokens
<1>2. f \in Frames(R) /\ HasMembers(f) /\ Reads(word, f, i - 1) /\ f.expect \in Expects
  BY FramesMore, FrameType DEF Tidy
<1>3. PICK g : g = WithChild(f, c, f.expect)
  OBVIOUS
<1>4. /\ g \in Frames(R) /\ g.kind = f.kind /\ g.first = f.first /\ g.expect = f.expect
  BY <1>2, <1>3, MoreChildren
<1>5. /\ Members(g) = Members(f) /\ Shown(g) = Shown(f)
      /\ HasKey(f) => HasKey(g) /\ KeyPart(g) = KeyPart(f)
  BY <1>2, <1>3, OtherChild
<1>6. f.kind # "document" => Part(word, f.first, i) = Part(word, f.first, i - 1)
  BY FrameBegan, PartMore
<1>7. HasMembers(g)
  BY <1>2, <1>4, <1>5 DEF HasMembers
<1>8. Reads(word, g, i)
  <2>1. g.kind \in Brackets =>
          /\ g.expect \in {"first", "comma"} => Part(word, g.first, i) = Shown(g)
          /\ g.expect = "member" => Part(word, g.first, i) = Joined(Shown(g), <<",">>)
    BY <1>2, <1>4, <1>5, <1>6 DEF Reads, Brackets
  <2>2. g.kind = "pair" =>
          /\ g.expect = "colon" => Part(word, g.first, i) = KeyPart(g)
          /\ g.expect = "member" => Part(word, g.first, i) = Joined(KeyPart(g), <<":">>)
    BY <1>2, <1>4, <1>5, <1>6 DEF Reads, HasMembers
  <2>3. g.expect # "end"
    BY <1>4
  <2> QED
    BY <2>1, <2>2, <2>3 DEF Reads
<1>9. i \in Nat /\ i - 1 <= i /\ i <= Len(word)
  BY <1>1
<1> QED
  BY <1>3, <1>4, <1>7, <1>8, <1>9, TidyThen

\* A colon, a comma, or a closing bracket, and what is expected after it.
Marked(f, token, e) ==
    \/ token = ":" /\ f.expect = "colon" /\ e = "member"
    \/ token = "," /\ f.expect = "comma" /\ e = "member"
    \/ /\ f.kind \in Brackets /\ f.expect \in {"first", "comma"}
       /\ token = Closing[f.kind] /\ e = "end"

\* A comma, colon or closing bracket, and what it makes of the node.
LEMMA MarkTidy ==
    ASSUME NEW S, NEW word, IsText(word), NEW i \in 1..Len(word), word[i] \notin Blank, NEW f,
           Tidy(S, word, f, i - 1), NEW R, S \subseteq R, Firm(R), NEW c \in R,
           ~IsMember(f.kind, c), NEW e,
           Marked(f, word[i], e)
    PROVE  Tidy(R, word, WithChild(f, c, e), i)
<1>1. Len(word) \in Nat
  BY TextTokens
<1>2. /\ f \in Frames(R) /\ HasMembers(f) /\ Reads(word, f, i - 1) /\ e \in Expects
      /\ f.kind \in FrameKinds /\ f.kind # "error"
  BY FramesMore, FrameType DEF Tidy, Expects, Marked
<1>3. PICK g : g = WithChild(f, c, e)
  OBVIOUS
<1>4. /\ g \in Frames(R) /\ g.kind = f.kind /\ g.first = f.first /\ g.expect = e
  BY <1>2, <1>3, MoreChildren
<1>5. /\ Members(g) = Members(f) /\ Shown(g) = Shown(f)
      /\ HasKey(f) => HasKey(g) /\ KeyPart(g) = KeyPart(f)
  BY <1>2, <1>3, OtherChild
<1>6. f.kind # "document" =>
        Part(word, f.first, i) = Joined(Part(word, f.first, i - 1), <<word[i]>>)
  BY FrameBegan, PartMore
<1>7. \/ f.kind = "pair" /\ f.expect = "colon" /\ e = "member" /\ word[i] = ":"
      \/ /\ f.kind \in Brackets /\ f.expect = "comma" /\ e = "member" /\ word[i] = ","
      \/ /\ f.kind \in Brackets /\ f.expect \in {"first", "comma"} /\ e = "end"
         /\ word[i] = Closing[f.kind]
  BY <1>2 DEF HasMembers, FrameKinds, Brackets, Marked
<1>8. HasMembers(g) /\ Reads(word, g, i)
  <2>1. CASE f.kind = "pair" /\ f.expect = "colon" /\ e = "member" /\ word[i] = ":"
    <3>1. HasMembers(g)
      BY <2>1, <1>2, <1>4, <1>5 DEF HasMembers, Brackets
    <3>2. Part(word, g.first, i) = Joined(KeyPart(g), <<":">>)
      BY <2>1, <1>2, <1>4, <1>5, <1>6 DEF Reads, HasMembers
    <3> QED
      BY <3>1, <3>2, <2>1, <1>4 DEF Reads, Brackets
  <2>2. CASE f.kind \in Brackets /\ f.expect = "comma" /\ e = "member" /\ word[i] = ","
    <3>1. HasMembers(g)
      BY <2>2, <1>2, <1>4, <1>5 DEF HasMembers, Brackets
    <3>2. Part(word, g.first, i) = Joined(Shown(g), <<",">>)
      BY <2>2, <1>2, <1>4, <1>5, <1>6 DEF Reads, Brackets
    <3> QED
      BY <3>1, <3>2, <2>2, <1>4 DEF Reads, Brackets
  <2>3. CASE /\ f.kind \in Brackets /\ f.expect \in {"first", "comma"} /\ e = "end"
             /\ word[i] = Closing[f.kind]
    <3>1. HasMembers(g)
      BY <2>3, <1>2, <1>4, <1>5 DEF HasMembers, Brackets
    <3>2. Part(word, g.first, i) = Joined(Shown(g), <<Closing[g.kind]>>)
      BY <2>3, <1>2, <1>4, <1>5, <1>6 DEF Reads, Brackets
    <3> QED
      BY <3>1, <3>2, <2>3, <1>4 DEF Reads, Brackets
  <2> QED
    BY <1>7, <2>1, <2>2, <2>3
<1>9. i \in Nat /\ i - 1 <= i /\ i <= Len(word)
  BY <1>1
<1> QED
  BY <1>3, <1>4, <1>8, <1>9, TidyThen

\* A member: a value, or a pair of an object.
LEMMA MemberTidy ==
    ASSUME NEW S, NEW word, IsText(word), NEW f, NEW u, Tidy(S, word, f, u),
           f.expect \in {"first", "member"}, NEW R, S \subseteq R, Firm(R),
           NEW v \in Nat, u < v, v <= Len(word),
           NEW c \in R, c.tokens = SubSeq(word, u + 1, v), IsMember(f.kind, c)
    PROVE  Tidy(R, word, WithChild(f, c, AfterMember[f.kind]), v)
<1>1. Len(word) \in Nat /\ u \in Nat /\ u <= v
  BY TextTokens DEF Tidy
<1>2. /\ f \in Frames(R) /\ HasMembers(f) /\ Reads(word, f, u)
      /\ f.kind \in FrameKinds /\ f.kind # "error" /\ f.first \in Nat /\ f.first # 0
      /\ f.first <= u + 1 /\ f.children \in Seq(R)
  BY FramesMore, FrameType DEF Tidy
<1>3. PICK e : e = AfterMember[f.kind]
  OBVIOUS
<1>4. e \in Expects
  BY <1>2, <1>3, AfterMembers DEF Expects
<1>5. PICK g : g = WithChild(f, c, e)
  OBVIOUS
<1>6. /\ g \in Frames(R) /\ g.kind = f.kind /\ g.first = f.first /\ g.expect = e
      /\ g.children = Append(f.children, c) /\ g.children # <<>>
      /\ g.children[Len(g.children)] = c
      /\ f.children # <<>> => g.children[1] = f.children[1]
  BY SMTT(20), <1>2, <1>4, <1>5, MoreChildren
<1>7. PICK read, bare : read = Part(word, f.first, u) /\ bare = Bare(c.tokens)
  OBVIOUS
<1>8. read \in Seq(Tokens) /\ bare \in Seq(Tokens) /\ Part(word, f.first, v) = Joined(read, bare)
  <2>1. f.first \in Nat \ {0} /\ u <= Len(word) /\ u + 1 \in Nat \ {0}
    BY <1>1, <1>2
  <2>2. bare = Part(word, u + 1, v)
    BY <1>7 DEF Part
  <2>3. Part(word, f.first, v) = Joined(Part(word, f.first, u), Part(word, u + 1, v))
    BY ZenonT(40), <1>1, <1>2, <2>1, PartJoined
  <2>4. read \in Seq(Tokens)
    BY <1>1, <1>7, <2>1, PartType
  <2>5. bare \in Seq(Tokens)
    BY <1>7, WithoutJoined DEF Firm, Bare
  <2> QED
    BY <1>7, <2>2, <2>3, <2>4, <2>5
<1>9. HasMembers(g) /\ Reads(word, g, v)
  <2>1. CASE f.kind = "document"
    BY <2>1, <1>3, <1>6 DEF HasMembers, Reads, AfterMember, Brackets
  <2>2. CASE f.kind \in Brackets
    <3>1. e = "comma" /\ f.kind # "document" /\ f.kind # "pair"
      BY <2>2, <1>3 DEF AfterMember, Brackets
    <3>2. /\ Members(g) # <<>>
          /\ Members(f) = <<>> => Inner(g) = bare
          /\ Members(f) # <<>> => Inner(g) = Joined(Joined(Inner(f), <<",">>), bare)
      <4>1. Tokened(R)
        BY FirmTokens
      <4>2. /\ Members(g) # <<>>
            /\ Members(f) = <<>> => Inner(g) = Bare(c.tokens)
            /\ Members(f) # <<>> => Inner(g) = Joined(Joined(Inner(f), <<",">>), Bare(c.tokens))
        <5>1. /\ g.kind = f.kind /\ g.children = Append(f.children, c)
              /\ f.children \in Seq(R) /\ c \in R /\ IsMember(f.kind, c)
          BY <1>2, <1>6
        <5> QED
          BY ZenonT(30), <4>1, <5>1, MembersMore
      <4> QED
        BY <4>2, <1>7
    <3>3. HasMembers(g)
      BY <2>2, <3>1, <3>2, <1>6 DEF HasMembers
    <3>4. PICK open, comma, inner :
             open = <<Opening[f.kind]>> /\ comma = <<",">> /\ inner = Inner(f)
      OBVIOUS
    <3>5. open \in Seq(Tokens) /\ comma \in Seq(Tokens) /\ inner \in Seq(Tokens)
      BY <2>2, <3>4, <1>2, MarkType, ShownType
    <3>6. Shown(g) = Joined(open, Inner(g)) /\ Shown(f) = Joined(open, inner)
      BY <3>4, <1>6 DEF Shown
    <3>7. Part(word, g.first, v) = Shown(g)
      <4>1. CASE f.expect = "first"
        <5>1. Members(f) = <<>>
          BY <2>2, <4>1, <1>2 DEF HasMembers
        <5>2. inner = <<>> /\ Inner(g) = bare
          BY <5>1, <3>2, <3>4, NoMembers
        <5>3. read = Joined(open, inner)
          BY <2>2, <4>1, <1>2, <1>7, <3>6 DEF Reads
        <5>4. read = open
          BY <5>2, <5>3, <3>5, JoinedEmpty
        <5> QED
          BY <5>2, <5>4, <3>6, <1>6, <1>8
      <4>2. CASE f.expect = "member"
        <5>1. Members(f) # <<>>
          BY <2>2, <4>2, <1>2 DEF HasMembers
        <5>2. Inner(g) = Joined(Joined(inner, comma), bare)
          BY <5>1, <3>2, <3>4
        <5>3. read = Joined(Joined(open, inner), comma)
          BY <2>2, <4>2, <1>2, <1>7, <3>4, <3>6 DEF Reads
        <5>4. /\ Joined(inner, comma) \in Seq(Tokens)
              /\ Joined(Joined(open, inner), comma) = Joined(open, Joined(inner, comma))
          BY <3>5, JoinedTexts
        <5>5. Joined(Joined(open, Joined(inner, comma)), bare)
                = Joined(open, Joined(Joined(inner, comma), bare))
          BY <5>4, <3>5, <1>8, JoinedTexts
        <5> QED
          BY <5>2, <5>3, <5>4, <5>5, <3>6, <1>6, <1>8
      <4> QED
        BY <4>1, <4>2
    <3> QED
      BY <3>1, <3>3, <3>7, <1>6 DEF Reads
  <2>3. CASE f.kind = "pair"
    <3>1. e = "end" /\ f.expect = "member" /\ HasKey(f) /\ f.kind \notin Brackets
      BY <2>3, <1>2, <1>3 DEF AfterMember, HasMembers, Brackets
    <3>2. HasKey(g) /\ KeyPart(g) = KeyPart(f)
      BY <3>1, <1>6 DEF HasKey, KeyPart
    <3>3. HasValue(g) /\ ValuePart(g) = bare
      BY <2>3, <1>6, <1>7 DEF HasValue, ValuePart, IsMember
    <3>4. read = Joined(KeyPart(g), <<":">>)
      BY <2>3, <3>1, <3>2, <1>2, <1>7 DEF Reads
    <3>5. Part(word, g.first, v) = Joined(Joined(KeyPart(g), <<":">>), ValuePart(g))
      BY <3>3, <3>4, <1>6, <1>8
    <3>6. HasMembers(g)
      BY <2>3, <3>1, <3>2, <3>3, <1>6 DEF HasMembers
    <3> QED
      BY <2>3, <3>1, <3>5, <3>6, <1>6 DEF Reads
  <2> QED
    BY <2>1, <2>2, <2>3, <1>2 DEF FrameKinds, Brackets
<1> QED
  BY <1>1, <1>3, <1>5, <1>6, <1>9, TidyThen

\* Which token begins which node, and what is expected after it.
Opens(kind, token, e) ==
    /\ kind = "pair" => token \in Strings /\ e = "colon"
    /\ kind \in Brackets => token = Opening[kind] /\ e = "first"

\* A node begins with a first child.
LEMMA NodeTidy ==
    ASSUME NEW R, Firm(R), NEW word, IsText(word), NEW i \in 1..Len(word),
           word[i] \notin Blank, NEW c \in R, c.tokens = SubSeq(word, i, i),
           NEW kind \in {"object", "array", "pair"}, NEW e \in Expects,
           Opens(kind, word[i], e), kind = "pair" \/ ~IsMember(kind, c)
    PROVE  Tidy(R, word, Unfinished(kind, i, <<c>>, e), i)
<1>1. Len(word) \in Nat /\ i \in Nat /\ i # 0 /\ i <= i + 1 /\ i <= Len(word)
  BY TextTokens
<1>2. PICK f, cs : cs = <<c>> /\ f = Unfinished(kind, i, cs, e)
  OBVIOUS
<1>3. cs \in Seq(R) /\ Len(cs) = 1 /\ cs[1] = c /\ cs # <<>>
  BY <1>2
<1>4. /\ f.kind = kind /\ f.first = i /\ f.children = cs /\ f.expect = e
      /\ f = [kind |-> kind, first |-> i, children |-> cs, expect |-> e]
  BY <1>2 DEF Unfinished
<1>5. kind \in FrameKinds /\ kind # "document" /\ kind # "error"
  BY DEF FrameKinds
<1>6. f \in Frames(R)
  BY <1>1, <1>3, <1>4, <1>5 DEF Frames, Expects
<1>7. SubSeq(word, i, i) = <<word[i]>> /\ Part(word, i, i) = <<word[i]>>
  BY PartOne
<1>8. Part(word, i, i) = Bare(c.tokens)
  BY DEF Part
<1>9. HasMembers(f) /\ Reads(word, f, i)
  <2>1. CASE kind = "pair"
    <3>1. \E s \in Strings : c.tokens = <<s>>
      BY <2>1, <1>7 DEF Opens
    <3>2. HasKey(f)
      BY <3>1, <1>3, <1>4 DEF HasKey
    <3>3. Part(word, f.first, i) = KeyPart(f)
      BY <1>3, <1>4, <1>8 DEF KeyPart
    <3> QED
      BY <2>1, <3>2, <3>3, <1>4 DEF HasMembers, Reads, Brackets, Opens
  <2>2. CASE kind \in Brackets
    <3>1. Members(f) = <<>>
      <4>1. f.children \in Seq(R) /\ f.kind = kind
            /\ \A j \in 1..Len(f.children) : f.children[j] = c
        <5>1. \A j \in 1..Len(cs) : cs[j] = c
          BY <1>3
        <5> QED
          BY <5>1, <1>3, <1>4
      <4>2. ~IsMember(kind, c)
        BY <2>2 DEF Brackets
      <4>3. \A j \in 1..Len(f.children) : ~IsMember(f.kind, f.children[j])
        BY <4>1, <4>2
      <4> QED
        BY <4>1, <4>3, NotMembers
    <3>2. Inner(f) = <<>>
      BY <3>1, NoMembers
    <3>3. PICK open : open = <<Opening[kind]>>
      OBVIOUS
    <3>4. open \in Seq(Tokens)
      BY <2>2, <3>3, MarkType
    <3>5. Shown(f) = open
      BY <3>2, <3>3, <3>4, <1>4, JoinedEmpty DEF Shown
    <3>6. Part(word, f.first, i) = Shown(f)
      BY <2>2, <3>3, <3>5, <1>4, <1>7 DEF Opens
    <3> QED
      BY <2>2, <3>1, <3>6, <1>4, <1>5 DEF HasMembers, Reads, Brackets, Opens
  <2> QED
    BY <2>1, <2>2 DEF Brackets
<1>10. Tidy(R, word, f, i)
  BY <1>1, <1>4, <1>5, <1>6, <1>9 DEF Tidy
<1> QED
  BY <1>2, <1>10

\* The tokens of a text without syntax errors.
LEMMA CleanKinds ==
    ASSUME NEW t \in Tokens \ (Skipped \union NoBytes)
    PROVE  /\ Kind(t) \in {"string", "number"} <=> t \in Strings \union Scalars
           /\ Kind(t) \notin {"object", "array", "pair"}
           /\ Kind(t) \in {"}", "]"} => t = Kind(t)
           /\ t \in Blank <=> t \in White \union Extras
           /\ t \in {"{", "[", ":", ","} => t \notin Blank /\ t \notin Strings \union Scalars
           /\ t \in Strings \union Scalars => t \notin Blank
           /\ t \in {"}", "]"} => t \notin Blank
           /\ t \notin Marks /\ t # "missing"
           /\ t \notin White => t \notin White \union Marks
<1> USE DEF Extras, Comments, Skipped, NoBytes, Marks, White, Blank
<1>1. t \in Strings \union Scalars => Kind(t) \in {"string", "number"}
  <2>1. t \in Strings => Kind(t) \in {"string", "number"}
    BY TokensDisjoint DEF Kind
  <2>2. t \in Scalars => Kind(t) \in {"string", "number"}
    BY TokensDisjoint DEF Kind
  <2> QED
    BY <2>1, <2>2
<1>2. t \in Strings \union Scalars => t \notin Blank /\ t \notin {"}", "]", "{", "[", ":", ","}
  BY TokensDisjoint
<1>3. t \notin Strings \union Scalars =>
         t \in {" ", "tab", "nl", "comment", "comment:", "comment,", "{", "}", "[", "]", ",",
                ":", "quote", "content"}
  BY DEF Tokens
<1>4. t \notin Strings \union Scalars =>
         Kind(t) = IF t \in {"comment", "comment:", "comment,"} THEN "comment" ELSE t
  BY <1>3 DEF Kind
<1> QED
  BY <1>1, <1>2, <1>3, <1>4

\* Brackets and the containers they belong to.
LEMMA BracketTokens ==
    /\ \A kind \in Brackets : Opening[kind] \in {"{", "["}
    /\ \A t \in {"{", "["} : Container[t] \in Brackets /\ Opening[Container[t]] = t
    /\ \A t \in {"}", "]"} : Container[t] \in Brackets /\ Closing[Container[t]] = t
<1>1. Opening["object"] = "{" /\ Opening["array"] = "["
  BY DEF Opening
<1>2. Closing["object"] = "}" /\ Closing["array"] = "]"
  BY DEF Closing
<1>3. /\ Container["{"] = "object" /\ Container["}"] = "object"
      /\ Container["["] = "array" /\ Container["]"] = "array"
  BY DEF Container
<1> QED
  BY <1>1, <1>2, <1>3 DEF Brackets

\* A node more.
LEMMA FirmMore ==
    ASSUME NEW S, Firm(S), NEW n, n.tokens \in Seq(Tokens), n.children \in Seq(S), Shaped(n)
    PROVE  S \subseteq S \union {n} /\ Firm(S \union {n})
<1>1. ASSUME NEW m \in S \union {n}
      PROVE  m.tokens \in Seq(Tokens) /\ m.children \in Seq(S \union {n}) /\ Shaped(m)
  <2>1. m.tokens \in Seq(Tokens) /\ m.children \in Seq(S) /\ Shaped(m)
    BY DEF Firm
  <2>2. m.children \in Seq(S \union {n})
    <3>1. S \subseteq S \union {n}
      OBVIOUS
    <3>2. PICK c : c = m.children
      OBVIOUS
    <3>3. c \in Seq(S)
      BY <2>1, <3>2
    <3> QED
      BY <3>1, <3>2, <3>3, SeqMore
  <2> QED
    BY <2>1, <2>2
<1> QED
  BY <1>1 DEF Firm

\* A token is a node.
LEMMA LeafFirm ==
    ASSUME NEW S, Firm(S), NEW word, IsClean(word), NEW i \in 1..Len(word)
    PROVE  LET c == Leaf(word, i)
           IN  /\ S \subseteq S \union {c} /\ Firm(S \union {c})
               /\ c.tokens = SubSeq(word, i, i) /\ c.kind = Kind(word[i])
               /\ word[i] \in Tokens \ (Skipped \union NoBytes)
<1>1. IsText(word) /\ word[i] \in Tokens \ (Skipped \union NoBytes)
  BY TextTokens DEF IsClean
<1>2. PICK c : c = Leaf(word, i)
  OBVIOUS
<1>3. c.kind = Kind(word[i]) /\ c.tokens = SubSeq(word, i, i) /\ c.children = <<>>
  BY <1>2 DEF Leaf, Node
<1>4. SubSeq(word, i, i) \in Seq(Tokens) /\ SubSeq(word, i, i) = <<word[i]>>
  <2>1. Len(word) \in Nat
    BY <1>1, TextTokens
  <2>2. i \in Nat \ {0} /\ i \in Nat /\ i <= Len(word)
    BY <2>1
  <2> QED
    BY <1>1, <2>2, PartType, PartOne
<1>5. Shaped(c)
  <2>1. c.kind \notin Brackets /\ c.kind # "pair"
    BY <1>1, <1>3, CleanKinds DEF Brackets
  <2>2. c.kind \in {"string", "number"} => word[i] \in Strings \union Scalars
    BY <1>1, <1>3, CleanKinds
  <2>3. c.tokens = <<word[i]>>
    BY <1>3, <1>4
  <2> QED
    BY <2>1, <2>2, <2>3 DEF Shaped
<1>6. c.children \in Seq(S) /\ c.tokens \in Seq(Tokens)
  BY <1>3, <1>4
<1>7. S \subseteq S \union {c} /\ Firm(S \union {c})
  BY <1>5, <1>6, FirmMore
<1> QED
  BY <1>1, <1>2, <1>3, <1>7

\* An unfinished node to which nothing can be added, and the node that it becomes.
Ended(f) == f.kind # "document" /\ f.expect = "end"
Made(word, f, i) == Node(word, f.kind, f.first, i, f.children)

\* A complete node is one.
LEMMA NodeFirm ==
    ASSUME NEW S, Firm(S), NEW word, IsText(word), NEW f, NEW i \in 1..Len(word),
           Tidy(S, word, f, i), Ended(f)
    PROVE  Firm(S \union {Made(word, f, i)})
<1>1. /\ f.kind \in FrameKinds /\ f.children \in Seq(S) /\ f.first \in Nat /\ f.first # 0
      /\ HasMembers(f) /\ Reads(word, f, i) /\ f.kind # "document" /\ f.expect = "end"
  BY FrameType DEF Tidy, Ended
<1>2. PICK c : c = Made(word, f, i)
  OBVIOUS
<1>3. c.kind = f.kind /\ c.tokens = SubSeq(word, f.first, i) /\ c.children = f.children
  BY <1>2 DEF Node, Made
<1>4. c.tokens \in Seq(Tokens) /\ Bare(c.tokens) = Part(word, f.first, i)
  <2>1. Len(word) \in Nat
    BY TextTokens
  <2>2. f.first \in Nat \ {0} /\ i \in Nat /\ i <= Len(word)
    BY <1>1, <2>1
  <2> QED
    BY <1>3, <2>2, PartType DEF Part
<1>5. Shown(c) = Shown(f)
  <2>1. PICK cs : cs = f.children
    OBVIOUS
  <2>2. Members(c) = Members(f)
    <3>1. /\ Members(c) = Sifted(c.children, {n \in S : IsMember(c.kind, n)})
          /\ Members(f) = Sifted(f.children, {n \in S : IsMember(f.kind, n)})
      BY <1>1, <1>3, MembersSifted
    <3> QED
      BY <3>1, <1>3
  <2> QED
    BY <2>2, <1>3 DEF Shown, Inner
<1>6. KeyPart(c) = KeyPart(f) /\ ValuePart(c) = ValuePart(f)
      /\ (HasKey(f) => HasKey(c)) /\ (HasValue(f) => HasValue(c))
  BY <1>3 DEF KeyPart, ValuePart, HasKey, HasValue
<1>7. Shaped(c)
  <2>1. c.kind \notin {"string", "number"}
    BY <1>1, <1>3 DEF FrameKinds
  <2>2. c.kind \in Brackets => Bare(c.tokens) = Joined(Shown(c), <<Closing[c.kind]>>)
    BY <1>1, <1>3, <1>4, <1>5 DEF Reads
  <2>3. c.kind = "pair" =>
          /\ HasKey(c) /\ HasValue(c)
          /\ Bare(c.tokens) = Joined(Joined(KeyPart(c), <<":">>), ValuePart(c))
    BY <1>1, <1>3, <1>4, <1>6 DEF Reads, HasMembers
  <2> QED
    BY <2>1, <2>2, <2>3 DEF Shaped
<1> QED
  BY <1>1, <1>2, <1>3, <1>4, <1>7, FirmMore

-----------------------------------------------------------------------------
(* The stack.                                                              *)

\* The stack, with whatever nodes are in it.
Tidied(word, frames, i) == \E S : Firm(S) /\ TidyStand(S, word, frames, i)

\* A node is put into the innermost one.
LEMMA PutTidied ==
    ASSUME NEW S, NEW word, NEW frames, NEW u, TidyStand(S, word, frames, u),
           NEW R, S \subseteq R, Firm(R), NEW c, NEW e, NEW v,
           Tidy(R, word, WithChild(Last(frames), c, e), v)
    PROVE  Tidied(word, Put(frames, c, e), v)
<1>1. PICK g : g = WithChild(Last(frames), c, e)
  OBVIOUS
<1>2. g.kind = Last(frames).kind /\ g.first = Last(frames).first
  BY <1>1 DEF WithChild, Unfinished
<1>3. TidyStand(R, word, Append(Front(frames), g), v)
  BY <1>1, <1>2, TidyReplaced
<1> QED
  BY <1>1, <1>3 DEF Tidied, Put

\* A node begins.
LEMMA PushTidied ==
    ASSUME NEW S, NEW word, IsClean(word), NEW i \in 1..Len(word), NEW frames,
           Firm(S), TidyStand(S, word, frames, i - 1),
           NEW kind \in {"object", "array", "pair"}, NEW e \in Expects,
           Opens(kind, word[i], e),
           Last(frames).expect \in {"first", "member"},
           kind = "pair" <=> Last(frames).kind = "object"
    PROVE  Tidied(word, Append(frames, Unfinished(kind, i, <<Leaf(word, i)>>, e)), i)
<1>1. PICK c, g : c = Leaf(word, i) /\ g = Unfinished(kind, i, <<c>>, e)
  OBVIOUS
<1>2. PICK R : R = S \union {c}
  OBVIOUS
<1>3. /\ S \subseteq R /\ Firm(R) /\ c.tokens = SubSeq(word, i, i) /\ c.kind = Kind(word[i])
      /\ word[i] \in Tokens \ (Skipped \union NoBytes) /\ c \in R
  <2>1. LET d == Leaf(word, i)
        IN  /\ S \subseteq S \union {d} /\ Firm(S \union {d})
            /\ d.tokens = SubSeq(word, i, i) /\ d.kind = Kind(word[i])
            /\ word[i] \in Tokens \ (Skipped \union NoBytes)
    BY LeafFirm
  <2> QED
    BY <2>1, <1>1, <1>2
<1>4. PICK token : token = word[i]
  OBVIOUS
<1>5. word[i] \notin Blank /\ (kind = "pair" \/ ~IsMember(kind, c))
  <2>1. token \in Tokens \ (Skipped \union NoBytes) /\ c.kind = Kind(token)
        /\ Opens(kind, token, e)
    BY <1>3, <1>4
  <2>2. kind \in Brackets => token \in {"{", "["}
    BY <2>1, BracketTokens DEF Opens
  <2>3. c.kind # "pair" /\ (kind \in Brackets => ~IsValueNode(c))
    BY <2>1, <2>2, CleanKinds DEF IsValueNode
  <2>4. kind = "pair" \/ ~IsMember(kind, c)
    BY <2>3 DEF IsMember, Brackets
  <2>5. token \notin Blank
    BY <2>1, <2>2, CleanKinds DEF Brackets, Opens
  <2> QED
    BY <2>4, <2>5, <1>4
<1>6. Tidy(R, word, g, i)
  <2>1. IsText(word)
    BY DEF IsClean
  <2> QED
    BY <2>1, <1>1, <1>3, <1>5, NodeTidy
<1>7. Within(Last(frames), g) /\ g.first = i
  BY <1>1 DEF Within, Unfinished
<1>8. i \in Nat \ {0}
  OBVIOUS
<1>9. TidyStand(R, word, Append(frames, g), i)
  BY <1>3, <1>6, <1>7, <1>8, TidyPushed
<1> QED
  BY <1>1, <1>3, <1>9 DEF Tidied

\* A token.
LEMMA ShiftLeafTidied ==
    ASSUME NEW word, IsClean(word), NEW i \in 1..Len(word), NEW frames,
           Tidied(word, frames, i - 1), Last(frames).expect # "end"
    PROVE  LET r == ShiftLeaf(word, i, frames, Last(frames), Leaf(word, i))
           IN  r # <<>> => Tidied(word, r, i)
<1>1. PICK top, leaf, token : top = Last(frames) /\ leaf = Leaf(word, i) /\ token = word[i]
  OBVIOUS
<1>2. PICK r : r = ShiftLeaf(word, i, frames, top, leaf)
  OBVIOUS
<1>3. PICK S : Firm(S) /\ TidyStand(S, word, frames, i - 1)
  BY DEF Tidied
<1>4. /\ Tidy(S, word, top, i - 1) /\ top.kind \in FrameKinds /\ top.kind # "error"
      /\ top.expect \in Expects /\ top.expect \notin {"any", "end"}
      /\ HasMembers(top)
  <2>1. Tidy(S, word, top, i - 1)
    BY <1>1, <1>3, TidyTop
  <2>2. top \in Frames(S) /\ top.kind # "error" /\ HasMembers(top)
    BY <2>1 DEF Tidy
  <2>3. top.kind \in FrameKinds /\ top.expect \in Expects
    BY <2>2, FrameType
  <2>4. top.expect # "any"
    BY <2>2, <2>3 DEF HasMembers, FrameKinds, Brackets
  <2> QED
    BY <2>1, <2>2, <2>3, <2>4, <1>1
<1>5. PICK R : R = S \union {leaf}
  OBVIOUS
<1>6. /\ S \subseteq R /\ Firm(R) /\ leaf \in R
      /\ leaf.tokens = SubSeq(word, i, i) /\ leaf.kind = Kind(token)
      /\ token \in Tokens \ (Skipped \union NoBytes)
  BY <1>1, <1>3, <1>5, LeafFirm
<1>7. /\ token \notin Marks /\ token # "missing" /\ leaf.kind # "pair"
      /\ leaf.kind \in {"}", "]"} => token = leaf.kind
      /\ IsValueNode(leaf) <=> token \in Strings \union Scalars
  BY <1>6, CleanKinds DEF IsValueNode
<1>8. IsText(word) /\ Len(word) \in Nat /\ i \in Nat /\ i - 1 \in Nat /\ i - 1 < i /\ i <= Len(word)
      /\ (i - 1) + 1 = i
  <2>1. IsText(word)
    BY DEF IsClean
  <2>2. Len(word) \in Nat
    BY <2>1, TextTokens
  <2> QED
    BY <2>1, <2>2
<1>9. token \notin Strings \union Scalars => ~IsMember(top.kind, leaf)
  BY <1>7 DEF IsMember
<1> SUFFICES ASSUME r # <<>> PROVE Tidied(word, r, i)
  BY <1>1, <1>2
<1>10. CASE token \in White /\ r = frames
  <2>1. Tidy(S, word, top, i)
    BY <1>1, <1>4, <1>8, <1>10, WhiteTidy
  <2>2. TidyStand(S, word, frames, i)
    <3>1. top = frames[Len(frames)]
      BY <1>1, <1>3, TidyTop
    <3> QED
      BY <2>1, <3>1, <1>3 DEF TidyStand
  <2> QED
    BY <2>2, <1>3, <1>10 DEF Tidied
<1>11. CASE token \in Extras /\ r = Put(frames, leaf, top.expect)
  <2>1. word[i] \in Blank
    BY <1>1, <1>11 DEF Blank
  <2>2. ~IsMember(top.kind, leaf)
    <3>1. token \in Blank
      BY <2>1, <1>1
    <3> QED
      BY <3>1, <1>6, <1>9, CleanKinds
  <2>3. Tidy(R, word, WithChild(top, leaf, top.expect), i)
    BY <2>1, <2>2, <1>1, <1>4, <1>6, <1>8, CommentTidy
  <2> QED
    BY <2>3, <1>1, <1>3, <1>6, <1>11, PutTidied
<1>12. CASE /\ top.expect \in {"first", "member"} /\ top.kind \in {"object", "error"}
            /\ token \in Strings \union {"missing"}
            /\ r = Append(frames, Unfinished("pair", i, <<leaf>>, "colon"))
  <2>1. word[i] \in Strings /\ top.kind = "object"
    BY <1>1, <1>4, <1>7, <1>12
  <2>2. Opens("pair", word[i], "colon") /\ "colon" \in Expects
    BY <2>1 DEF Opens, Brackets, Expects
  <2> QED
    BY <2>1, <2>2, <1>1, <1>3, <1>12, PushTidied
<1>13. CASE /\ top.expect \in {"first", "member"} /\ top.kind \notin {"object", "error"}
            /\ token \in Leaves /\ r = PutMember(frames, leaf)
  <2>1. token \in Strings \union Scalars
    BY <1>7, <1>13 DEF Leaves
  <2>2. IsMember(top.kind, leaf)
    BY <2>1, <1>7, <1>13 DEF IsMember
  <2>3. leaf.tokens = SubSeq(word, (i - 1) + 1, i)
    BY <1>6, <1>8
  <2>4. Tidy(R, word, WithChild(top, leaf, AfterMember[top.kind]), i)
    BY <2>2, <2>3, <1>4, <1>6, <1>8, <1>13, MemberTidy
  <2>5. Tidied(word, Put(frames, leaf, AfterMember[top.kind]), i)
    BY <2>4, <1>1, <1>3, <1>6, PutTidied
  <2> QED
    BY <2>5, <1>1, <1>13 DEF PutMember
<1>14. CASE /\ top.expect \in {"first", "member"} /\ top.kind \notin {"object", "error"}
            /\ token \in {"{", "["}
            /\ r = Append(frames, Unfinished(Container[token], i, <<leaf>>, "first"))
  <2>1. PICK kind : kind = Container[token]
    OBVIOUS
  <2>2. kind \in {"object", "array"} /\ Opens(kind, token, "first") /\ kind # "pair"
    BY <2>1, <1>14, BracketTokens DEF Opens, Brackets
  <2>3. "first" \in Expects
    BY DEF Expects
  <2> QED
    BY <2>1, <2>2, <2>3, <1>1, <1>3, <1>14, PushTidied
<1>15. CASE \/ token = ":" /\ top.expect = "colon" /\ r = Put(frames, leaf, "member")
            \/ token = "," /\ top.expect = "comma" /\ r = Put(frames, leaf, "member")
  <2>1. word[i] \notin Blank /\ token \notin Strings \union Scalars
    BY <1>1, <1>6, <1>15, CleanKinds
  <2>2. Marked(top, word[i], "member") /\ r = Put(frames, leaf, "member")
    BY <1>1, <1>15 DEF Marked
  <2>3. Tidy(R, word, WithChild(top, leaf, "member"), i)
    BY <2>1, <2>2, <1>4, <1>6, <1>8, <1>9, MarkTidy
  <2> QED
    BY <2>2, <2>3, <1>1, <1>3, <1>6, PutTidied
<1>16. CASE /\ leaf.kind \in {"}", "]"} /\ top.kind = Container[leaf.kind]
            /\ top.expect \in {"first", "comma"} /\ r = Put(frames, leaf, "end")
  <2>1. token \in {"}", "]"} /\ top.kind = Container[token]
    BY <1>7, <1>16
  <2>2. token \notin Blank /\ token \notin Strings \union Scalars
    <3>1. token \notin Blank
      BY <2>1, <1>6, CleanKinds
    <3>2. token \notin Strings \union Scalars
      BY <1>6, <1>16, CleanKinds
    <3> QED
      BY <3>1, <3>2
  <2>3. Marked(top, token, "end")
    <3>1. top.kind \in Brackets /\ token = Closing[top.kind]
      BY <2>1, BracketTokens
    <3> QED
      BY <3>1, <1>16 DEF Marked
  <2>4. Tidy(R, word, WithChild(top, leaf, "end"), i)
    <3>1. word[i] \notin Blank /\ Marked(top, word[i], "end")
      BY <2>2, <2>3, <1>1
    <3> QED
      BY <3>1, <2>2, <1>4, <1>6, <1>8, <1>9, MarkTidy
  <2> QED
    BY <2>4, <1>1, <1>3, <1>6, <1>16, PutTidied
<1>17. Outcome(word, i, frames, top, leaf, token, r)
  BY <1>1, <1>2, ShiftCases
<1> QED
  BY ZenonT(90), <1>4, <1>7, <1>10, <1>11, <1>12, <1>13, <1>14, <1>15, <1>16, <1>17 DEF Outcome

\* A complete node becomes a child of the one around it.
LEMMA SettleTidied ==
    ASSUME NEW word, IsText(word), NEW i \in 1..Len(word), NEW frames,
           Tidied(word, frames, i)
    PROVE  Tidied(word, Settle(word, i, frames), i)
<1>1. PICK S : Firm(S) /\ TidyStand(S, word, frames, i)
  BY DEF Tidied
<1>2. PICK top : top = Last(frames)
  OBVIOUS
<1>3. CASE top.expect # "end"
  BY <1>2, <1>3 DEF Settle
<1>4. CASE top.expect = "end"
  <2>1. Tidy(S, word, top, i)
    BY <1>1, <1>2, TidyTop
  <2>2. /\ top.kind \in FrameKinds \ {"document", "error"} /\ top.first \in Nat
        /\ top.first # 0 /\ top.first <= i
    BY <2>1, <1>4, FrameType DEF Tidy, HasMembers
  <2>3. PICK under, u, f : under = Front(frames) /\ u = top.first - 1 /\ f = Last(under)
    OBVIOUS
  <2>4. TidyStand(S, word, under, u) /\ Within(f, top)
    BY <2>2, <2>3, <1>1, <1>2, TidyPopped
  <2>5. Tidy(S, word, f, u)
    BY <2>3, <2>4, TidyTop
  <2>6. PICK c : c = Node(word, top.kind, top.first, i, top.children)
    OBVIOUS
  <2>7. PICK R : R = S \union {c}
    OBVIOUS
  <2>8. /\ S \subseteq R /\ Firm(R) /\ c \in R
        /\ c.tokens = SubSeq(word, top.first, i) /\ c.kind = top.kind
    <3>1. Ended(top) /\ Firm(S)
      BY <2>2, <1>1, <1>4 DEF Ended
    <3>2. c = Made(word, top, i)
      BY <2>6 DEF Made
    <3>3. Firm(S \union {Made(word, top, i)})
      BY Zenon, <3>1, <2>1, NodeFirm
    <3>4. c.tokens = SubSeq(word, top.first, i) /\ c.kind = top.kind
      BY <2>6 DEF Node
    <3> QED
      BY <3>2, <3>3, <3>4, <2>7
  <2>9. IsMember(f.kind, c)
    BY <2>2, <2>4, <2>8 DEF IsMember, IsValueNode, Within, FrameKinds
  <2>10. u + 1 = top.first /\ u < i /\ i \in Nat /\ i <= Len(word)
    <3>1. Len(word) \in Nat
      BY TextTokens
    <3> QED
      BY <3>1, <2>2, <2>3
  <2>11. f.expect \in {"first", "member"}
    BY <2>4 DEF Within
  <2>12. Tidy(R, word, WithChild(f, c, AfterMember[f.kind]), i)
    BY <2>5, <2>8, <2>9, <2>10, <2>11, MemberTidy
  <2>13. Tidied(word, Put(under, c, AfterMember[f.kind]), i)
    BY <2>3, <2>4, <2>8, <2>12, PutTidied
  <2>14. Settle(word, i, frames) = Put(under, c, AfterMember[f.kind])
    BY <2>3, <2>6, <1>2, <1>4 DEF Settle, PutMember
  <2> QED
    BY <2>13, <2>14
<1> QED
  BY <1>3, <1>4

\* A token with what it completes.
LEMMA ShiftTidied ==
    ASSUME NEW word, IsClean(word), NEW i \in 1..Len(word), NEW frames,
           Tidied(word, frames, i - 1), Last(frames).expect # "end",
           Shift(word, i, frames) # <<>>
    PROVE  Tidied(word, Shift(word, i, frames), i)
<1>1. PICK r : r = ShiftLeaf(word, i, frames, Last(frames), Leaf(word, i))
  OBVIOUS
<1>2. frames # <<>>
  BY DEF Shift
<1>3. Shift(word, i, frames) = SettleTwice(word, i, r)
  BY <1>1, <1>2 DEF Shift
<1>4. r # <<>> /\ SettleTwice(word, i, r) = Settle(word, i, Settle(word, i, r))
  BY <1>3 DEF SettleTwice
<1>5. Tidied(word, r, i) /\ IsText(word)
  BY <1>1, <1>4, ShiftLeafTidied DEF IsClean
<1> QED
  BY <1>3, <1>4, <1>5, SettleTidied

\* The stacks are tidy, as long as there is no error.
LEMMA StacksTidied ==
    ASSUME NEW word, IsClean(word), NEW f, Stacks(word, Len(word), f)
    PROVE  \A i \in 0..Len(word) : f[i] # <<>> => Tidied(word, f[i], i)
<1> DEFINE Holds(i) == f[i] # <<>> => Tidied(word, f[i], i)
<1>1. Len(word) \in Nat /\ IsText(word)
  BY TextTokens DEF IsClean
<1>2. \A i \in 0..Len(word) : f[i] = IF i = 0 THEN StartFrames ELSE Shift(word, i, f[i - 1])
  BY DEF Stacks
<1>3. Holds(0)
  <2>1. f[0] = StartFrames
    BY <1>1, <1>2
  <2>2. PICK g : g = Unfinished("document", 1, <<>>, "member")
    OBVIOUS
  <2>3. StartFrames = <<g>>
    BY <2>2 DEF StartFrames
  <2>4. /\ g.kind = "document" /\ g.first = 1 /\ g.expect = "member" /\ g \in Frames({})
    <3>1. <<>> \in Seq({})
      OBVIOUS
    <3> QED
      BY <3>1, <2>2 DEF Unfinished, Frames, FrameKinds
  <2>5. Tidy({}, word, g, 0)
    BY <2>4, <1>1 DEF Tidy, HasMembers, Reads, Brackets
  <2>6. <<g>> \in Seq(Frames({})) /\ Len(<<g>>) = 1 /\ <<g>>[1] = g /\ <<g>> # <<>>
    BY <2>4
  <2>7. TidyStand({}, word, <<g>>, 0)
    BY <2>4, <2>5, <2>6 DEF TidyStand
  <2>8. Firm({})
    BY DEF Firm
  <2> QED
    BY <2>1, <2>3, <2>7, <2>8 DEF Tidied
<1>4. ASSUME NEW i \in 0..Len(word), i # 0, Holds(i - 1) PROVE Holds(i)
  <2>1. f[i] = Shift(word, i, f[i - 1])
    BY <1>2, <1>4
  <2>2. i \in 1..Len(word) /\ i - 1 \in 0..Len(word)
    BY <1>1, <1>4
  <2> SUFFICES ASSUME f[i] # <<>> PROVE Tidied(word, f[i], i)
    OBVIOUS
  <2>3. f[i - 1] # <<>>
    BY <2>1 DEF Shift
  <2>4. PICK frames : frames = f[i - 1]
    OBVIOUS
  <2>5. Tidied(word, frames, i - 1) /\ Last(frames).expect # "end"
    BY <2>2, <2>3, <2>4, <1>1, <1>4, StacksStand
  <2>6. Shift(word, i, frames) # <<>>
    BY <2>1, <2>4
  <2> QED
    BY <2>1, <2>2, <2>4, <2>5, <2>6, ShiftTidied
<1> HIDE DEF Holds
<1>5. \A i \in 0..Len(word) : Holds(i)
  <2> DEFINE Bad == {i \in 0..Len(word) : ~Holds(i)}
  <2> SUFFICES ASSUME Bad # {} PROVE FALSE
    OBVIOUS
  <2>1. PICK i \in Bad : \A k \in Bad : i <= k
    <3>1. Bad \in SUBSET Nat
      BY <1>1
    <3> HIDE DEF Bad
    <3> QED
      BY <3>1, LeastNatural
  <2>2. i \in 0..Len(word) /\ ~Holds(i)
    BY <2>1
  <2>3. i # 0
    BY <2>2, <1>3
  <2>4. i - 1 \in 0..Len(word) /\ ~(i <= i - 1)
    BY <2>2, <2>3, <1>1
  <2>5. Holds(i - 1)
    BY <2>1, <2>4
  <2> QED
    BY <2>2, <2>3, <2>5, <1>4
<1> QED
  BY <1>5 DEF Holds

\* The children of the root are firm, and so is all that is below them.
LEMMA FirmChildren ==
    ASSUME NEW word, IsClean(word), Parse(word) # <<>>
    PROVE  \E S : /\ Firm(S) /\ Parse(word)[1].children \in Seq(S)
                  /\ Parse(word)[1].tokens \in Seq(Tokens)
<1> DEFINE n == Len(word)
<1>1. n \in Nat /\ IsText(word)
  BY TextTokens DEF IsClean
<1>2. PICK f : f = CHOOSE g : Stacks(word, n, g)
  OBVIOUS
<1>3. Stacks(word, n, f)
  BY <1>1, <1>2, StacksExist
<1>4. Parse(word) = Document(word, f[n])
  BY <1>2 DEF Parse, Stacks, StartFrames
<1>5. PICK s : s = f[n]
  OBVIOUS
<1>6. Len(s) = 1 /\ Parse(word) = <<Node(word, "document", 1, n, s[1].children)>>
  BY <1>4, <1>5 DEF Document
<1>7. s # <<>> /\ n \in 0..Len(word)
  BY <1>1, <1>6
<1>8. Tidied(word, s, n)
  BY <1>3, <1>5, <1>7, StacksTidied
<1>9. PICK S : Firm(S) /\ TidyStand(S, word, s, n)
  BY <1>8 DEF Tidied
<1>10. s[1].children \in Seq(S)
  <2>1. Tidy(S, word, s[1], n)
    BY <1>6, <1>9 DEF TidyStand
  <2> QED
    BY <2>1, FrameType DEF Tidy
<1>11. /\ Parse(word)[1].children = s[1].children
       /\ Parse(word)[1].tokens = SubSeq(word, 1, n)
  BY <1>6 DEF Node
<1>12. SubSeq(word, 1, n) \in Seq(Tokens)
  <2>1. 1 \in Nat \ {0} /\ n <= Len(word)
    BY <1>1
  <2> QED
    BY <2>1, <1>1, PartType
<1> QED
  BY <1>9, <1>10, <1>11, <1>12

\* The nodes of a tree are among them, if those of the first level are.
LEMMA FirmNodes ==
    ASSUME NEW S, Firm(S), NEW tree, tree.children \in Seq(S), Len(tree.tokens) \in Nat
    PROVE  Nodes(tree) \subseteq S \union {tree}
<1>1. ASSUME NEW node \in S \union {tree} PROVE ToSet(node.children) \subseteq S \union {tree}
  <2>1. PICK cs : cs = node.children
    OBVIOUS
  <2>2. cs \in Seq(S)
    BY <2>1 DEF Firm
  <2>3. \A i \in DOMAIN cs : cs[i] \in S
    BY <2>2
  <2> QED
    BY <2>1, <2>3 DEF ToSet
<1>2. PICK U : U = S \union {tree}
  OBVIOUS
<1>3. tree \in U /\ \A node \in U : ToSet(node.children) \subseteq U
  BY <1>1, <1>2
<1>4. PICK l \in [0..(Len(tree.tokens) + 1) -> SUBSET U] :
         /\ \A k \in 0..(Len(tree.tokens) + 1) :
               l[k] = IF k = 0 THEN {tree}
                      ELSE UNION {ToSet(node.children) : node \in l[k - 1]}
         /\ Nodes(tree) = UNION {l[k] : k \in 0..(Len(tree.tokens) + 1)}
  BY <1>3, NodeLevels
<1> QED
  BY <1>2, <1>4

-----------------------------------------------------------------------------
(* White space.                                                            *)

\* Nothing but white space.
IsBlank(s) == s \in Seq(Tokens) /\ Without(s, White) = <<>>

\* White space changes nothing of the rest of a text.
LEMMA BlankJoined ==
    ASSUME NEW s, IsBlank(s), NEW t \in Seq(Tokens)
    PROVE  /\ Joined(s, t) \in Seq(Tokens) /\ Without(Joined(s, t), White) = Without(t, White)
           /\ Joined(t, s) \in Seq(Tokens) /\ Without(Joined(t, s), White) = Without(t, White)
           /\ Without(t, White) \in Seq(Tokens)
<1>1. s \in Seq(Tokens) /\ Without(s, White) = <<>>
  BY DEF IsBlank
<1>2. PICK w : w = Without(t, White)
  OBVIOUS
<1>3. w \in Seq(Tokens)
  BY <1>2, WithoutJoined
<1>4. Joined(<<>>, w) = w /\ Joined(w, <<>>) = w
  BY <1>3, JoinedEmpty
<1>5. /\ Without(Joined(s, t), White) = Joined(Without(s, White), w)
      /\ Without(Joined(t, s), White) = Joined(w, Without(s, White))
  BY <1>1, <1>2, WithoutJoined
<1>6. Joined(s, t) \in Seq(Tokens) /\ Joined(t, s) \in Seq(Tokens)
  BY <1>1, JoinedTexts
<1> QED
  BY <1>1, <1>2, <1>3, <1>4, <1>5, <1>6

\* A token of it.
LEMMA BlankToken ==
    ASSUME NEW x \in White
    PROVE  IsBlank(<<x>>)
<1>1. x \in Tokens
  BY DEF Tokens
<1> QED
  BY <1>1, WithoutOne DEF IsBlank

\* Repeated, as the indentation is.
LEMMA BlankRepeat ==
    ASSUME NEW s, IsBlank(s), NEW n \in Nat
    PROVE  IsBlank(Repeat(s, n))
<1> DEFINE c(k) == [i \in 1..k |-> s]
<1> DEFINE Bad == {k \in Nat : ~IsBlank(FlattenSeq(c(k)))}
<1>1. PICK W : W = Seq(Tokens)
  OBVIOUS
<1>2. s \in W
  BY <1>1 DEF IsBlank
<1>3. ASSUME NEW k \in Nat PROVE c(k) \in Seq(W) /\ Len(c(k)) = k /\ \A i \in 1..k : c(k)[i] = s
  BY <1>2, SeqMade
<1>4. c(0) = <<>>
  OBVIOUS
<1>5. ASSUME NEW k \in Nat, k # 0 PROVE c(k) = Append(c(k - 1), s)
  <2>1. k - 1 \in Nat /\ (k - 1) + 1 = k /\ k \in 1..k /\ \A i \in 1..(k - 1) : i \in 1..k
    BY <1>5
  <2>2. PICK a, b : a = c(k - 1) /\ b = c(k)
    OBVIOUS
  <2>3. /\ a \in Seq(W) /\ Len(a) = k - 1 /\ \A i \in 1..(k - 1) : a[i] = s
        /\ b \in Seq(W) /\ Len(b) = k /\ \A i \in 1..k : b[i] = s
    BY <2>1, <2>2, <1>3
  <2> HIDE DEF c
  <2>4. b = Append(a, s)
    BY <2>1, <2>3, <1>2, AppendIs
  <2> QED
    BY <2>2, <2>4
<1> HIDE DEF c
<1>6. IsBlank(<<>>)
  <2>1. PICK e : e = <<>>
    OBVIOUS
  <2>2. e \in Seq(Tokens) /\ \A i \in 1..Len(e) : e[i] \in White
    BY <2>1
  <2>3. Without(e, White) = <<>>
    BY <2>2, WithoutAll
  <2> QED
    BY <2>1, <2>2, <2>3 DEF IsBlank
<1>7. Bad = {}
  <2> SUFFICES ASSUME Bad # {} PROVE FALSE
    OBVIOUS
  <2>1. PICK k \in Bad : \A j \in Bad : k <= j
    <3>1. Bad \in SUBSET Nat
      OBVIOUS
    <3> HIDE DEF Bad
    <3> QED
      BY <3>1, LeastNatural
  <2>2. k \in Nat /\ ~IsBlank(FlattenSeq(c(k)))
    BY <2>1
  <2>3. k # 0
    BY <2>2, <1>4, <1>6, SiftedEmpty
  <2>4. k - 1 \in Nat /\ ~(k <= k - 1)
    BY <2>2, <2>3
  <2>5. IsBlank(FlattenSeq(c(k - 1)))
    BY <2>1, <2>4
  <2>6. PICK a, r : a = c(k - 1) /\ r = FlattenSeq(a)
    OBVIOUS
  <2>7. a \in Seq(W) /\ IsBlank(r)
    BY <2>4, <2>5, <2>6, <1>3
  <2>8. FlattenSeq(Append(a, s)) = Joined(r, s)
    <3>1. FlattenSeq(Append(a, s)) = FlattenSeq(a) \o s
      BY <2>7, <1>1, <1>2, FlattenMore
    <3> QED
      BY <3>1, <2>6 DEF Joined
  <2>9. IsBlank(Joined(r, s))
    <3>1. s \in Seq(Tokens) /\ Without(s, White) = <<>>
      BY DEF IsBlank
    <3> QED
      BY <3>1, <2>7, BlankJoined DEF IsBlank
  <2> QED
    BY <2>2, <2>3, <2>6, <2>8, <2>9, <1>5
<1>8. IsBlank(FlattenSeq(c(n)))
  BY <1>7
<1> QED
  BY <1>8 DEF c, Repeat

\* The indentation is blank.
LEMMA IndentBlank ==
    ASSUME NEW options \in Options
    PROVE  IsBlank(Indent(options))
<1>1. " " \in White /\ "tab" \in White
  BY DEF White
<1>2. PICK x, y : x = " " /\ y = "tab"
  OBVIOUS
<1>3. IsBlank(<<x>>) /\ IsBlank(<<y>>)
  BY <1>1, <1>2, BlankToken
<1>4. options.tabSize \in Nat
  BY OptionsType
<1>5. IsBlank(Repeat(<<x>>, options.tabSize))
  BY <1>3, <1>4, BlankRepeat
<1> QED
  BY <1>2, <1>3, <1>5 DEF Indent

-----------------------------------------------------------------------------
(* Lines and blocks.                                                       *)

\* Two tokens are one after another.
LEMMA TwoJoined ==
    ASSUME NEW x, NEW y
    PROVE  <<x, y>> = Joined(<<x>>, <<y>>)
<1>1. PICK V, a, e : V = {x, y} /\ a = <<x>> /\ e = <<>>
  OBVIOUS
<1>2. a \in Seq(V) /\ e \in Seq(V) /\ y \in V
  BY <1>1
<1>3. a \o Append(e, y) = Append(a \o e, y)
  BY <1>2, JoinMore
<1>4. Joined(a, e) = a
  BY <1>1, <1>2, JoinedEmpty
<1>5. Append(e, y) = <<y>> /\ Append(a, y) = <<x, y>>
  <2>1. Append(<<>>, y) = <<y>>
    OBVIOUS
  <2>2. PICK b, c : b = Append(a, y) /\ c = <<x, y>>
    OBVIOUS
  <2>3. b \in Seq(V) /\ Len(b) = 2 /\ b[1] = x /\ b[2] = y
    BY <1>1, <1>2, <2>2
  <2>4. c \in Seq(V) /\ Len(c) = 2 /\ c[1] = x /\ c[2] = y
    BY <1>1, <2>2
  <2>5. \A i \in 1..Len(b) : i = 1 \/ i = 2
    BY <2>3
  <2>6. b = c
    BY <2>3, <2>4, <2>5, SeqEqual
  <2> QED
    BY <2>1, <2>2, <2>6, <1>1
<1> QED
  BY <1>1, <1>3, <1>4, <1>5 DEF Joined

\* A line of a block is its part, with a comma unless it is the last one.
LEMMA LineReads ==
    ASSUME NEW r, IsBlank(r), NEW part \in Seq(Tokens), NEW mark \in {<<>>, <<",">>}
    PROVE  /\ r \o part \o mark \o <<"nl">> \in Seq(Tokens)
           /\ Without(r \o part \o mark \o <<"nl">>, White) = Joined(Without(part, White), mark)
<1>1. PICK x, e : x = "nl" /\ e = <<x>>
  OBVIOUS
<1>2. IsBlank(e)
  BY <1>1, BlankToken DEF White
<1>3. mark \in Seq(Tokens) /\ Without(mark, White) = mark
  <2>1. CASE mark = <<>>
    <3>1. mark \in Seq(Tokens) /\ \A i \in 1..Len(mark) : mark[i] \in White
      BY <2>1
    <3> QED
      BY <3>1, <2>1, WithoutAll
  <2>2. CASE mark = <<",">>
    <3>1. PICK c : c = ","
      OBVIOUS
    <3>2. c \in Tokens /\ c \notin White
      BY <3>1 DEF Tokens, White
    <3> QED
      BY <3>1, <3>2, <2>2, WithoutOne
  <2> QED
    BY <2>1, <2>2
<1>4. PICK p : p = Joined(r, part)
  OBVIOUS
<1>5. p \in Seq(Tokens) /\ Without(p, White) = Without(part, White)
  BY <1>4, BlankJoined
<1>6. PICK q : q = Joined(p, mark)
  OBVIOUS
<1>7. q \in Seq(Tokens) /\ Without(q, White) = Joined(Without(part, White), mark)
  <2>1. Without(Joined(p, mark), White) = Joined(Without(p, White), Without(mark, White))
    BY <1>3, <1>5, WithoutJoined
  <2>2. Joined(p, mark) \in Seq(Tokens)
    BY <1>3, <1>5, JoinedTexts
  <2> QED
    BY <2>1, <2>2, <1>3, <1>5, <1>6
<1>8. Joined(q, e) \in Seq(Tokens) /\ Without(Joined(q, e), White) = Without(q, White)
  BY <1>2, <1>7, BlankJoined
<1>9. r \o part \o mark \o <<"nl">> = Joined(q, e)
  BY <1>1, <1>4, <1>6 DEF Joined
<1> QED
  BY <1>7, <1>8, <1>9

\* What a part of a block is without white space.
Bright(parts) == [i \in DOMAIN parts |-> Without(parts[i], White)]

\* The lines of a block are its parts with commas between them.
LEMMA LinesRead ==
    ASSUME NEW r, IsBlank(r), NEW parts \in Seq(Seq(Tokens))
    PROVE  LET lines == FlattenSeq([i \in DOMAIN parts |->
                            r \o parts[i] \o (IF i < Len(parts) THEN <<",">> ELSE <<>>) \o <<"nl">>])
           IN  /\ lines \in Seq(Tokens)
               /\ Without(lines, White) = List(Bright(parts), <<",">>)
<1>0. PICK W, n : W = Seq(Tokens) /\ n = Len(parts)
  OBVIOUS
<1>2. n \in Nat /\ DOMAIN parts = 1..n /\ \A i \in 1..n : parts[i] \in W
  <2>1. parts \in Seq(W)
    BY <1>0
  <2> QED
    BY <2>1, <1>0
<1>1. PICK c : c = <<",">> /\ W = Seq(Tokens) /\ n = Len(parts)
  BY <1>0
<1> DEFINE mark(i) == IF i < n THEN c ELSE <<>>
<1>3. ASSUME NEW i \in 1..n PROVE mark(i) \in {<<>>, c}
  OBVIOUS
<1> HIDE DEF mark
<1> DEFINE line(i) == r \o parts[i] \o mark(i) \o <<"nl">>
<1>4. ASSUME NEW i \in 1..n
      PROVE  line(i) \in W /\ Without(line(i), White) = Joined(Without(parts[i], White), mark(i))
  <2>1. mark(i) \in {<<>>, <<",">>} /\ parts[i] \in Seq(Tokens)
    BY <1>1, <1>2, <1>3
  <2>2. PICK k, p : k = mark(i) /\ p = parts[i]
    OBVIOUS
  <2>3. k \in {<<>>, <<",">>} /\ p \in Seq(Tokens)
    BY <2>1, <2>2
  <2>4. /\ r \o p \o k \o <<"nl">> \in Seq(Tokens)
        /\ Without(r \o p \o k \o <<"nl">>, White) = Joined(Without(p, White), k)
    BY <2>3, LineReads
  <2> QED
    BY <2>2, <2>4, <1>1
<1> HIDE DEF line
<1>5. PICK ls : ls = [i \in 1..n |-> line(i)]
  OBVIOUS
<1>6. ls \in [1..n -> W] /\ \A i \in 1..n : ls[i] = line(i)
  BY <1>4, <1>5
<1>7. ls \in Seq(W) /\ Len(ls) = n /\ DOMAIN ls = 1..n
  BY <1>2, <1>6, SeqMade
<1>8. FlattenSeq(ls) \in Seq(Tokens)
  <2>1. ls \in Seq(Seq(Tokens))
    BY <1>1, <1>7
  <2>2. <<>> \in Seq(Tokens)
    OBVIOUS
  <2> QED
    BY <2>1, <2>2, FlattenMore
<1>9. Without(FlattenSeq(ls), White) = FlattenSeq([i \in DOMAIN ls |-> Without(ls[i], White)])
  BY <1>1, <1>7, WithoutParts
<1>10. PICK b : b = Bright(parts)
  OBVIOUS
<1>11. DOMAIN b = 1..n /\ Len(b) = n /\ \A i \in 1..n : b[i] = Without(parts[i], White)
  <2>1. b = [i \in 1..n |-> Without(parts[i], White)]
    BY <1>2, <1>10 DEF Bright
  <2>2. \A i \in 1..n : Without(parts[i], White) \in W
    BY <1>1, <1>2, WithoutJoined
  <2>3. b \in [1..n -> W]
    BY <2>1, <2>2
  <2> QED
    BY <2>1, <2>3, <1>2, SeqMade
<1>12. [i \in DOMAIN ls |-> Without(ls[i], White)] = [i \in DOMAIN b |-> Joined(b[i], mark(i))]
  BY <1>4, <1>6, <1>7, <1>11
<1>13. List(b, c) = FlattenSeq([i \in DOMAIN b |-> Joined(b[i], mark(i))])
  BY <1>11 DEF List, Joined, mark
<1>14. ls = [i \in DOMAIN parts |->
                r \o parts[i] \o (IF i < Len(parts) THEN <<",">> ELSE <<>>) \o <<"nl">>]
  BY <1>1, <1>2, <1>5 DEF line, mark
<1> QED
  BY <1>1, <1>8, <1>9, <1>10, <1>12, <1>13, <1>14

\* Brackets with parts between them.
Wrapped(open, parts, close) == Joined(Joined(<<open>>, List(parts, <<",">>)), <<close>>)

\* A block is its brackets with its parts between them.
LEMMA BlockReads ==
    ASSUME NEW indent, IsBlank(indent), NEW parts \in Seq(Seq(Tokens)), NEW depth \in Nat,
           NEW open \in Tokens \ White, NEW close \in Tokens \ White
    PROVE  /\ Block(open, close, parts, indent, depth) \in Seq(Tokens)
           /\ Without(Block(open, close, parts, indent, depth), White)
                = Wrapped(open, Bright(parts), close)
<1> USE DEF Wrapped
<1>1. PICK o, c, e : o = <<open>> /\ c = <<close>> /\ e = <<"nl">>
  OBVIOUS
<1>2. o \in Seq(Tokens) /\ Without(o, White) = o /\ c \in Seq(Tokens) /\ Without(c, White) = c
  BY <1>1, WithoutOne
<1>3. IsBlank(e)
  BY <1>1, BlankToken DEF White
<1>4. CASE parts = <<>>
  <2>1. Block(open, close, parts, indent, depth) = Joined(o, c)
    <3>1. Block(open, close, parts, indent, depth) = <<open, close>>
      BY <1>4 DEF Block
    <3> QED
      BY <3>1, <1>1, TwoJoined
  <2>2. List(Bright(parts), <<",">>) = <<>>
    <3>1. Bright(parts) = <<>>
      BY <1>4 DEF Bright
    <3>2. [i \in DOMAIN <<>> |-> <<>>[i] \o (IF i < Len(<<>>) THEN <<",">> ELSE <<>>)] = <<>>
      OBVIOUS
    <3> QED
      BY <3>1, <3>2, SiftedEmpty DEF List
  <2>3. Joined(o, <<>>) = o
    BY <1>2, JoinedEmpty
  <2>4. Joined(o, c) \in Seq(Tokens) /\ Without(Joined(o, c), White) = Joined(o, c)
    BY <1>2, JoinedTexts, WithoutJoined
  <2> QED
    BY <2>1, <2>2, <2>3, <2>4, <1>1
<1>5. CASE parts # <<>>
  <2>1. PICK r, s : r = Repeat(indent, depth + 1) /\ s = Repeat(indent, depth)
    OBVIOUS
  <2>2. IsBlank(r) /\ IsBlank(s)
    <3>1. depth + 1 \in Nat
      OBVIOUS
    <3> QED
      BY <3>1, <2>1, BlankRepeat
  <2>3. PICK ls : ls = FlattenSeq([i \in DOMAIN parts |->
                          r \o parts[i] \o (IF i < Len(parts) THEN <<",">> ELSE <<>>)
                              \o <<"nl">>])
    OBVIOUS
  <2>4. ls \in Seq(Tokens) /\ Without(ls, White) = List(Bright(parts), <<",">>)
    BY <2>2, <2>3, LinesRead
  <2>5. Block(open, close, parts, indent, depth) = Joined(Joined(Joined(Joined(o, e), ls), s), c)
    <3>1. Block(open, close, parts, indent, depth) = <<open, "nl">> \o ls \o s \o <<close>>
      BY <1>5, <2>1, <2>3, Zenon DEF Block
    <3>2. <<open, "nl">> = Joined(<<open>>, <<"nl">>)
      BY TwoJoined, Zenon
    <3> QED
      BY <3>1, <3>2, <1>1, Zenon DEF Joined
  <2>6. Joined(o, e) \in Seq(Tokens) /\ Without(Joined(o, e), White) = o
    BY <1>2, <1>3, BlankJoined
  <2>7. PICK p : p = Joined(Joined(o, e), ls)
    OBVIOUS
  <2>8. p \in Seq(Tokens) /\ Without(p, White) = Joined(o, Without(ls, White))
    <3>1. p \in Seq(Tokens)
      BY <2>4, <2>6, <2>7, JoinedTexts
    <3>2. Without(p, White) = Joined(Without(Joined(o, e), White), Without(ls, White))
      BY <2>4, <2>6, <2>7, WithoutJoined
    <3> QED
      BY <3>1, <3>2, <2>6
  <2>9. Joined(p, s) \in Seq(Tokens) /\ Without(Joined(p, s), White) = Without(p, White)
    BY <2>2, <2>8, BlankJoined
  <2>10. /\ Joined(Joined(p, s), c) \in Seq(Tokens)
         /\ Without(Joined(Joined(p, s), c), White) = Joined(Without(p, White), c)
    BY <2>9, <1>2, JoinedTexts, WithoutJoined
  <2> QED
    BY <2>4, <2>5, <2>7, <2>8, <2>10, <1>1
<1> QED
  BY <1>4, <1>5

-----------------------------------------------------------------------------
(* Clean trees.                                                            *)

\* A tree without syntax errors: its nodes are texts, all but the root read as they
\* should, and the levels below a node are less than those of the node.
IsTidy(tree, m) ==
    /\ WellFormed(tree) /\ Grammatical(tree)
    /\ m \in [Nodes(tree) -> Nat]
    /\ \A node \in Nodes(tree) :
          /\ node.tokens \in Seq(Tokens)
          /\ node.kind # "document" => Shaped(node)
          /\ \A i \in 1..Len(node.children) : m[node.children[i]] < m[node]

\* That is what a text without syntax errors is parsed to.
LEMMA CleanTree ==
    ASSUME NEW word, IsClean(word), Parse(word) # <<>>
    PROVE  \E m : IsTidy(Parse(word)[1], m)
<1>1. PICK tree : tree = Parse(word)[1]
  OBVIOUS
<1>2. IsText(word)
  BY DEF IsClean
<1>3. WellFormed(tree) /\ Grammatical(tree) /\ Len(tree.tokens) \in Nat
  BY <1>1, <1>2, TreeOfText
<1>4. PICK R : IsRoot(R, tree)
  BY <1>1, <1>2, ParsedRoot
<1>5. Nodes(tree) \subseteq R \union {tree}
  BY <1>4, NodesBelow
<1>6. PICK S : Firm(S) /\ tree.children \in Seq(S) /\ tree.tokens \in Seq(Tokens)
  BY <1>1, FirmChildren
<1>7. Nodes(tree) \subseteq S \union {tree}
  BY <1>3, <1>6, FirmNodes
<1>8. tree.kind = "document"
  BY <1>4 DEF IsRoot
<1>9. PICK m : m = [node \in Nodes(tree) |-> Rank(node)]
  OBVIOUS
<1>10. ASSUME NEW node \in Nodes(tree) PROVE Sound(R, node) /\ Rank(node) \in Nat
  BY <1>4, <1>5, RankType DEF IsRoot, Complete
<1>11. m \in [Nodes(tree) -> Nat]
  BY <1>9, <1>10
<1>12. ASSUME NEW node \in Nodes(tree)
       PROVE  node.tokens \in Seq(Tokens) /\ (node.kind # "document" => Shaped(node))
  BY <1>6, <1>7, <1>8 DEF Firm
<1>13. ASSUME NEW node \in Nodes(tree), NEW i \in 1..Len(node.children)
       PROVE  m[node.children[i]] < m[node]
  <2>1. node.children[i] \in Nodes(tree)
    BY <1>4, NodesBelow
  <2>2. Rank(node.children[i]) < Rank(node)
    BY <1>10 DEF Sound
  <2> QED
    BY <2>1, <2>2, <1>9
<1>14. IsTidy(tree, m)
  BY <1>3, <1>11, <1>12, <1>13 DEF IsTidy
<1> QED
  BY <1>1, <1>14

\* The members of a container are nodes below it, and so are the values of its pairs.
LEMMA MembersBelow ==
    ASSUME NEW tree, NEW m, IsTidy(tree, m), NEW node \in Nodes(tree)
    PROVE  /\ Members(node) \in Seq(Nodes(tree)) /\ Len(Members(node)) \in Nat
           /\ DOMAIN Members(node) = 1..Len(Members(node))
           /\ Bares(Members(node)) \in Seq(Seq(Tokens))
           /\ DOMAIN Bares(Members(node)) = DOMAIN Members(node)
           /\ \A i \in DOMAIN Members(node) :
                 LET member == Members(node)[i]
                 IN  /\ member \in Nodes(tree) /\ m[member] < m[node]
                     /\ IsMember(node.kind, member)
                     /\ Bares(Members(node))[i] = Bare(member.tokens)
                     /\ member.kind = "pair" =>
                           /\ PairKey(member) \in Nodes(tree)
                           /\ PairValue(member) \in Nodes(tree)
                           /\ m[PairValue(member)] < m[node]
                           /\ PairKey(member) = member.children[1]
                           /\ PairValue(member) = member.children[Len(member.children)]
<1>1. PICK N : N = Nodes(tree)
  OBVIOUS
<1>2. /\ WellFormed(tree) /\ m \in [N -> Nat] /\ Tokened(N)
      /\ \A n \in N : \A i \in 1..Len(n.children) : m[n.children[i]] < m[n]
  BY <1>1 DEF IsTidy, Tokened
<1>3. ASSUME NEW n \in N
      PROVE  n.children \in Seq(N) /\ \A i \in 1..Len(n.children) : n.children[i] \in N
  BY <1>1, <1>2, ChildIsNode
<1>4. PICK ms, bs, k : ms = Members(node) /\ bs = Bares(Members(node)) /\ k = node.kind
  OBVIOUS
<1>5. node \in N /\ node.children \in Seq(N)
  BY <1>1, <1>3
<1>6. /\ ms \in Seq(N) /\ Len(ms) \in Nat
      /\ \A i \in 1..Len(ms) : \E j \in 1..Len(node.children) : ms[i] = node.children[j]
      /\ \A i \in 1..Len(ms) : IsMember(k, ms[i])
      /\ bs \in Seq(Seq(Tokens)) /\ Len(bs) = Len(ms)
      /\ \A i \in 1..Len(ms) : bs[i] = Bare(ms[i].tokens)
  <2>1. /\ Members(node) \in Seq(N) /\ Len(Members(node)) \in Nat
        /\ \A i \in 1..Len(Members(node)) :
              \E j \in 1..Len(node.children) : Members(node)[i] = node.children[j]
        /\ \A i \in 1..Len(Members(node)) : IsMember(node.kind, Members(node)[i])
        /\ Bares(Members(node)) \in Seq(Seq(Tokens))
        /\ Len(Bares(Members(node))) = Len(Members(node))
        /\ \A i \in 1..Len(Members(node)) :
              Bares(Members(node))[i] = Bare(Members(node)[i].tokens)
    BY <1>2, <1>5, MembersType
  <2> QED
    BY <2>1, <1>4
<1>7. DOMAIN ms = 1..Len(ms) /\ DOMAIN bs = 1..Len(ms)
  <2>1. PICK W : W = Seq(Tokens)
    OBVIOUS
  <2>2. bs \in Seq(W)
    BY <2>1, <1>6
  <2> QED
    BY <2>2, <1>6
<1>8. ASSUME NEW i \in 1..Len(ms)
      PROVE  ms[i] \in N /\ m[ms[i]] < m[node]
  BY <1>2, <1>3, <1>5, <1>6
<1>9. ASSUME NEW i \in 1..Len(ms), ms[i].kind = "pair"
      PROVE  /\ PairKey(ms[i]) \in N /\ PairValue(ms[i]) \in N
             /\ m[PairValue(ms[i])] < m[node]
             /\ PairKey(ms[i]) = ms[i].children[1]
             /\ PairValue(ms[i]) = ms[i].children[Len(ms[i].children)]
  <2>1. PICK p : p = ms[i]
    OBVIOUS
  <2>2. p \in N /\ m[p] < m[node] /\ p.kind = "pair"
    BY <2>1, <1>8, <1>9
  <2>3. /\ Len(p.children) \in 1..Len(p.children)
        /\ PairKey(p) = p.children[1] /\ PairKey(p) \in N
        /\ PairValue(p) = p.children[Len(p.children)] /\ PairValue(p) \in N
    BY <2>2, <1>1, <1>2, KeyAndValue
  <2>4. m[PairValue(p)] < m[p]
    BY <2>2, <2>3, <1>2
  <2>5. m[PairValue(p)] \in Nat /\ m[p] \in Nat /\ m[node] \in Nat
    BY <2>2, <2>3, <1>2, <1>5
  <2>6. m[PairValue(p)] < m[node]
    BY <2>2, <2>4, <2>5
  <2> QED
    BY <2>1, <2>3, <2>6
<1> QED
  BY <1>1, <1>4, <1>6, <1>7, <1>8, <1>9

-----------------------------------------------------------------------------
(* What is written.                                                        *)

\* What is formatted for a member: the value of a pair, or an item.
MemberValue(node, member) == IF node.kind = "object" THEN PairValue(member) ELSE member

\* What is written for it, from what g gives for its value.
Line(g, node, member, depth) ==
    IF node.kind = "object"
    THEN PairKey(member).tokens \o <<":", " ">> \o g[PairValue(member)][depth + 1]
    ELSE g[member][depth + 1]

Lines(g, node, depth) ==
    [i \in DOMAIN Members(node) |-> Line(g, node, Members(node)[i], depth)]

\* What is written for a node.
Written(g, node, indent, depth) ==
    IF node.kind \in Brackets
    THEN Block(Opening[node.kind], Closing[node.kind], Lines(g, node, depth), indent, depth)
    ELSE node.tokens

\* Texts by depth.
Deep == [Nat -> Seq(Tokens)]

\* There are texts for the values in a node.
Given(g, node) ==
    \A i \in DOMAIN Members(node) : g[MemberValue(node, Members(node)[i])] \in Deep

\* They are the values without white space and comments.
Faithful(g, node, depth) ==
    \A i \in DOMAIN Members(node) :
        LET val == MemberValue(node, Members(node)[i])
        IN  Without(g[val][depth], White) = Bare(val.tokens)

\* A token of a value is kept.
LEMMA ValueToken ==
    ASSUME NEW t \in Strings \union Scalars
    PROVE  <<t>> \in Seq(Tokens) /\ Without(<<t>>, White) = <<t>> /\ Bare(<<t>>) = <<t>>
<1>1. t \in Tokens /\ t \notin White /\ t \notin Blank
  BY TokensDisjoint DEF Tokens, Blank
<1> QED
  BY <1>1, WithoutOne DEF Bare

\* The line of a pair.
LEMMA PairReads ==
    ASSUME NEW pair, pair.kind = "pair", Shaped(pair), NEW v \in Seq(Tokens),
           PairKey(pair) = pair.children[1]
    PROVE  /\ PairKey(pair).tokens \o <<":", " ">> \o v \in Seq(Tokens)
           /\ Without(PairKey(pair).tokens \o <<":", " ">> \o v, White)
                = Joined(Joined(KeyPart(pair), <<":">>), Without(v, White))
<1>1. HasKey(pair)
  BY DEF Shaped
<1>2. PICK s \in Strings : PairKey(pair).tokens = <<s>>
  BY <1>1 DEF HasKey
<1>3. PICK k : k = <<s>>
  OBVIOUS
<1>4. k \in Seq(Tokens) /\ Without(k, White) = k /\ KeyPart(pair) = k
  BY <1>2, <1>3, ValueToken DEF KeyPart
<1>5. PICK c, e, b : c = <<":">> /\ e = <<" ">> /\ b = <<":", " ">>
  OBVIOUS
<1>6. c \in Seq(Tokens) /\ Without(c, White) = c
  <2>1. PICK x : x = ":"
    OBVIOUS
  <2>2. x \in Tokens /\ x \notin White
    BY <2>1 DEF Tokens, White
  <2> QED
    BY <2>1, <2>2, <1>5, WithoutOne
<1>7. IsBlank(e)
  BY <1>5, BlankToken DEF White
<1>8. b = Joined(c, e)
  BY <1>5, TwoJoined
<1>9. b \in Seq(Tokens) /\ Without(b, White) = c
  BY <1>6, <1>7, <1>8, BlankJoined
<1>10. PICK p : p = Joined(k, b)
  OBVIOUS
<1>11. p \in Seq(Tokens) /\ Without(p, White) = Joined(k, c)
  <2>1. p \in Seq(Tokens)
    BY <1>4, <1>9, <1>10, JoinedTexts
  <2>2. Without(p, White) = Joined(Without(k, White), Without(b, White))
    BY <1>4, <1>9, <1>10, WithoutJoined
  <2> QED
    BY <2>1, <2>2, <1>4, <1>9
<1>12. Joined(p, v) \in Seq(Tokens)
  BY <1>11, JoinedTexts
<1>13. Without(Joined(p, v), White) = Joined(Without(p, White), Without(v, White))
  BY <1>11, WithoutJoined
<1>14. PairKey(pair).tokens \o <<":", " ">> \o v = Joined(p, v)
  BY <1>2, <1>3, <1>5, <1>10, Zenon DEF Joined
<1> QED
  BY <1>4, <1>5, <1>11, <1>12, <1>13, <1>14

\* The line of a member is a text, and reads as the member if its value does.
LEMMA LineOfMember ==
    ASSUME NEW tree, NEW m, IsTidy(tree, m), NEW node \in Nodes(tree), node.kind \in Brackets,
           NEW i \in DOMAIN Members(node), NEW g, NEW depth \in Nat, Given(g, node)
    PROVE  LET member == Members(node)[i]
               val    == MemberValue(node, member)
               line   == Line(g, node, member, depth)
           IN  /\ val \in Nodes(tree) /\ m[val] < m[node] /\ IsValueNode(val)
               /\ line \in Seq(Tokens)
               /\ Without(g[val][depth + 1], White) = Bare(val.tokens) =>
                     Without(line, White) = Bares(Members(node))[i]
<1>1. PICK x : x = Members(node)[i]
  OBVIOUS
<1>2. PICK v : v = MemberValue(node, x)
  OBVIOUS
<1>3. /\ x \in Nodes(tree) /\ m[x] < m[node] /\ IsMember(node.kind, x)
      /\ Bares(Members(node))[i] = Bare(x.tokens)
      /\ x.kind = "pair" =>
            /\ PairValue(x) \in Nodes(tree) /\ m[PairValue(x)] < m[node]
            /\ PairKey(x) = x.children[1]
            /\ PairValue(x) = x.children[Len(x.children)]
  BY <1>1, MembersBelow
<1>4. depth + 1 \in Nat /\ g[v] \in Deep
  BY <1>1, <1>2 DEF Given
<1>5. PICK w : w = g[v][depth + 1]
  OBVIOUS
<1>6. w \in Seq(Tokens)
  BY <1>4, <1>5 DEF Deep
<1>7. CASE node.kind = "object"
  <2>1. x.kind = "pair" /\ v = PairValue(x)
    BY <1>2, <1>3, <1>7 DEF IsMember, MemberValue
  <2>2. Shaped(x)
    BY <2>1, <1>3 DEF IsTidy
  <2>3. /\ HasValue(x)
        /\ Bare(x.tokens) = Joined(Joined(KeyPart(x), <<":">>), ValuePart(x))
    BY <2>1, <2>2 DEF Shaped
  <2>4. IsValueNode(v) /\ ValuePart(x) = Bare(v.tokens)
    BY <2>1, <2>3, <1>3 DEF HasValue, ValuePart
  <2>5. PICK l : l = PairKey(x).tokens \o <<":", " ">> \o w
    OBVIOUS
  <2>6. l = Line(g, node, x, depth)
    BY <2>1, <2>5, <1>5, <1>7 DEF Line
  <2>7. /\ l \in Seq(Tokens)
        /\ Without(l, White) = Joined(Joined(KeyPart(x), <<":">>), Without(w, White))
    BY <2>1, <2>2, <2>5, <1>3, <1>6, PairReads
  <2> QED
    BY <2>1, <2>3, <2>4, <2>6, <2>7, <1>1, <1>2, <1>3, <1>5
<1>8. CASE node.kind # "object"
  <2>1. v = x /\ IsValueNode(x) /\ Line(g, node, x, depth) = w
    BY <1>2, <1>3, <1>5, <1>8 DEF IsMember, MemberValue, Line
  <2> QED
    BY <2>1, <1>1, <1>2, <1>3, <1>5, <1>6
<1> QED
  BY <1>7, <1>8

\* What is written for a node is a text; for a value it reads as the value, if what is
\* written for the values in it does.
LEMMA NodeReads ==
    ASSUME NEW tree, NEW m, IsTidy(tree, m), NEW node \in Nodes(tree),
           NEW indent, IsBlank(indent), NEW depth \in Nat, NEW g,
           node.kind \in Brackets => Given(g, node)
    PROVE  /\ Written(g, node, indent, depth) \in Seq(Tokens)
           /\ IsValueNode(node) /\ (node.kind \in Brackets => Faithful(g, node, depth + 1)) =>
                 Without(Written(g, node, indent, depth), White) = Bare(node.tokens)
<1>1. CASE node.kind \notin Brackets
  <2>1. Written(g, node, indent, depth) = node.tokens /\ node.tokens \in Seq(Tokens)
    BY <1>1 DEF Written, IsTidy
  <2>2. ASSUME IsValueNode(node) PROVE Without(node.tokens, White) = Bare(node.tokens)
    <3>1. node.kind \in {"string", "number"} /\ node.kind # "document"
      BY <2>2, <1>1 DEF IsValueNode, Brackets
    <3>2. Shaped(node)
      BY <3>1 DEF IsTidy
    <3>3. PICK t \in Strings \union Scalars : node.tokens = <<t>>
      BY <3>1, <3>2 DEF Shaped
    <3> QED
      BY <3>3, ValueToken
  <2> QED
    BY <2>1, <2>2, <1>1
<1>2. CASE node.kind \in Brackets
  <2>1. PICK ms, W, ls : /\ ms = Members(node) /\ W = Seq(Tokens)
                         /\ ls = Lines(g, node, depth)
    OBVIOUS
  <2>2. DOMAIN ms = 1..Len(ms) /\ Len(ms) \in Nat
    BY <2>1, MembersBelow
  <2>3. ls = [i \in 1..Len(ms) |-> Line(g, node, ms[i], depth)]
    BY <2>1, <2>2 DEF Lines
  <2>4. ASSUME NEW i \in 1..Len(ms)
        PROVE  /\ ls[i] \in W
               /\ Faithful(g, node, depth + 1) => Without(ls[i], White) = Bares(ms)[i]
    <3>1. i \in DOMAIN Members(node)
      BY <2>1, <2>2
    <3>2. LET member == Members(node)[i]
              val    == MemberValue(node, member)
              line   == Line(g, node, member, depth)
          IN  /\ line \in Seq(Tokens)
              /\ Without(g[val][depth + 1], White) = Bare(val.tokens) =>
                    Without(line, White) = Bares(Members(node))[i]
      BY <3>1, <1>2, LineOfMember
    <3>3. ls[i] = Line(g, node, Members(node)[i], depth)
      BY <2>1, <2>3
    <3> QED
      BY <3>1, <3>2, <3>3, <2>1 DEF Faithful
  <2>5. ls \in Seq(W) /\ Len(ls) = Len(ms) /\ DOMAIN ls = 1..Len(ms)
    <3>1. ls \in [1..Len(ms) -> W]
      BY <2>3, <2>4
    <3> QED
      BY <3>1, <2>2, <2>3, SeqMade
  <2>6. PICK o, c : o = Opening[node.kind] /\ c = Closing[node.kind]
    OBVIOUS
  <2>7. o \in Tokens \ White /\ c \in Tokens \ White
    <3>1. (o = "{" /\ c = "}") \/ (o = "[" /\ c = "]")
      <4>1. Opening["object"] = "{" /\ Opening["array"] = "["
        BY DEF Opening
      <4>2. Closing["object"] = "}" /\ Closing["array"] = "]"
        BY DEF Closing
      <4>3. node.kind = "object" \/ node.kind = "array"
        BY <1>2 DEF Brackets
      <4> QED
        BY <4>1, <4>2, <4>3, <2>6
    <3>2. {"{", "}", "[", "]"} \subseteq Tokens \ White
      BY DEF Tokens, White
    <3> QED
      BY <3>1, <3>2
  <2>8. PICK b : b = Block(o, c, ls, indent, depth)
    OBVIOUS
  <2>9. b \in Seq(Tokens) /\ Without(b, White) = Wrapped(o, Bright(ls), c)
    <3>1. ls \in Seq(Seq(Tokens))
      BY <2>1, <2>5
    <3> QED
      BY <3>1, <2>7, <2>8, BlockReads
  <2>10. Written(g, node, indent, depth) = b
    BY <1>2, <2>1, <2>6, <2>8 DEF Written
  <2>11. ASSUME Faithful(g, node, depth + 1) PROVE Bright(ls) = Bares(ms)
    <3>1. Bright(ls) = [i \in 1..Len(ms) |-> Without(ls[i], White)]
      BY <2>5 DEF Bright
    <3>2. Bares(ms) = [i \in 1..Len(ms) |-> Bare(ms[i].tokens)]
      BY <2>2 DEF Bares
    <3>3. \A i \in 1..Len(ms) : Without(ls[i], White) = Bare(ms[i].tokens)
      BY <2>4, <2>11, <3>2
    <3> QED
      BY <3>1, <3>2, <3>3
  <2>12. ASSUME Faithful(g, node, depth + 1) PROVE Without(b, White) = Bare(node.tokens)
    <3>1. Without(b, White) = Joined(Shown(node), <<Closing[node.kind]>>)
      BY <2>1, <2>6, <2>9, <2>11, <2>12 DEF Wrapped, Shown, Inner
    <3>2. Shaped(node)
      BY <1>2 DEF IsTidy, Brackets
    <3> QED
      BY <3>1, <3>2, <1>2 DEF Shaped
  <2> QED
    BY <2>9, <2>10, <2>12, <1>2
<1> QED
  BY <1>1, <1>2

\* The body of format_node.
Entry(g, node, indent, depth) ==
    CASE node.kind = "object" ->
            LET pairs == ObjectPairs(node)
            IN  Block("{", "}",
                      [i \in DOMAIN pairs |->
                          PairKey(pairs[i]).tokens \o <<":", " ">>
                              \o g[PairValue(pairs[i])][depth + 1]],
                      indent, depth)
      [] node.kind = "array" ->
            LET items == ArrayItems(node)
            IN  Block("[", "]",
                      [i \in DOMAIN items |-> g[items[i]][depth + 1]],
                      indent, depth)
      [] OTHER -> node.tokens

\* It is what the proofs take to be written for a node.
LEMMA EntryIsWritten ==
    ASSUME NEW g, NEW node, NEW indent, NEW depth
    PROVE  Entry(g, node, indent, depth) = Written(g, node, indent, depth)
<1>1. Opening["object"] = "{" /\ Opening["array"] = "["
  BY DEF Opening
<1>2. Closing["object"] = "}" /\ Closing["array"] = "]"
  BY DEF Closing
<1>3. CASE node.kind = "object"
  <2>1. PICK ps : ps = ObjectPairs(node)
    OBVIOUS
  <2>2. Members(node) = ps
    BY <2>1, <1>3 DEF Members
  <2>3. Lines(g, node, depth)
          = [i \in DOMAIN ps |->
                PairKey(ps[i]).tokens \o <<":", " ">> \o g[PairValue(ps[i])][depth + 1]]
    BY <2>2, <1>3 DEF Lines, Line
  <2>4. Written(g, node, indent, depth) = Block("{", "}", Lines(g, node, depth), indent, depth)
    BY <1>1, <1>2, <1>3 DEF Written, Brackets
  <2>5. Entry(g, node, indent, depth)
          = Block("{", "}",
                  [i \in DOMAIN ps |->
                      PairKey(ps[i]).tokens \o <<":", " ">> \o g[PairValue(ps[i])][depth + 1]],
                  indent, depth)
    BY <2>1, <1>3 DEF Entry
  <2> QED
    BY <2>3, <2>4, <2>5
<1>4. CASE node.kind = "array"
  <2>1. PICK ps : ps = ArrayItems(node)
    OBVIOUS
  <2>2. Members(node) = ps
    BY <2>1, <1>4 DEF Members
  <2>3. Lines(g, node, depth) = [i \in DOMAIN ps |-> g[ps[i]][depth + 1]]
    BY <2>2, <1>4 DEF Lines, Line
  <2>4. Written(g, node, indent, depth) = Block("[", "]", Lines(g, node, depth), indent, depth)
    BY <1>1, <1>2, <1>4 DEF Written, Brackets
  <2>5. Entry(g, node, indent, depth)
          = Block("[", "]", [i \in DOMAIN ps |-> g[ps[i]][depth + 1]], indent, depth)
    BY <2>1, <1>4 DEF Entry
  <2> QED
    BY <2>3, <2>4, <2>5
<1>5. CASE node.kind # "object" /\ node.kind # "array"
  BY <1>5 DEF Entry, Written, Brackets
<1> QED
  BY <1>3, <1>4, <1>5

\* The formatted nodes are defined for every clean tree; a value is written with its tokens,
\* but for white space and comments, at every depth.
LEMMA FormatReads ==
    ASSUME NEW tree, NEW m, IsTidy(tree, m), NEW indent, IsBlank(indent)
    PROVE  \A node \in Nodes(tree) :
              /\ FormatNode(tree, indent)[node] \in Deep
              /\ IsValueNode(node) =>
                    \A depth \in Nat :
                       Without(FormatNode(tree, indent)[node][depth], White) = Bare(node.tokens)
<1> DEFINE N == Nodes(tree)
<1> DEFINE T == Deep
<1> DEFINE total(g, node) == [depth \in Nat |-> Written(g, node, indent, depth)]
<1> DEFINE F == [p \in [N -> T] \X N |-> total(p[1], p[2])]
<1>0. m \in [N -> Nat]
  BY DEF IsTidy
<1>1. PICK some : some \in T
  <2>1. <<>> \in Seq(Tokens)
    OBVIOUS
  <2>2. [d \in Nat |-> <<>>] \in Deep
    BY <2>1 DEF Deep
  <2> QED
    BY <2>2
<1>2. ASSUME NEW g, NEW node \in N, node.kind \in Brackets => Given(g, node)
      PROVE  total(g, node) \in T
  <2>1. \A depth \in Nat : Written(g, node, indent, depth) \in Seq(Tokens)
    BY <1>2, NodeReads
  <2> QED
    BY <2>1 DEF Deep
<1>3. ASSUME NEW node \in N, node.kind \in Brackets, NEW i \in DOMAIN Members(node)
      PROVE  /\ MemberValue(node, Members(node)[i]) \in N
             /\ m[MemberValue(node, Members(node)[i])] < m[node]
             /\ IsValueNode(MemberValue(node, Members(node)[i]))
  <2>1. PICK x : x = Members(node)[i]
    OBVIOUS
  <2>2. /\ x \in N /\ m[x] < m[node] /\ IsMember(node.kind, x)
        /\ x.kind = "pair" => PairValue(x) \in N /\ m[PairValue(x)] < m[node]
                              /\ PairValue(x) = x.children[Len(x.children)]
    BY <2>1, <1>3, MembersBelow
  <2>3. CASE node.kind = "object"
    <3>1. x.kind = "pair" /\ MemberValue(node, x) = PairValue(x)
      BY <2>2, <2>3 DEF IsMember, MemberValue
    <3>2. Shaped(x)
      BY <3>1, <2>2 DEF IsTidy
    <3>3. HasValue(x)
      BY <3>1, <3>2 DEF Shaped
    <3>4. IsValueNode(PairValue(x))
      BY <3>1, <3>3, <2>2 DEF HasValue
    <3> QED
      BY <3>1, <3>4, <2>1, <2>2
  <2>4. CASE node.kind # "object"
    BY <2>1, <2>2, <2>4 DEF IsMember, MemberValue
  <2> QED
    BY <2>3, <2>4
<1>4. F \in Rules(N, T)
  <2> SUFFICES ASSUME NEW p \in [N -> T] \X N PROVE total(p[1], p[2]) \in T
    BY DEF Rules
  <2>1. p[1] \in [N -> T] /\ p[2] \in N
    OBVIOUS
  <2>2. p[2].kind \in Brackets => Given(p[1], p[2])
    BY <2>1, <1>3 DEF Given
  <2> HIDE DEF total, N, T
  <2> QED
    BY <1>2, <2>1, <2>2
<1>5. \A g \in [N -> T] : \A node \in N : F[<<g, node>>] = total(g, node)
  OBVIOUS
<1>6. ASSUME NEW node \in N, NEW g \in [N -> T], NEW h \in [N -> T],
             \A other \in N : m[other] < m[node] => g[other] = h[other]
      PROVE  total(g, node) = total(h, node)
  <2>1. ASSUME NEW depth \in Nat
        PROVE  Written(g, node, indent, depth) = Written(h, node, indent, depth)
    <3>1. CASE node.kind \in Brackets
      <4>1. ASSUME NEW i \in DOMAIN Members(node)
            PROVE  Line(g, node, Members(node)[i], depth) = Line(h, node, Members(node)[i], depth)
        <5>1. PICK x : x = Members(node)[i]
          OBVIOUS
        <5>2. g[MemberValue(node, x)] = h[MemberValue(node, x)]
          BY <5>1, <3>1, <1>3, <1>6
        <5> QED
          BY <5>1, <5>2 DEF Line, MemberValue
      <4>2. Lines(g, node, depth) = Lines(h, node, depth)
        BY <4>1 DEF Lines
      <4> QED
        BY <4>2 DEF Written
    <3>2. CASE node.kind \notin Brackets
      BY <3>2 DEF Written
    <3> QED
      BY <3>1, <3>2
  <2> QED
    BY <2>1
<1> HIDE DEF total
<1>7. UsesLess(N, T, m, F)
  <2> HIDE DEF F, N, T
  <2> QED
    BY <1>5, <1>6 DEF UsesLess
<1>8. PICK f \in [N -> T] : Solves(f, N, F)
  <2> HIDE DEF F, N, T
  <2> QED
    BY <1>0, <1>1, <1>4, <1>7, RecursionExists
<1>9. f = [node \in N |-> total(f, node)]
  BY <1>5, <1>8 DEF Solves
<1> DEFINE Follows(format) ==
        format = [node \in N |-> [depth \in Nat |-> Entry(format, node, indent, depth)]]
<1> DEFINE format == CHOOSE format : Follows(format)
<1>10. Follows(f)
  <2>1. \A node \in N : total(f, node) = [depth \in Nat |-> Entry(f, node, indent, depth)]
    BY EntryIsWritten DEF total
  <2> QED
    BY <2>1, <1>9
<1>11. Follows(format)
  BY <1>10
<1>12. FormatNode(tree, indent) = format
  BY DEF FormatNode, Entry
<1> HIDE DEF format
<1>13. \A node \in N : format[node] = total(format, node)
  <2>1. \A node \in N : total(format, node) = [depth \in Nat |-> Entry(format, node, indent, depth)]
    BY EntryIsWritten DEF total
  <2> QED
    BY <2>1, <1>11
<1> DEFINE Fine(node) ==
        /\ format[node] \in T
        /\ IsValueNode(node) =>
              \A depth \in Nat : Without(format[node][depth], White) = Bare(node.tokens)
<1>14. \A node \in N : Fine(node)
  <2> DEFINE Bad == {node \in N : ~Fine(node)}
  <2> SUFFICES ASSUME Bad # {} PROVE FALSE
    OBVIOUS
  <2>1. Bad \in SUBSET N
    OBVIOUS
  <2>2. PICK node \in Bad : \A x \in N : m[x] < m[node] => x \notin Bad
    <3> HIDE DEF Bad, N
    <3> QED
      BY <1>0, <2>1, LeastMeasure
  <2>3. node \in N /\ ~Fine(node)
    BY <2>2
  <2>4. ASSUME NEW x \in N, m[x] < m[node] PROVE Fine(x)
    BY <2>2, <2>4
  <2> HIDE DEF Bad, N
  <2>5. ASSUME node.kind \in Brackets, NEW i \in DOMAIN Members(node)
        PROVE  /\ Fine(MemberValue(node, Members(node)[i]))
               /\ IsValueNode(MemberValue(node, Members(node)[i]))
    <3> HIDE DEF Fine
    <3> QED
      BY <2>3, <2>4, <2>5, <1>3
  <2>6. /\ node.kind \in Brackets => Given(format, node)
        /\ \A depth \in Nat : node.kind \in Brackets => Faithful(format, node, depth)
    BY <2>5 DEF Given, Faithful
  <2>7. total(format, node) \in T
    BY <2>3, <2>6, <1>2
  <2>8. ASSUME IsValueNode(node), NEW depth \in Nat
        PROVE  Without(total(format, node)[depth], White) = Bare(node.tokens)
    <3>1. depth + 1 \in Nat /\ total(format, node)[depth] = Written(format, node, indent, depth)
      BY DEF total
    <3> QED
      BY <3>1, <2>3, <2>6, <2>8, NodeReads DEF N
  <2> QED
    BY <2>3, <2>7, <2>8, <1>13
<1> QED
  BY <1>12, <1>14

-----------------------------------------------------------------------------
(* The formatted document.                                                 *)

\* A value has tokens to keep.
LEMMA ValueHasTokens ==
    ASSUME NEW tree, NEW m, IsTidy(tree, m), NEW node \in Nodes(tree), IsValueNode(node)
    PROVE  Bare(node.tokens) # <<>>
<1>1. Shaped(node)
  BY DEF IsTidy, IsValueNode
<1>2. CASE node.kind \in Brackets
  <2>1. Inner(node) \in Seq(Tokens)
    <3>1. PICK N : N = Nodes(tree)
      OBVIOUS
    <3>2. WellFormed(tree) /\ Tokened(N)
      BY <3>1 DEF IsTidy, Tokened
    <3>3. node.children \in Seq(N)
      BY <3>1, <3>2, ChildIsNode
    <3> QED
      BY <3>2, <3>3, MembersType
  <2>2. PICK o, c, s : o = Opening[node.kind] /\ c = Closing[node.kind] /\ s = Shown(node)
    OBVIOUS
  <2>3. PICK V : V = Tokens \union {o, c}
    OBVIOUS
  <2>4. s \in Seq(V)
    <3>1. PICK i, a : i = Inner(node) /\ a = <<o>>
      OBVIOUS
    <3>2. i \in Seq(V) /\ a \in Seq(V)
      BY <3>1, <2>1, <2>3
    <3>3. Joined(a, i) \in Seq(V)
      BY <3>2, JoinedTexts
    <3> QED
      BY <3>1, <3>3, <2>2 DEF Shown
  <2>5. Joined(s, <<c>>) # <<>>
    <3>1. c \in V
      BY <2>3
    <3>2. Len(s \o <<c>>) = Len(s) + 1 /\ Len(s) \in Nat
      BY <3>1, <2>4
    <3> QED
      BY <3>2 DEF Joined
  <2> QED
    BY <2>2, <2>5, <1>1, <1>2 DEF Shaped
<1>3. CASE node.kind \notin Brackets
  <2>1. PICK t \in Strings \union Scalars : node.tokens = <<t>>
    BY <1>1, <1>3 DEF IsValueNode, Brackets, Shaped
  <2> QED
    BY SMTT(30), <2>1, ValueToken
<1> QED
  BY <1>2, <1>3

\* A document without syntax errors and with a value is formatted to its tokens, but for
\* white space and comments.
LEMMA FormatsValue ==
    ASSUME NEW t, IsText(t), ~HasError(t), RootValue(Parse(t)[1]) # <<>>,
           NEW options \in Options
    PROVE  /\ Kept(t) # <<>>
           /\ Without(Applied(t, FormatDocument(t, options)), White) = Kept(t)
<1>1. Parse(t) # <<>> /\ IsClean(t)
  <2>1. DOMAIN t = 1..Len(t)
    BY LenProperties DEF IsText
  <2> QED
    BY <2>1 DEF HasError, IsClean
<1>2. PICK tree : tree = Parse(t)[1]
  OBVIOUS
<1>3. PICK m : IsTidy(tree, m)
  BY <1>1, <1>2, CleanTree
<1>4. PICK v : v = RootValue(tree)[1]
  OBVIOUS
<1>5. v \in Nodes(tree) /\ IsValueNode(v) /\ RootValue(tree) = <<v>>
  BY <1>2, <1>3, <1>4, RootValueIsNode DEF IsTidy
<1>6. Kept(t) = Bare(v.tokens)
  BY <1>2, <1>5 DEF Kept, Bare, Blank
<1>7. Bare(v.tokens) # <<>>
  BY <1>3, <1>5, ValueHasTokens
<1>8. PICK w : w = FormatNode(tree, Indent(options))[v][0]
  OBVIOUS
<1>9. w \in Seq(Tokens) /\ Without(w, White) = Bare(v.tokens)
  <2>1. IsBlank(Indent(options))
    BY IndentBlank
  <2>2. /\ FormatNode(tree, Indent(options))[v] \in Deep
        /\ Without(FormatNode(tree, Indent(options))[v][0], White) = Bare(v.tokens)
    BY <2>1, <1>3, <1>5, FormatReads
  <2> QED
    BY <2>2, <1>8 DEF Deep
<1>10. PICK e : e = IF options.finalNewline THEN <<"nl">> ELSE <<>>
  OBVIOUS
<1>11. IsBlank(e)
  <2>1. IsBlank(<<"nl">>)
    BY BlankToken DEF White
  <2>2. IsBlank(<<>>)
    <3>1. PICK z : z = <<>>
      OBVIOUS
    <3>2. z \in Seq(Tokens) /\ \A i \in 1..Len(z) : z[i] \in White
      BY <3>1
    <3>3. Without(z, White) = <<>>
      BY <3>2, WithoutAll
    <3> QED
      BY <3>1, <3>2, <3>3 DEF IsBlank
  <2> QED
    BY <2>1, <2>2, <1>10
<1>12. PICK b : b = w \o e
  OBVIOUS
<1>13. Without(b, White) = Bare(v.tokens)
  <2>1. Without(Joined(w, e), White) = Without(w, White)
    BY <1>9, <1>11, BlankJoined
  <2> QED
    BY <2>1, <1>9, <1>12 DEF Joined
<1>14. Reformat(t, options) = <<b>>
  <2>1. Reformat(t, options)
          = [i \in DOMAIN <<v>> |-> FormatNode(tree, Indent(options))[<<v>>[i]][0] \o e]
    BY <1>2, <1>5, <1>10, Zenon DEF Reformat
  <2>2. DOMAIN <<v>> = {1} /\ <<v>>[1] = v /\ <<b>> = [i \in {1} |-> b]
    OBVIOUS
  <2> QED
    BY ZenonT(40), <2>1, <2>2, <1>8, <1>12
<1>15. Applied(t, FormatDocument(t, options)) = b
  <2>1. FormatDocument(t, options) = IF <<b>> = <<t>> THEN <<>> ELSE <<b>>
    BY <1>14 DEF FormatDocument, Changes
  <2>2. <<b>> = <<t>> => b = t
    OBVIOUS
  <2>3. <<b>>[1] = b /\ <<b>> # <<>>
    OBVIOUS
  <2> QED
    BY <2>1, <2>2, <2>3 DEF Applied
<1> QED
  BY <1>6, <1>7, <1>13, <1>15

\* Whatever text is open, formatting keeps its tokens.
LEMMA FormatKeepsAtOnce ==
    ASSUME IsText(text)
    PROVE  FormatKeepsTokens
<1> SUFFICES ASSUME NEW options \in Options
             PROVE  LET new == Applied(text, FormatDocument(text, options))
                    IN  IF HasError(text) \/ Kept(text) = <<>> THEN new = text
                        ELSE Without(new, White) = Kept(text)
  BY DEF FormatKeepsTokens
<1>1. CASE HasError(text)
  BY <1>1 DEF FormatDocument, Applied
<1>2. CASE ~HasError(text) /\ RootValue(Parse(text)[1]) = <<>>
  <2>1. Kept(text) = <<>> /\ Reformat(text, options) = <<>>
    BY <1>2 DEF Kept, Reformat
  <2>2. FormatDocument(text, options) = <<>>
    BY <2>1, <1>2 DEF FormatDocument, Changes
  <2>3. Applied(text, FormatDocument(text, options)) = text
    BY <2>2 DEF Applied
  <2> QED
    BY <2>1, <2>3
<1>3. CASE ~HasError(text) /\ RootValue(Parse(text)[1]) # <<>>
  BY <1>3, FormatsValue
<1> QED
  BY <1>1, <1>2, <1>3

\* Whatever the document holds and whatever the options are, formatting it changes nothing
\* of its first value but white space and comments, and nothing at all of a document with a
\* syntax error.
THEOREM FormattingOfEveryText == Edits(Seq(Tokens)) => []FormatKeepsTokens
<1> DEFINE Opened == text \in Seq(Tokens)
<1>1. Edits(Seq(Tokens)) => []Opened
  <2>1. Opened /\ [text' \in Seq(Tokens)]_text => Opened'
    OBVIOUS
  <2> QED
    BY <2>1, PTL DEF Edits
<1>2. Opened => FormatKeepsTokens
  BY FormatKeepsAtOnce DEF IsText
<1> QED
  BY <1>1, <1>2, PTL
=============================================================================
