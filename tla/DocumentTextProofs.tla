-------------------------- MODULE DocumentTextProofs --------------------------
(***************************************************************************)
(* The server's text follows the client's edits, whatever is inserted, for *)
(* texts of any length and any number of changes under way.                *)
(*                                                                         *)
(* The first parts are about what the conversions of DocumentText compute, *)
(* for every text: the encoding, the line index, the conversion of         *)
(* positions to bytes and back (document.rs) and the splice.  Offsets and  *)
(* columns are related through the number of characters of each kind       *)
(* before a place.  The last part is the inductive invariant.              *)
(***************************************************************************)
EXTENDS DocumentText, FiniteSetTheorems, SequenceTheorems, TLAPS

\* A byte of the server's text, as Encode makes them.
Byte == Chars \X (1..4)

-----------------------------------------------------------------------------
(* Natural numbers and finite sets.                                        *)

\* A set of natural numbers that is not empty has a least element: induction, in the
\* form in which the other proofs use it (the least counterexample).
LEMMA LeastNatural ==
    ASSUME NEW T \in SUBSET Nat, T # {}
    PROVE  \E x \in T : \A y \in T : x <= y
<1>1. IsWellFoundedOn(OpToRel(<, Nat), Nat)
  BY NatLessThanWellFounded
<1>2. PICK x \in T : \A y \in T : <<y, x>> \notin OpToRel(<, Nat)
  BY <1>1, WFMin
<1>3. \A y \in Nat : y < x => <<y, x>> \in OpToRel(<, Nat)
  BY Zenon DEF OpToRel
<1>4. \A y \in T : ~(y < x)
  BY <1>2, <1>3
<1> QED
  BY <1>4

\* A bounded set of natural numbers that is not empty has a greatest element.
LEMMA GreatestOf ==
    ASSUME NEW T \in SUBSET Nat, T # {}, NEW n \in Nat, \A y \in T : y <= n
    PROVE  \E x \in T : \A y \in T : y <= x
<1> DEFINE U == {m \in Nat : \A y \in T : y <= m}
<1>1. U \in SUBSET Nat /\ U # {}
  OBVIOUS
<1> HIDE DEF U
<1>2. PICK x \in U : \A y \in U : x <= y
  BY <1>1, LeastNatural
<1>3. x \in Nat /\ \A y \in T : y <= x
  BY <1>2 DEF U
<1>4. ASSUME x \notin T PROVE FALSE
  <2>1. \A y \in T : y <= x - 1
    BY <1>3, <1>4
  <2>2. PICK y \in T : y \in Nat /\ y <= x - 1
    BY <2>1
  <2>3. x - 1 \in Nat
    BY <2>2, <1>3
  <2>4. x - 1 \in U
    BY <2>1, <2>3 DEF U
  <2> QED
    BY <2>4, <1>2, <1>3
<1> QED
  BY <1>3, <1>4

\* A set of numbers between two bounds is finite.
LEMMA IntervalSubset ==
    ASSUME NEW T, NEW a \in Int, NEW b \in Int, T \subseteq a..b
    PROVE  /\ IsFiniteSet(T)
           /\ Cardinality(T) \in Nat
<1>1. IsFiniteSet(a..b)
  BY FS_Interval
<1>2. IsFiniteSet(T)
  BY <1>1, FS_Subset
<1> QED
  BY <1>2, FS_CardinalityType

\* The sizes of disjoint sets add up.
LEMMA DisjointUnion ==
    ASSUME NEW S, NEW T, IsFiniteSet(S), IsFiniteSet(T), S \cap T = {}
    PROVE  Cardinality(S \cup T) = Cardinality(S) + Cardinality(T)
<1>1. Cardinality(S \cap T) = 0
  BY FS_EmptySet
<1>2. Cardinality(S) \in Nat /\ Cardinality(T) \in Nat
  BY FS_CardinalityType
<1>3. Cardinality(S \cup T) = Cardinality(S) + Cardinality(T) - Cardinality(S \cap T)
  BY FS_Union
<1> QED
  BY <1>1, <1>2, <1>3

-----------------------------------------------------------------------------
(* Counting characters.                                                    *)

\* A count is a natural number.
LEMMA OccurrencesType ==
    ASSUME NEW t, NEW c, NEW a \in Int, NEW b \in Int
    PROVE  Occurrences(t, c, a, b) \in Nat
<1>1. {j \in (a + 1)..b : t[j] = c} \subseteq (a + 1)..b /\ a + 1 \in Int
  OBVIOUS
<1> QED
  BY <1>1, IntervalSubset DEF Occurrences

\* A count is zero exactly when the character does not occur.
LEMMA OccurrencesNone ==
    ASSUME NEW t, NEW c, NEW a \in Int, NEW b \in Int
    PROVE  Occurrences(t, c, a, b) = 0 <=> \A j \in (a + 1)..b : t[j] # c
<1> DEFINE S == {j \in (a + 1)..b : t[j] = c}
<1>1. S \subseteq (a + 1)..b /\ a + 1 \in Int
  OBVIOUS
<1>2. (S = {}) <=> \A j \in (a + 1)..b : t[j] # c
  OBVIOUS
<1>3. Occurrences(t, c, a, b) = Cardinality(S)
  BY DEF Occurrences
<1> HIDE DEF S
<1>4. IsFiniteSet(S)
  BY <1>1, IntervalSubset
<1>5. Cardinality(S) = 0 <=> S = {}
  BY <1>4, FS_EmptySet
<1> QED
  BY <1>2, <1>3, <1>5

\* A count over a range is the sum of the counts over its two parts.
LEMMA OccurrencesSplit ==
    ASSUME NEW t, NEW c, NEW a \in Int, NEW m \in Int, NEW b \in Int, a <= m, m <= b
    PROVE  Occurrences(t, c, a, b) = Occurrences(t, c, a, m) + Occurrences(t, c, m, b)
<1> DEFINE S == {j \in (a + 1)..m : t[j] = c}
           T == {j \in (m + 1)..b : t[j] = c}
<1>1. /\ S \subseteq (a + 1)..m /\ a + 1 \in Int
      /\ T \subseteq (m + 1)..b /\ m + 1 \in Int
  OBVIOUS
<1>2. S \cap T = {}
  OBVIOUS
<1>3. {j \in (a + 1)..b : t[j] = c} = S \cup T
  OBVIOUS
<1>4. /\ Occurrences(t, c, a, b) = Cardinality(S \cup T)
      /\ Occurrences(t, c, a, m) = Cardinality(S)
      /\ Occurrences(t, c, m, b) = Cardinality(T)
  BY <1>3 DEF Occurrences
<1> HIDE DEF S, T
<1>5. IsFiniteSet(S) /\ IsFiniteSet(T)
  BY <1>1, IntervalSubset
<1> QED
  BY <1>2, <1>4, <1>5, DisjointUnion

\* A count over one character.
LEMMA OccurrencesOne ==
    ASSUME NEW t, NEW c, NEW i \in Int
    PROVE  Occurrences(t, c, i - 1, i) = IF t[i] = c THEN 1 ELSE 0
<1>1. CASE t[i] = c
  <2>1. {j \in ((i - 1) + 1)..i : t[j] = c} = {i}
    BY <1>1
  <2> QED
    BY <1>1, <2>1, FS_Singleton DEF Occurrences
<1>2. CASE t[i] # c
  <2>1. \A j \in ((i - 1) + 1)..i : t[j] # c
    BY <1>2
  <2> QED
    BY <1>2, <2>1, OccurrencesNone
<1> QED
  BY <1>1, <1>2

-----------------------------------------------------------------------------
(* Byte offsets of characters, and the encoding of a text.                 *)

\* A byte offset is a natural number.
LEMMA OffsetType ==
    ASSUME NEW t, NEW i \in Nat
    PROVE  ByteOffset(t, i) \in Nat
  BY OccurrencesType DEF ByteOffset

\* The bytes between two characters, counted by the kinds of characters between them.
LEMMA OffsetDifference ==
    ASSUME NEW t, NEW a \in Nat, NEW i \in Nat, a <= i
    PROVE  ByteOffset(t, i) = ByteOffset(t, a) + (i - a)
                                + Occurrences(t, "e", a, i) + 3 * Occurrences(t, "g", a, i)
<1>1. /\ Occurrences(t, "e", 0, i) = Occurrences(t, "e", 0, a) + Occurrences(t, "e", a, i)
      /\ Occurrences(t, "g", 0, i) = Occurrences(t, "g", 0, a) + Occurrences(t, "g", a, i)
  BY OccurrencesSplit
<1>2. /\ Occurrences(t, "e", 0, a) \in Nat /\ Occurrences(t, "e", a, i) \in Nat
      /\ Occurrences(t, "g", 0, a) \in Nat /\ Occurrences(t, "g", a, i) \in Nat
  BY OccurrencesType
<1> QED
  BY <1>1, <1>2 DEF ByteOffset

\* The first character begins at byte 0.
LEMMA OffsetZero ==
    ASSUME NEW t
    PROVE  ByteOffset(t, 0) = 0
<1>1. Occurrences(t, "e", 0, 0) = 0 /\ Occurrences(t, "g", 0, 0) = 0
  BY OccurrencesNone
<1> QED
  BY <1>1 DEF ByteOffset

\* Each character begins where the one before it ends.
LEMMA OffsetStep ==
    ASSUME NEW t, NEW i \in Nat \ {0}
    PROVE  ByteOffset(t, i) = ByteOffset(t, i - 1) + ByteLen(t[i])
<1>1. ByteOffset(t, i) = ByteOffset(t, i - 1) + 1
            + Occurrences(t, "e", i - 1, i) + 3 * Occurrences(t, "g", i - 1, i)
  BY OffsetDifference
<1>2. /\ Occurrences(t, "e", i - 1, i) = IF t[i] = "e" THEN 1 ELSE 0
      /\ Occurrences(t, "g", i - 1, i) = IF t[i] = "g" THEN 1 ELSE 0
  BY OccurrencesOne
<1>3. ByteOffset(t, i - 1) \in Nat
  BY OffsetType
<1>4. ByteLen(t[i]) = IF t[i] = "e" THEN 2 ELSE IF t[i] = "g" THEN 4 ELSE 1
  BY DEF ByteLen
<1> QED
  BY <1>1, <1>2, <1>3, <1>4

\* Byte offsets grow with the characters they belong to.
LEMMA OffsetMonotone ==
    ASSUME NEW t, NEW a \in Nat, NEW i \in Nat
    PROVE  /\ a <= i => ByteOffset(t, a) <= ByteOffset(t, i)
           /\ a < i => ByteOffset(t, a) < ByteOffset(t, i)
<1>1. ASSUME a <= i PROVE ByteOffset(t, i) - ByteOffset(t, a) >= i - a
  <2>1. ByteOffset(t, i) = ByteOffset(t, a) + (i - a)
                              + Occurrences(t, "e", a, i) + 3 * Occurrences(t, "g", a, i)
    BY <1>1, OffsetDifference
  <2>2. Occurrences(t, "e", a, i) \in Nat /\ Occurrences(t, "g", a, i) \in Nat
    BY OccurrencesType
  <2>3. ByteOffset(t, i) \in Nat /\ ByteOffset(t, a) \in Nat
    BY OffsetType
  <2> QED
    BY <2>1, <2>2, <2>3
<1>2. ByteOffset(t, i) \in Nat /\ ByteOffset(t, a) \in Nat
  BY OffsetType
<1> QED
  BY <1>1, <1>2

\* Two characters do not begin at the same byte.
LEMMA OffsetInjective ==
    ASSUME NEW t, NEW a \in Nat, NEW i \in Nat, ByteOffset(t, a) = ByteOffset(t, i)
    PROVE  a = i
<1>1. ByteOffset(t, i) \in Nat /\ ByteOffset(t, a) \in Nat
  BY OffsetType
<1> QED
  BY <1>1, OffsetMonotone

\* A character has one to four bytes.
LEMMA ByteLenType ==
    ASSUME NEW c
    PROVE  ByteLen(c) \in 1..4
  BY DEF ByteLen

\* The character of a byte is the one whose bytes are around it.
LEMMA CharOfByte ==
    ASSUME NEW t \in Seq(Chars), NEW i \in 1..Len(t), NEW o \in Nat,
           ByteOffset(t, i - 1) < o, o <= ByteOffset(t, i)
    PROVE  CharOf(t, o) = i
<1>1. ASSUME NEW j \in 1..Len(t), ByteOffset(t, j - 1) < o, o <= ByteOffset(t, j)
      PROVE  j = i
  <2>0. Len(t) \in Nat
    BY LenProperties
  <2>1. j \in Nat /\ i \in Nat /\ j - 1 \in Nat /\ i - 1 \in Nat
    BY <2>0
  <2>2. /\ ByteOffset(t, j - 1) \in Nat /\ ByteOffset(t, j) \in Nat
        /\ ByteOffset(t, i - 1) \in Nat /\ ByteOffset(t, i) \in Nat
    BY <2>1, OffsetType
  <2>3. /\ j <= i - 1 => ByteOffset(t, j) <= ByteOffset(t, i - 1)
        /\ i <= j - 1 => ByteOffset(t, i) <= ByteOffset(t, j - 1)
    BY <2>1, OffsetMonotone
  <2> QED
    BY <1>1, <2>1, <2>2, <2>3
<1> QED
  BY <1>1 DEF CharOf

\* Every byte of a text belongs to a character.
LEMMA CharExists ==
    ASSUME NEW t \in Seq(Chars), NEW o \in 1..ByteOffset(t, Len(t))
    PROVE  \E i \in 1..Len(t) : ByteOffset(t, i - 1) < o /\ o <= ByteOffset(t, i)
<1> DEFINE S == {i \in Nat : o <= ByteOffset(t, i)}
<1>1. Len(t) \in Nat
  BY LenProperties
<1>2. ByteOffset(t, Len(t)) \in Nat
  BY <1>1, OffsetType
<1>3. S \in SUBSET Nat /\ Len(t) \in S
  BY <1>1, <1>2
<1>4. PICK i \in S : \A k \in S : i <= k
  <2> HIDE DEF S
  <2> QED
    BY <1>3, LeastNatural
<1>5. i \in Nat /\ o <= ByteOffset(t, i) /\ i <= Len(t)
  BY <1>3, <1>4
<1>6. i # 0
  BY <1>5, OffsetZero
<1>7. i - 1 \in Nat /\ i - 1 \notin S
  BY <1>4, <1>5, <1>6
<1>8. ByteOffset(t, i - 1) \in Nat
  BY <1>7, OffsetType
<1>9. ByteOffset(t, i - 1) < o
  BY <1>2, <1>7, <1>8
<1> QED
  BY <1>1, <1>5, <1>6, <1>9

\* Encode gives, for each character, its bytes in order, and no others.
LEMMA EncodeProperties ==
    ASSUME NEW t \in Seq(Chars)
    PROVE  /\ Encode(t) \in Seq(Byte)
           /\ Len(Encode(t)) = ByteOffset(t, Len(t))
           /\ \A i \in 1..Len(t) : \A o \in Nat :
                ByteOffset(t, i - 1) < o /\ o <= ByteOffset(t, i)
                    => Encode(t)[o] = <<t[i], o - ByteOffset(t, i - 1)>>
<1> DEFINE n == ByteOffset(t, Len(t))
<1>1. Len(t) \in Nat /\ n \in Nat
  BY LenProperties, OffsetType
<1>2. Encode(t) = [o \in 1..n |-> <<t[CharOf(t, o)], o - ByteOffset(t, CharOf(t, o) - 1)>>]
  BY DEF Encode
<1>3. ASSUME NEW o \in 1..n
      PROVE  Encode(t)[o] \in Byte
  <2>1. PICK i \in 1..Len(t) : ByteOffset(t, i - 1) < o /\ o <= ByteOffset(t, i)
    BY CharExists
  <2>2. CharOf(t, o) = i
    BY <1>1, <2>1, CharOfByte
  <2>3. ByteOffset(t, i) = ByteOffset(t, i - 1) + ByteLen(t[i]) /\ ByteLen(t[i]) \in 1..4
    BY <1>1, OffsetStep, ByteLenType
  <2>4. ByteOffset(t, i - 1) \in Nat
    BY <1>1, OffsetType
  <2>5. t[i] \in Chars
    BY <1>1
  <2>6. o - ByteOffset(t, i - 1) \in 1..4
    BY <1>1, <2>1, <2>3, <2>4
  <2> QED
    BY <1>2, <2>2, <2>5, <2>6 DEF Byte
<1>4. Encode(t) \in [1..n -> Byte]
  BY <1>2, <1>3
<1>5. Encode(t) \in Seq(Byte) /\ Len(Encode(t)) = n
  BY <1>1, <1>4
<1>6. ASSUME NEW i \in 1..Len(t), NEW o \in Nat,
             ByteOffset(t, i - 1) < o, o <= ByteOffset(t, i)
      PROVE  Encode(t)[o] = <<t[i], o - ByteOffset(t, i - 1)>>
  <2>1. CharOf(t, o) = i
    BY <1>6, CharOfByte
  <2>2. ByteOffset(t, i) <= n /\ ByteOffset(t, i) \in Nat /\ ByteOffset(t, i - 1) \in Nat
    BY <1>1, OffsetType, OffsetMonotone
  <2>3. o \in 1..n
    BY <1>1, <1>6, <2>2
  <2> QED
    BY <1>2, <2>1, <2>3
<1> QED
  BY <1>5, <1>6

\* The first bytes of characters are where the characters begin, and nowhere else.
LEMMA FirstBytes ==
    ASSUME NEW t \in Seq(Chars), NEW c
    PROVE  /\ \A j \in 1..Len(t) : /\ ByteOffset(t, j - 1) + 1 \in 1..Len(Encode(t))
                                   /\ Encode(t)[ByteOffset(t, j - 1) + 1] = <<t[j], 1>>
           /\ \A o \in 1..Len(Encode(t)) :
                Encode(t)[o] = <<c, 1>>
                    => \E j \in 1..Len(t) : o = ByteOffset(t, j - 1) + 1 /\ t[j] = c
<1>0. Len(t) \in Nat
  BY LenProperties
<1>1. Len(Encode(t)) = ByteOffset(t, Len(t)) /\ ByteOffset(t, Len(t)) \in Nat
  BY <1>0, EncodeProperties, OffsetType
<1>2. ASSUME NEW j \in 1..Len(t)
      PROVE  /\ ByteOffset(t, j - 1) + 1 \in 1..Len(Encode(t))
             /\ Encode(t)[ByteOffset(t, j - 1) + 1] = <<t[j], 1>>
  <2>0. j \in Nat /\ j - 1 \in Nat /\ j <= Len(t)
    BY <1>0
  <2>1. ByteOffset(t, j - 1) \in Nat /\ ByteOffset(t, j) \in Nat
    BY <2>0, OffsetType
  <2>2. ByteOffset(t, j - 1) < ByteOffset(t, j) /\ ByteOffset(t, j) <= ByteOffset(t, Len(t))
    BY <1>0, <2>0, OffsetMonotone
  <2>3. ASSUME NEW o, o = ByteOffset(t, j - 1) + 1
        PROVE  Encode(t)[o] = <<t[j], o - ByteOffset(t, j - 1)>>
    <3>1. o \in Nat /\ ByteOffset(t, j - 1) < o /\ o <= ByteOffset(t, j)
      BY <2>1, <2>2, <2>3
    <3> QED
      BY <3>1, EncodeProperties
  <2> QED
    BY <1>1, <2>1, <2>2, <2>3
<1>3. ASSUME NEW o \in 1..Len(Encode(t)), Encode(t)[o] = <<c, 1>>
      PROVE  \E j \in 1..Len(t) : o = ByteOffset(t, j - 1) + 1 /\ t[j] = c
  <2>1. PICK j \in 1..Len(t) : ByteOffset(t, j - 1) < o /\ o <= ByteOffset(t, j)
    BY <1>1, CharExists
  <2>2. Encode(t)[o] = <<t[j], o - ByteOffset(t, j - 1)>>
    BY <1>1, <2>1, EncodeProperties
  <2>3. ByteOffset(t, j - 1) \in Nat
    BY <1>0, OffsetType
  <2> QED
    BY <1>1, <1>3, <2>2, <2>3
<1> QED
  BY <1>2, <1>3

\* There are as many byte offsets as characters.
LEMMA OffsetsCounted ==
    ASSUME NEW t, NEW J, J \subseteq Nat, IsFiniteSet(J)
    PROVE  Cardinality({ByteOffset(t, j) : j \in J}) = Cardinality(J)
<1> DEFINE R == {ByteOffset(t, j) : j \in J}
           f == [j \in J |-> ByteOffset(t, j)]
<1>1. f \in [J -> R] /\ \A y \in R : \E x \in J : f[x] = y
  OBVIOUS
<1>2. \A x, y \in J : f[x] = f[y] => x = y
  BY OffsetInjective
<1> HIDE DEF f, R
<1>3. f \in Surjection(J, R)
  BY <1>1 DEF Surjection
<1>4. f \in Injection(J, R)
  BY <1>1, <1>2 DEF Injection, IsInjective
<1>5. Cardinality(R) = Cardinality(J)
  BY <1>3, <1>4, FS_Surjection
<1> QED
  BY <1>5 DEF R

\* The line of the position after the first i characters begins after the first a.
-----------------------------------------------------------------------------
(* Lines.                                                                  *)

\* The line of the position after the first i characters begins after the first a.
LineBegins(t, a, i) ==
    /\ a \in 0..i
    /\ a = 0 \/ t[a] = "n"
    /\ Occurrences(t, "n", a, i) = 0

\* The line index finds a line after each newline of the text, and the first one.
LEMMA LineStartsOfEncoding ==
    ASSUME NEW t \in Seq(Chars)
    PROVE  LineStarts(Encode(t))
             = {0} \union {ByteOffset(t, j) : j \in {k \in 1..Len(t) : t[k] = "n"}}
<1> DEFINE b == Encode(t)
<1>0. Len(t) \in Nat
  BY LenProperties
<1>1. ASSUME NEW j \in 1..Len(t), t[j] = "n"
      PROVE  ByteOffset(t, j) \in Nat /\ ByteOffset(t, j) = ByteOffset(t, j - 1) + 1
  <2>1. j \in Nat \ {0} /\ ByteLen(t[j]) = 1
    BY <1>0, <1>1 DEF ByteLen
  <2>2. ByteOffset(t, j) = ByteOffset(t, j - 1) + 1
    BY <2>1, OffsetStep
  <2> QED
    BY <2>1, <2>2, OffsetType
<1>2. ASSUME NEW j \in 1..Len(t), t[j] = "n"
      PROVE  ByteOffset(t, j) \in 1..Len(b) /\ b[ByteOffset(t, j)] = <<"n", 1>>
  BY <1>1, <1>2, FirstBytes
<1>3. ASSUME NEW o \in 1..Len(b), b[o] = <<"n", 1>>
      PROVE  \E j \in 1..Len(t) : t[j] = "n" /\ o = ByteOffset(t, j)
  <2>1. PICK j \in 1..Len(t) : o = ByteOffset(t, j - 1) + 1 /\ t[j] = "n"
    BY <1>3, FirstBytes
  <2> QED
    BY <1>1, <2>1
<1> QED
  BY <1>2, <1>3 DEF LineStarts

\* LineIndex::line_col counts the newlines before the offset, as the client does.
LEMMA LineOfOffset ==
    ASSUME NEW t \in Seq(Chars), NEW i \in 0..Len(t)
    PROVE  LineOf(Encode(t), ByteOffset(t, i)) = Occurrences(t, "n", 0, i)
<1> DEFINE J == {j \in (0 + 1)..i : t[j] = "n"}
           S == {s \in LineStarts(Encode(t)) : 0 < s /\ s <= ByteOffset(t, i)}
<1>0. Len(t) \in Nat /\ i \in Nat /\ i <= Len(t)
  BY LenProperties
<1>1. J \subseteq 1..i /\ J \subseteq Nat
  BY <1>0
<1>2. ASSUME NEW s \in S PROVE \E j \in J : s = ByteOffset(t, j)
  <2>1. PICK j \in 1..Len(t) : t[j] = "n" /\ s = ByteOffset(t, j)
    BY LineStartsOfEncoding
  <2>2. j \in Nat /\ ByteOffset(t, j) \in Nat /\ ByteOffset(t, i) \in Nat
    BY <1>0, OffsetType
  <2>3. j <= i
    BY <1>0, <2>1, <2>2, OffsetMonotone
  <2> QED
    BY <1>0, <2>1, <2>2, <2>3
<1>3. ASSUME NEW x \in J PROVE ByteOffset(t, x) \in S
  <2>1. x \in Nat /\ x <= i /\ 0 < x /\ t[x] = "n"
    BY <1>0
  <2>2. ByteOffset(t, x) <= ByteOffset(t, i) /\ ByteOffset(t, 0) < ByteOffset(t, x)
    BY <1>0, <2>1, OffsetMonotone
  <2>3. ByteOffset(t, x) \in LineStarts(Encode(t))
    BY <1>0, <2>1, LineStartsOfEncoding
  <2> QED
    BY <2>2, <2>3, OffsetZero
<1>4. LineOf(Encode(t), ByteOffset(t, i)) = Cardinality(S)
  BY DEF LineOf
<1>5. Occurrences(t, "n", 0, i) = Cardinality(J)
  BY DEF Occurrences
<1> HIDE DEF J, S
<1>6. S = {ByteOffset(t, j) : j \in J}
  BY <1>2, <1>3
<1>7. IsFiniteSet(J)
  <2>1. IsFiniteSet(1..i)
    BY <1>0, FS_Interval
  <2> QED
    BY <1>1, <2>1, FS_Subset
<1> QED
  BY <1>1, <1>4, <1>5, <1>6, <1>7, OffsetsCounted

\* The client's position counts the newlines before it and the UTF-16 units after the
\* last of them.
LEMMA ClientLine ==
    ASSUME NEW t \in Seq(Chars), NEW i \in 0..Len(t)
    PROVE  \E a \in 0..i :
              /\ LineBegins(t, a, i)
              /\ ClientPosition(t, i) = [line |-> Occurrences(t, "n", 0, i),
                                         character |-> (i - a) + Occurrences(t, "g", a, i)]
<1> DEFINE breaks == {j \in 1..i : t[j] = "n"}
           begin  == IF breaks = {} THEN 0 ELSE Max(breaks)
<1>0. i \in Nat
  BY LenProperties
<1>1. ClientPosition(t, i) = [line |-> Occurrences(t, "n", 0, i),
                              character |-> (i - begin) + Occurrences(t, "g", begin, i)]
  BY DEF ClientPosition
<1>2. begin \in 0..i /\ (begin = 0 \/ t[begin] = "n") /\ \A j \in (begin + 1)..i : t[j] # "n"
  <2>1. CASE breaks = {}
    BY <1>0, <2>1
  <2>2. CASE breaks # {}
    <3>1. breaks \in SUBSET Nat /\ \A y \in breaks : y <= i
      BY <1>0
    <3>2. \E x \in breaks : \A y \in breaks : y <= x
      <4> HIDE DEF breaks
      <4> QED
        BY <1>0, <2>2, <3>1, GreatestOf
    <3>3. Max(breaks) \in breaks /\ \A y \in breaks : y <= Max(breaks)
      <4> HIDE DEF breaks
      <4>1. \E x \in breaks : \A y \in breaks : x >= y
        BY <3>1, <3>2
      <4>2. Max(breaks) \in breaks /\ \A y \in breaks : Max(breaks) >= y
        BY <4>1 DEF Max
      <4> QED
        BY <3>1, <4>2
    <3>4. begin = Max(breaks)
      BY <2>2
    <3> HIDE DEF begin
    <3>5. begin \in 1..i /\ t[begin] = "n"
      BY <3>3, <3>4
    <3>6. ASSUME NEW j \in (begin + 1)..i, t[j] = "n" PROVE FALSE
      <4>1. j \in breaks
        BY <1>0, <3>5, <3>6
      <4>2. j <= begin
        BY <3>3, <3>4, <4>1
      <4> QED
        BY <1>0, <3>5, <3>6, <4>2
    <3> QED
      BY <1>0, <3>5, <3>6
  <2> QED
    BY <2>1, <2>2
<1> HIDE DEF begin
<1>3. Occurrences(t, "n", begin, i) = 0
  BY <1>0, <1>2, OccurrencesNone
<1>4. LineBegins(t, begin, i)
  BY <1>2, <1>3 DEF LineBegins
<1> QED
  BY <1>1, <1>2, <1>4

\* Two positions with the same count of newlines have the same beginning of line.
LEMMA SameLine ==
    ASSUME NEW t, NEW i \in Nat, NEW k \in Nat, NEW a \in 0..i, LineBegins(t, a, i),
           Occurrences(t, "n", 0, k) = Occurrences(t, "n", 0, i)
    PROVE  LineBegins(t, a, k)
<1>0. a \in Nat /\ a <= i
  OBVIOUS
<1>1. \A x, y \in Nat : Occurrences(t, "n", x, y) \in Nat
  BY OccurrencesType
<1>2. Occurrences(t, "n", 0, i) = Occurrences(t, "n", 0, a)
  <2>1. Occurrences(t, "n", 0, i) = Occurrences(t, "n", 0, a) + Occurrences(t, "n", a, i)
    BY <1>0, OccurrencesSplit
  <2> QED
    BY <1>0, <1>1, <2>1 DEF LineBegins
<1>3. a <= k
  <2>1. ASSUME k < a PROVE FALSE
    <3>1. a # 0 /\ t[a] = "n" /\ a - 1 \in Nat /\ k <= a - 1
      BY <1>0, <2>1 DEF LineBegins
    <3>2. Occurrences(t, "n", 0, a) = Occurrences(t, "n", 0, a - 1) + Occurrences(t, "n", a - 1, a)
      BY <1>0, <3>1, OccurrencesSplit
    <3>3. Occurrences(t, "n", 0, a - 1) = Occurrences(t, "n", 0, k) + Occurrences(t, "n", k, a - 1)
      BY <3>1, OccurrencesSplit
    <3>4. Occurrences(t, "n", a - 1, a) = 1
      BY <1>0, <3>1, OccurrencesOne
    <3> QED
      BY <1>0, <1>1, <1>2, <3>1, <3>2, <3>3, <3>4
  <2> QED
    BY <1>0, <2>1
<1>4. Occurrences(t, "n", a, k) = 0
  <2>1. Occurrences(t, "n", 0, k) = Occurrences(t, "n", 0, a) + Occurrences(t, "n", a, k)
    BY <1>0, <1>3, OccurrencesSplit
  <2>2. Occurrences(t, "n", 0, a) \in Nat /\ Occurrences(t, "n", a, k) \in Nat
    BY <1>0, OccurrencesType
  <2> QED
    BY <1>2, <2>1, <2>2
<1> QED
  BY <1>0, <1>3, <1>4 DEF LineBegins

\* LineIndex::line gives the byte at which the client's line begins.
LEMMA StartOfLine ==
    ASSUME NEW t \in Seq(Chars), NEW i \in 0..Len(t), NEW a \in 0..i, LineBegins(t, a, i)
    PROVE  StartOffset(Encode(t), Occurrences(t, "n", 0, i)) = ByteOffset(t, a)
<1> DEFINE b    == Encode(t)
           line == Occurrences(t, "n", 0, i)
           here == {s \in LineStarts(b) : LineOf(b, s) = line}
<1>0. Len(t) \in Nat /\ i \in Nat /\ a \in Nat /\ a <= i /\ i <= Len(t)
  BY LenProperties
<1>1. ByteOffset(t, a) \in here
  <2>1. ByteOffset(t, a) \in LineStarts(b)
    <3>1. CASE a = 0
      BY <3>1, OffsetZero, LineStartsOfEncoding
    <3>2. CASE a # 0
      <4>1. a \in 1..Len(t) /\ t[a] = "n"
        BY <1>0, <3>2 DEF LineBegins
      <4> QED
        BY <4>1, LineStartsOfEncoding
    <3> QED
      BY <3>1, <3>2
  <2>2. LineOf(b, ByteOffset(t, a)) = Occurrences(t, "n", 0, a)
    BY <1>0, LineOfOffset
  <2>3. Occurrences(t, "n", 0, i) = Occurrences(t, "n", 0, a) + Occurrences(t, "n", a, i)
    BY <1>0, OccurrencesSplit
  <2>4. Occurrences(t, "n", 0, a) \in Nat /\ Occurrences(t, "n", a, i) = 0
    BY <1>0, OccurrencesType DEF LineBegins
  <2> QED
    BY <2>1, <2>2, <2>3, <2>4
<1>2. ASSUME NEW s \in here PROVE s = ByteOffset(t, a)
  <2>1. PICK j \in 0..Len(t) : s = ByteOffset(t, j) /\ (j = 0 \/ t[j] = "n")
    <3>1. s \in {0} \union {ByteOffset(t, j) : j \in {k \in 1..Len(t) : t[k] = "n"}}
      BY LineStartsOfEncoding
    <3>2. CASE s = 0
      BY <1>0, <3>2, OffsetZero
    <3> QED
      BY <1>0, <3>1, <3>2
  <2>2. j \in Nat /\ Occurrences(t, "n", 0, j) = line
    BY <1>0, <2>1, LineOfOffset
  <2>3. LineBegins(t, a, j)
    BY <1>0, <2>2, SameLine
  <2>4. ASSUME j # a PROVE FALSE
    <3>1. a < j /\ t[j] = "n" /\ Occurrences(t, "n", a, j) = 0
      BY <1>0, <2>1, <2>2, <2>3, <2>4 DEF LineBegins
    <3>2. j \in (a + 1)..j
      BY <1>0, <2>2, <3>1
    <3> QED
      BY <1>0, <2>2, <3>1, <3>2, OccurrencesNone
  <2> QED
    BY <2>1, <2>4
<1>3. StartOffset(b, line) = IF here = {} THEN -1 ELSE CHOOSE s \in here : TRUE
  BY DEF StartOffset
<1> HIDE DEF here, line, b
<1>4. StartOffset(b, line) = ByteOffset(t, a)
  BY <1>1, <1>2, <1>3
<1> QED
  BY <1>4 DEF line, b

\* A line after the last one is not in the index.
LEMMA NoLineBeyond ==
    ASSUME NEW t \in Seq(Chars), NEW line \in Nat, line > Occurrences(t, "n", 0, Len(t))
    PROVE  StartOffset(Encode(t), line) = -1
<1>0. Len(t) \in Nat
  BY LenProperties
<1>1. ASSUME NEW s \in LineStarts(Encode(t)), LineOf(Encode(t), s) = line PROVE FALSE
  <2>1. PICK j \in 0..Len(t) : s = ByteOffset(t, j)
    <3>1. s \in {0} \union {ByteOffset(t, j) : j \in {k \in 1..Len(t) : t[k] = "n"}}
      BY LineStartsOfEncoding
    <3>2. CASE s = 0
      BY <1>0, <3>2, OffsetZero
    <3> QED
      BY <1>0, <3>1, <3>2
  <2>2. j \in Nat /\ j <= Len(t) /\ Occurrences(t, "n", 0, j) = line
    BY <1>0, <1>1, <2>1, LineOfOffset
  <2>3. Occurrences(t, "n", 0, Len(t)) = Occurrences(t, "n", 0, j) + Occurrences(t, "n", j, Len(t))
    BY <1>0, <2>2, OccurrencesSplit
  <2>4. Occurrences(t, "n", 0, j) \in Nat /\ Occurrences(t, "n", j, Len(t)) \in Nat
    BY <1>0, <2>2, OccurrencesType
  <2> QED
    BY <2>2, <2>3, <2>4
<1> QED
  BY <1>1 DEF StartOffset

-----------------------------------------------------------------------------
(* Columns.                                                                *)

\* There are as many first bytes of a kind of character as characters of that kind.
LEMMA StartsCounted ==
    ASSUME NEW t, NEW c, NEW a \in Nat, NEW i \in Nat, a <= i
    PROVE  Cardinality({o \in Nat : \E j \in (a + 1)..i : t[j] = c /\ o = ByteOffset(t, j - 1)})
             = Occurrences(t, c, a, i)
<1> DEFINE J == {j \in (a + 1)..i : t[j] = c}
           K == {k \in a..(i - 1) : t[k + 1] = c}
           f == [j \in J |-> j - 1]
           R == {o \in Nat : \E j \in (a + 1)..i : t[j] = c /\ o = ByteOffset(t, j - 1)}
<1>1. f \in [J -> K] /\ (\A k \in K : \E j \in J : f[j] = k)
  <2>1. f \in [J -> K]
    OBVIOUS
  <2>2. ASSUME NEW k \in K PROVE k + 1 \in J /\ f[k + 1] = k
    OBVIOUS
  <2> QED
    BY <2>1, <2>2
<1>2. \A x, y \in J : f[x] = f[y] => x = y
  OBVIOUS
<1>3. R = {ByteOffset(t, k) : k \in K}
  <2>1. ASSUME NEW o \in R PROVE \E k \in K : o = ByteOffset(t, k)
    <3>1. PICK j \in (a + 1)..i : t[j] = c /\ o = ByteOffset(t, j - 1)
      OBVIOUS
    <3>2. j - 1 \in K
      BY <3>1
    <3> QED
      BY <3>1, <3>2
  <2>2. ASSUME NEW k \in K PROVE ByteOffset(t, k) \in R
    <3>1. k \in Nat /\ k + 1 \in (a + 1)..i /\ t[k + 1] = c /\ (k + 1) - 1 = k
      OBVIOUS
    <3>2. ByteOffset(t, k) \in Nat
      BY <3>1, OffsetType
    <3> QED
      BY <3>1, <3>2
  <2> QED
    BY <2>1, <2>2
<1>4. Occurrences(t, c, a, i) = Cardinality(J)
  BY DEF Occurrences
<1>5. /\ J \subseteq (a + 1)..i /\ a + 1 \in Int
      /\ K \subseteq a..(i - 1) /\ i - 1 \in Int
      /\ K \subseteq Nat
  OBVIOUS
<1> HIDE DEF J, K, f, R
<1>6. IsFiniteSet(J) /\ IsFiniteSet(K)
  <2>1. IsFiniteSet((a + 1)..i) /\ IsFiniteSet(a..(i - 1))
    BY <1>5, FS_Interval
  <2> QED
    BY <1>5, <2>1, FS_Subset
<1>7. f \in Surjection(J, K) /\ f \in Injection(J, K)
  BY <1>1, <1>2 DEF Surjection, Injection, IsInjective
<1>8. Cardinality(K) = Cardinality(J)
  BY <1>6, <1>7, FS_Surjection
<1>9. Cardinality(R) = Cardinality(K)
  BY <1>3, <1>5, <1>6, OffsetsCounted
<1> QED
  BY <1>4, <1>8, <1>9 DEF R

\* The offsets of the wide characters from + 1 to to.
WideBetween(t, from, to) ==
    {o \in Nat : \E j \in (from + 1)..to : t[j] \in {"e", "g"} /\ o = ByteOffset(t, j - 1)}

\* The wide characters of a line, as the index keeps them, are the line's characters
\* of more than one byte.
LEMMA WideOnLine ==
    ASSUME NEW t \in Seq(Chars), NEW i \in 0..Len(t), NEW a \in 0..i, LineBegins(t, a, i)
    PROVE  /\ \A o \in WideChars(Encode(t), Occurrences(t, "n", 0, i)) :
                \E j \in 1..Len(t) : /\ o = ByteOffset(t, j - 1)
                                     /\ t[j] \in {"e", "g"}
                                     /\ Encode(t)[o + 1] = <<t[j], 1>>
                                     /\ LineBegins(t, a, j - 1)
           /\ \A j \in (a + 1)..i :
                t[j] \in {"e", "g"}
                    => /\ ByteOffset(t, j - 1) \in WideChars(Encode(t), Occurrences(t, "n", 0, i))
                       /\ Encode(t)[ByteOffset(t, j - 1) + 1] = <<t[j], 1>>
                       /\ LineBegins(t, a, j - 1)
<1> DEFINE b    == Encode(t)
           line == Occurrences(t, "n", 0, i)
<1>0. Len(t) \in Nat /\ i \in Nat /\ a \in Nat /\ a <= i /\ i <= Len(t)
  BY LenProperties
<1>1. Len(b) \in Nat
  BY EncodeProperties, LenProperties
<1>2. ASSUME NEW o \in WideChars(b, line)
      PROVE  \E j \in 1..Len(t) : /\ o = ByteOffset(t, j - 1)
                                  /\ t[j] \in {"e", "g"}
                                  /\ b[o + 1] = <<t[j], 1>>
                                  /\ LineBegins(t, a, j - 1)
  <2>1. o \in 0..(Len(b) - 1) /\ b[o + 1] \in {<<"e", 1>>, <<"g", 1>>} /\ LineOf(b, o) = line
    BY DEF WideChars
  <2>2. PICK c \in {"e", "g"} : b[o + 1] = <<c, 1>>
    BY <2>1
  <2>3. o \in Nat /\ o + 1 \in 1..Len(b)
    BY <1>1, <2>1
  <2>4. PICK j \in 1..Len(t) : o + 1 = ByteOffset(t, j - 1) + 1 /\ t[j] = c
    BY <2>2, <2>3, FirstBytes
  <2>5. j - 1 \in Nat /\ j - 1 \in 0..Len(t) /\ ByteOffset(t, j - 1) \in Nat
    BY <1>0, OffsetType
  <2>6. o = ByteOffset(t, j - 1)
    BY <2>3, <2>4, <2>5
  <2>7. Occurrences(t, "n", 0, j - 1) = line
    BY <2>1, <2>5, <2>6, LineOfOffset
  <2>8. LineBegins(t, a, j - 1)
    BY <1>0, <2>5, <2>7, SameLine
  <2> QED
    BY <2>2, <2>4, <2>6, <2>8
<1>3. ASSUME NEW j \in (a + 1)..i, t[j] \in {"e", "g"}
      PROVE  /\ ByteOffset(t, j - 1) \in WideChars(b, line)
             /\ b[ByteOffset(t, j - 1) + 1] = <<t[j], 1>>
             /\ LineBegins(t, a, j - 1)
  <2>1. j \in 1..Len(t) /\ j - 1 \in Nat /\ a <= j - 1 /\ j - 1 <= i /\ j - 1 \in 0..Len(t)
    BY <1>0
  <2>2. /\ ByteOffset(t, j - 1) + 1 \in 1..Len(b)
        /\ b[ByteOffset(t, j - 1) + 1] = <<t[j], 1>>
    BY <2>1, FirstBytes
  <2>3. Occurrences(t, "n", 0, j - 1) = line
    <3>1. /\ Occurrences(t, "n", 0, i) = Occurrences(t, "n", 0, j - 1) + Occurrences(t, "n", j - 1, i)
          /\ Occurrences(t, "n", a, i) = Occurrences(t, "n", a, j - 1) + Occurrences(t, "n", j - 1, i)
      BY <1>0, <2>1, OccurrencesSplit
    <3>2. /\ Occurrences(t, "n", 0, j - 1) \in Nat /\ Occurrences(t, "n", j - 1, i) \in Nat
          /\ Occurrences(t, "n", a, j - 1) \in Nat /\ Occurrences(t, "n", a, i) = 0
      BY <1>0, <2>1, OccurrencesType DEF LineBegins
    <3> QED
      BY <3>1, <3>2
  <2>4. LineBegins(t, a, j - 1)
    BY <1>0, <2>1, <2>3, SameLine
  <2>5. LineOf(b, ByteOffset(t, j - 1)) = line
    BY <2>1, <2>3, LineOfOffset
  <2>6. ByteOffset(t, j - 1) \in 0..(Len(b) - 1)
    <3>1. ByteOffset(t, j - 1) \in Nat
      BY <2>1, OffsetType
    <3> QED
      BY <1>1, <2>2, <3>1
  <2>7. ByteOffset(t, j - 1) \in WideChars(b, line)
    BY <1>3, <2>2, <2>5, <2>6 DEF WideChars
  <2> QED
    BY <2>2, <2>4, <2>7
<1> QED
  BY <1>2, <1>3

\* The bytes beyond the UTF-16 units among some characters, counted by their kinds.
LEMMA ShiftBetween ==
    ASSUME NEW t \in Seq(Chars), NEW i \in 0..Len(t), NEW a \in 0..i
    PROVE  Shift(Encode(t), WideBetween(t, a, i))
             = Occurrences(t, "e", a, i) + 2 * Occurrences(t, "g", a, i)
<1> DEFINE b == Encode(t)
           Of(c) == {o \in Nat : \E j \in (a + 1)..i : t[j] = c /\ o = ByteOffset(t, j - 1)}
<1>0. Len(t) \in Nat /\ i \in Nat /\ a \in Nat /\ a <= i /\ i <= Len(t)
  BY LenProperties
<1>1. ASSUME NEW c \in {"e", "g"}
      PROVE  {o \in WideBetween(t, a, i) : b[o + 1][1] = c} = Of(c)
  <2>1. ASSUME NEW j \in (a + 1)..i PROVE b[ByteOffset(t, j - 1) + 1][1] = t[j]
    <3>1. j \in 1..Len(t)
      BY <1>0
    <3>2. b[ByteOffset(t, j - 1) + 1] = <<t[j], 1>>
      BY <3>1, FirstBytes
    <3> QED
      BY <3>2
  <2>2. ASSUME NEW o \in WideBetween(t, a, i), b[o + 1][1] = c PROVE o \in Of(c)
    BY <2>1, <2>2 DEF WideBetween
  <2>3. ASSUME NEW o \in Of(c) PROVE o \in WideBetween(t, a, i) /\ b[o + 1][1] = c
    BY <2>1 DEF WideBetween
  <2> QED
    BY <2>2, <2>3
<1>2. Cardinality(Of("e")) = Occurrences(t, "e", a, i)
  BY <1>0, StartsCounted
<1>3. Cardinality(Of("g")) = Occurrences(t, "g", a, i)
  BY <1>0, StartsCounted
<1>4. Shift(b, WideBetween(t, a, i)) = Cardinality(Of("e")) + 2 * Cardinality(Of("g"))
  BY <1>1 DEF Shift
<1> QED
  BY <1>2, <1>3, <1>4

\* The bytes of a column less the shift of its wide characters are its UTF-16 units.
LEMMA ColumnArithmetic ==
    ASSUME NEW x \in Nat, NEW y \in Nat, NEW d \in Int, NEW e \in Nat, NEW g \in Nat,
           y = x + d + e + 3 * g
    PROVE  /\ (y - x) - (e + 2 * g) = d + g
           /\ (d + g) + (e + 2 * g) = y - x
  OBVIOUS

\* to_wide of a byte column is the client's UTF-16 column.
LEMMA WideColumn ==
    ASSUME NEW t \in Seq(Chars), NEW i \in 0..Len(t), NEW a \in 0..i, LineBegins(t, a, i)
    PROVE  ToWide(Encode(t), Occurrences(t, "n", 0, i), ByteOffset(t, i) - ByteOffset(t, a))
             = (i - a) + Occurrences(t, "g", a, i)
<1> DEFINE b      == Encode(t)
           line   == Occurrences(t, "n", 0, i)
           col    == ByteOffset(t, i) - ByteOffset(t, a)
           end(o) == o - ByteOffset(t, a) + ByteLen(b[o + 1][1])
           W      == {o \in WideChars(b, line) : end(o) <= col}
<1>0. Len(t) \in Nat /\ i \in Nat /\ a \in Nat /\ a <= i /\ i <= Len(t)
  BY LenProperties
<1>1. ToWide(b, line, col) = col - Shift(b, W)
  BY StartOfLine DEF ToWide
<1>2. ASSUME NEW j \in 1..Len(t), b[ByteOffset(t, j - 1) + 1] = <<t[j], 1>>
      PROVE  end(ByteOffset(t, j - 1)) <= col <=> j <= i
  <2>1. j \in Nat \ {0} /\ j - 1 \in Nat
    BY <1>0
  <2>2. ByteOffset(t, j) = ByteOffset(t, j - 1) + ByteLen(t[j])
    BY <2>1, OffsetStep
  <2>3. /\ ByteOffset(t, j) \in Nat /\ ByteOffset(t, j - 1) \in Nat
        /\ ByteOffset(t, i) \in Nat /\ ByteOffset(t, a) \in Nat /\ ByteLen(t[j]) \in Nat
    BY <1>0, <2>1, OffsetType, ByteLenType
  <2>4. end(ByteOffset(t, j - 1)) = ByteOffset(t, j) - ByteOffset(t, a)
    BY <1>2, <2>2, <2>3
  <2>5. ByteOffset(t, j) <= ByteOffset(t, i) <=> j <= i
    BY <1>0, <2>1, <2>3, OffsetMonotone
  <2> QED
    BY <2>3, <2>4, <2>5
<1>3. ASSUME NEW o \in W PROVE o \in WideBetween(t, a, i)
  <2>1. PICK j \in 1..Len(t) : /\ o = ByteOffset(t, j - 1)
                               /\ t[j] \in {"e", "g"}
                               /\ b[o + 1] = <<t[j], 1>>
                               /\ LineBegins(t, a, j - 1)
    BY WideOnLine
  <2>2. j \in (a + 1)..i
    BY <1>0, <1>2, <2>1 DEF LineBegins
  <2>3. o \in Nat
    BY <1>0, <2>1, OffsetType
  <2> QED
    BY <2>1, <2>2, <2>3 DEF WideBetween
<1>4. ASSUME NEW o \in WideBetween(t, a, i) PROVE o \in W
  <2>1. PICK j \in (a + 1)..i : t[j] \in {"e", "g"} /\ o = ByteOffset(t, j - 1)
    BY DEF WideBetween
  <2>2. o \in WideChars(b, line) /\ b[o + 1] = <<t[j], 1>>
    BY <2>1, WideOnLine
  <2>3. j \in 1..Len(t) /\ j <= i
    BY <1>0
  <2> QED
    BY <1>2, <2>1, <2>2, <2>3
<1>5. W = WideBetween(t, a, i)
  BY <1>3, <1>4
<1>6. Shift(b, W) = Occurrences(t, "e", a, i) + 2 * Occurrences(t, "g", a, i)
  BY <1>5, ShiftBetween
<1>7. ByteOffset(t, i) = ByteOffset(t, a) + (i - a)
                            + Occurrences(t, "e", a, i) + 3 * Occurrences(t, "g", a, i)
  BY <1>0, OffsetDifference
<1>8. /\ ByteOffset(t, i) \in Nat /\ ByteOffset(t, a) \in Nat
      /\ Occurrences(t, "e", a, i) \in Nat /\ Occurrences(t, "g", a, i) \in Nat
  BY <1>0, OffsetType, OccurrencesType
<1>9. ASSUME NEW s, s = Occurrences(t, "e", a, i) + 2 * Occurrences(t, "g", a, i)
      PROVE  col - s = (i - a) + Occurrences(t, "g", a, i)
  <2>1. PICK x \in Nat, y \in Nat, e \in Nat, g \in Nat, d \in Int :
            /\ x = ByteOffset(t, a) /\ y = ByteOffset(t, i)
            /\ e = Occurrences(t, "e", a, i) /\ g = Occurrences(t, "g", a, i)
            /\ d = i - a
    BY <1>0, <1>8
  <2>2. y = x + d + e + 3 * g /\ s = e + 2 * g
    BY <1>7, <1>9, <2>1
  <2>3. (y - x) - s = d + g
    BY <2>2, ColumnArithmetic
  <2> QED
    BY <2>1, <2>3
<1> QED
  BY <1>1, <1>6, <1>9

\* to_utf8 of the client's UTF-16 column is the byte column.
LEMMA Utf8Column ==
    ASSUME NEW t \in Seq(Chars), NEW i \in 0..Len(t), NEW a \in 0..i, LineBegins(t, a, i)
    PROVE  ToUtf8(Encode(t), [line |-> Occurrences(t, "n", 0, i),
                              character |-> (i - a) + Occurrences(t, "g", a, i)])
             = ByteOffset(t, i) - ByteOffset(t, a)
<1> DEFINE b        == Encode(t)
           line     == Occurrences(t, "n", 0, i)
           units    == (i - a) + Occurrences(t, "g", a, i)
           begin(o) == ToWide(b, line, o - ByteOffset(t, a))
           W        == {o \in WideChars(b, line) : begin(o) < units}
<1>0. Len(t) \in Nat /\ i \in Nat /\ a \in Nat /\ a <= i /\ i <= Len(t)
  BY LenProperties
<1>1. ToUtf8(b, [line |-> line, character |-> units]) = units + Shift(b, W)
  BY StartOfLine DEF ToUtf8
<1>2. ASSUME NEW j \in 1..Len(t), LineBegins(t, a, j - 1),
             Occurrences(t, "n", 0, j - 1) = line
      PROVE  begin(ByteOffset(t, j - 1)) < units <=> j <= i
  <2>1. j - 1 \in 0..Len(t) /\ a \in 0..(j - 1) /\ j \in Nat
    BY <1>0, <1>2 DEF LineBegins
  <2>2. begin(ByteOffset(t, j - 1)) = ((j - 1) - a) + Occurrences(t, "g", a, j - 1)
    BY <1>2, <2>1, WideColumn
  <2>3. CASE j - 1 <= i
    <3>1. Occurrences(t, "g", a, i) = Occurrences(t, "g", a, j - 1) + Occurrences(t, "g", j - 1, i)
      BY <1>0, <2>1, <2>3, OccurrencesSplit
    <3>2. /\ Occurrences(t, "g", a, j - 1) \in Nat /\ Occurrences(t, "g", j - 1, i) \in Nat
          /\ Occurrences(t, "g", a, i) \in Nat
      BY <1>0, <2>1, OccurrencesType
    <3>3. j - 1 = i => Occurrences(t, "g", a, i) = Occurrences(t, "g", a, j - 1)
      OBVIOUS
    <3> QED
      BY <1>0, <2>1, <2>2, <2>3, <3>1, <3>2, <3>3
  <2>4. CASE i < j - 1
    <3>1. Occurrences(t, "g", a, j - 1) = Occurrences(t, "g", a, i) + Occurrences(t, "g", i, j - 1)
      BY <1>0, <2>1, <2>4, OccurrencesSplit
    <3>2. /\ Occurrences(t, "g", a, j - 1) \in Nat /\ Occurrences(t, "g", i, j - 1) \in Nat
          /\ Occurrences(t, "g", a, i) \in Nat
      BY <1>0, <2>1, OccurrencesType
    <3> QED
      BY <1>0, <2>1, <2>2, <2>4, <3>1, <3>2
  <2> QED
    BY <1>0, <2>1, <2>3, <2>4
<1>3. ASSUME NEW j \in Nat \ {0}, LineBegins(t, a, j - 1)
      PROVE  Occurrences(t, "n", 0, j - 1) = line
  <2>1. a <= j - 1 /\ j - 1 \in Nat
    BY <1>0, <1>3 DEF LineBegins
  <2>2. /\ Occurrences(t, "n", 0, j - 1) = Occurrences(t, "n", 0, a) + Occurrences(t, "n", a, j - 1)
        /\ Occurrences(t, "n", 0, i) = Occurrences(t, "n", 0, a) + Occurrences(t, "n", a, i)
    BY <1>0, <2>1, OccurrencesSplit
  <2> QED
    BY <1>3, <2>2 DEF LineBegins
<1>4. ASSUME NEW o \in W PROVE o \in WideBetween(t, a, i)
  <2>1. PICK j \in 1..Len(t) : /\ o = ByteOffset(t, j - 1)
                               /\ t[j] \in {"e", "g"}
                               /\ LineBegins(t, a, j - 1)
    BY WideOnLine
  <2>2. j \in Nat \ {0} /\ j - 1 \in Nat
    BY <1>0
  <2>3. j <= i
    BY <1>2, <1>3, <2>1, <2>2
  <2>4. j \in (a + 1)..i /\ o \in Nat
    BY <1>0, <2>1, <2>2, <2>3, OffsetType DEF LineBegins
  <2> QED
    BY <2>1, <2>4 DEF WideBetween
<1>5. ASSUME NEW o \in WideBetween(t, a, i) PROVE o \in W
  <2>1. PICK j \in (a + 1)..i : t[j] \in {"e", "g"} /\ o = ByteOffset(t, j - 1)
    BY DEF WideBetween
  <2>2. o \in WideChars(b, line) /\ LineBegins(t, a, j - 1)
    BY <2>1, WideOnLine
  <2>3. j \in 1..Len(t) /\ j <= i /\ j \in Nat \ {0}
    BY <1>0
  <2> QED
    BY <1>2, <1>3, <2>1, <2>2, <2>3
<1>6. W = WideBetween(t, a, i)
  BY <1>4, <1>5
<1>7. Shift(b, W) = Occurrences(t, "e", a, i) + 2 * Occurrences(t, "g", a, i)
  BY <1>6, ShiftBetween
<1>8. ASSUME NEW s, s = Occurrences(t, "e", a, i) + 2 * Occurrences(t, "g", a, i)
      PROVE  units + s = ByteOffset(t, i) - ByteOffset(t, a)
  <2>1. ByteOffset(t, i) = ByteOffset(t, a) + (i - a)
                              + Occurrences(t, "e", a, i) + 3 * Occurrences(t, "g", a, i)
    BY <1>0, OffsetDifference
  <2>2. /\ ByteOffset(t, i) \in Nat /\ ByteOffset(t, a) \in Nat
        /\ Occurrences(t, "e", a, i) \in Nat /\ Occurrences(t, "g", a, i) \in Nat
    BY <1>0, OffsetType, OccurrencesType
  <2> HIDE DEF W, begin
  <2>3. PICK x \in Nat, y \in Nat, e \in Nat, g \in Nat :
           /\ x = ByteOffset(t, a) /\ y = ByteOffset(t, i)
           /\ e = Occurrences(t, "e", a, i) /\ g = Occurrences(t, "g", a, i)
    BY <2>2
  <2> DEFINE d == i - a
  <2>4. y = x + d + e + 3 * g
    BY <2>1, <2>3
  <2>5. s = e + 2 * g
    BY <1>8, <2>3
  <2>6. units = d + g /\ d \in Int
    BY <1>0, <2>3
  <2> HIDE DEF d
  <2>7. (d + g) + (e + 2 * g) = y - x
    BY <2>4, <2>6, ColumnArithmetic
  <2> QED
    BY <2>3, <2>5, <2>6, <2>7
<1> QED
  BY <1>1, <1>7, <1>8

-----------------------------------------------------------------------------
(* Positions, there and back.                                              *)

\* from_lsp_position of a position of the client is the byte offset of its place.
LEMMA OffsetOfClientPosition ==
    ASSUME NEW t \in Seq(Chars), NEW i \in 0..Len(t)
    PROVE  OffsetOf(Encode(t), ClientPosition(t, i)) = ByteOffset(t, i)
<1>0. Len(t) \in Nat /\ i \in Nat
  BY LenProperties
<1>1. PICK a \in 0..i :
         /\ LineBegins(t, a, i)
         /\ ClientPosition(t, i) = [line |-> Occurrences(t, "n", 0, i),
                                    character |-> (i - a) + Occurrences(t, "g", a, i)]
  BY ClientLine
<1>2. StartOffset(Encode(t), ClientPosition(t, i).line) = ByteOffset(t, a)
  BY <1>1, StartOfLine
<1>3. ToUtf8(Encode(t), ClientPosition(t, i)) = ByteOffset(t, i) - ByteOffset(t, a)
  BY <1>1, Utf8Column
<1>4. ByteOffset(t, a) \in Nat /\ ByteOffset(t, i) \in Nat
  BY <1>0, OffsetType
<1> QED
  BY <1>2, <1>3, <1>4 DEF OffsetOf

\* The same for both ways in which a client may write the end of its text.
LEMMA OffsetOfPositions ==
    ASSUME NEW t \in Seq(Chars), NEW i \in 0..Len(t), NEW p \in Positions(t, i)
    PROVE  OffsetOf(Encode(t), p) = ByteOffset(t, i)
<1>0. Len(t) \in Nat /\ i \in Nat
  BY LenProperties
<1>1. CASE p = ClientPosition(t, i)
  BY <1>1, OffsetOfClientPosition
<1>2. CASE i = Len(t) /\ p = [line |-> ClientPosition(t, i).line + 1, character |-> 0]
  <2>1. ClientPosition(t, i).line = Occurrences(t, "n", 0, i)
    BY DEF ClientPosition
  <2>2. Occurrences(t, "n", 0, i) \in Nat
    BY <1>0, OccurrencesType
  <2>3. p.line \in Nat /\ p.line > Occurrences(t, "n", 0, Len(t))
    BY <1>2, <2>1, <2>2
  <2>4. StartOffset(Encode(t), p.line) = -1
    BY <2>3, NoLineBeyond
  <2>5. OffsetOf(Encode(t), p) = Len(Encode(t))
    BY <2>4 DEF OffsetOf
  <2> QED
    BY <1>2, <2>5, EncodeProperties
<1> QED
  BY <1>1, <1>2 DEF Positions

\* The client's position and the tree-sitter point of one place, side by side.
LEMMA PointOfOffset ==
    ASSUME NEW t \in Seq(Chars), NEW i \in 0..Len(t)
    PROVE  \E a \in 0..i :
              /\ LineBegins(t, a, i)
              /\ ClientPosition(t, i) = [line |-> Occurrences(t, "n", 0, i),
                                         character |-> (i - a) + Occurrences(t, "g", a, i)]
              /\ ByteToPoint(Encode(t), ByteOffset(t, i))
                    = [row |-> Occurrences(t, "n", 0, i),
                       column |-> ByteOffset(t, i) - ByteOffset(t, a)]
<1>1. PICK a \in 0..i :
         /\ LineBegins(t, a, i)
         /\ ClientPosition(t, i) = [line |-> Occurrences(t, "n", 0, i),
                                    character |-> (i - a) + Occurrences(t, "g", a, i)]
  BY ClientLine
<1>2. LineOf(Encode(t), ByteOffset(t, i)) = Occurrences(t, "n", 0, i)
  BY LineOfOffset
<1>3. StartOffset(Encode(t), Occurrences(t, "n", 0, i)) = ByteOffset(t, a)
  BY <1>1, StartOfLine
<1> QED
  BY <1>1, <1>2, <1>3 DEF ByteToPoint

\* to_lsp_position and point_to_position both give the client's position; the ASCII
\* short cut of the second is right for a text whose characters are all ASCII.
LEMMA PositionOfOffset ==
    ASSUME NEW t \in Seq(Chars), NEW i \in 0..Len(t)
    PROVE  /\ PositionOf(Encode(t), ByteOffset(t, i)) = ClientPosition(t, i)
           /\ PointToPosition(Encode(t), AllAscii(Encode(t)),
                              ByteToPoint(Encode(t), ByteOffset(t, i))) = ClientPosition(t, i)
<1> DEFINE b == Encode(t)
<1>0. Len(t) \in Nat /\ i \in Nat /\ i <= Len(t)
  BY LenProperties
<1>1. PICK a \in 0..i :
         /\ LineBegins(t, a, i)
         /\ ClientPosition(t, i) = [line |-> Occurrences(t, "n", 0, i),
                                    character |-> (i - a) + Occurrences(t, "g", a, i)]
         /\ ByteToPoint(b, ByteOffset(t, i))
               = [row |-> Occurrences(t, "n", 0, i),
                  column |-> ByteOffset(t, i) - ByteOffset(t, a)]
  BY PointOfOffset
<1>2. ToWide(b, Occurrences(t, "n", 0, i), ByteOffset(t, i) - ByteOffset(t, a))
         = (i - a) + Occurrences(t, "g", a, i)
  BY <1>1, WideColumn
<1>3. PositionOf(b, ByteOffset(t, i)) = ClientPosition(t, i)
  BY <1>1, <1>2 DEF PositionOf
<1>4. ASSUME AllAscii(b)
      PROVE  ByteOffset(t, i) - ByteOffset(t, a) = (i - a) + Occurrences(t, "g", a, i)
  <2>1. ASSUME NEW j \in (a + 1)..i PROVE t[j] # "e" /\ t[j] # "g"
    <3>1. j \in 1..Len(t)
      BY <1>0
    <3>2. /\ ByteOffset(t, j - 1) + 1 \in 1..Len(b)
          /\ b[ByteOffset(t, j - 1) + 1] = <<t[j], 1>>
      BY <3>1, FirstBytes
    <3>3. ByteOffset(t, j - 1) + 1 \in DOMAIN b
      BY <3>2, EncodeProperties, LenProperties
    <3> QED
      BY <1>4, <3>2, <3>3 DEF AllAscii
  <2>2. Occurrences(t, "e", a, i) = 0 /\ Occurrences(t, "g", a, i) = 0
    BY <1>0, <2>1, OccurrencesNone
  <2>3. ByteOffset(t, i) = ByteOffset(t, a) + (i - a)
                              + Occurrences(t, "e", a, i) + 3 * Occurrences(t, "g", a, i)
    BY <1>0, OffsetDifference
  <2>4. ByteOffset(t, i) \in Nat /\ ByteOffset(t, a) \in Nat
    BY <1>0, OffsetType
  <2> QED
    BY <1>0, <2>2, <2>3, <2>4
<1>5. PointToPosition(b, AllAscii(b), ByteToPoint(b, ByteOffset(t, i))) = ClientPosition(t, i)
  BY <1>1, <1>2, <1>4 DEF PointToPosition
<1> QED
  BY <1>3, <1>5

-----------------------------------------------------------------------------
(* Splicing and parsing anew.                                              *)

\* A concatenation falls apart into what it was made of.
LEMMA ConcatHalves ==
    ASSUME NEW S, NEW s \in Seq(S), NEW t \in Seq(S)
    PROVE  /\ SubSeq(s \o t, 1, Len(s)) = s
           /\ SubSeq(s \o t, Len(s) + 1, Len(s \o t)) = t
<1> DEFINE u == s \o t
           x == SubSeq(u, 1, Len(s))
           y == SubSeq(u, Len(s) + 1, Len(u))
<1>0. Len(s) \in Nat /\ Len(t) \in Nat
  BY LenProperties
<1>1. /\ u \in Seq(S) /\ Len(u) = Len(s) + Len(t)
      /\ \A i \in 1..(Len(s) + Len(t)) : u[i] = IF i <= Len(s) THEN s[i] ELSE t[i - Len(s)]
  BY ConcatProperties
<1>2. \A i \in 1..Len(u) : u[i] \in S
  BY <1>1, ElementOfSeq
<1> HIDE DEF u
<1>3. x = s
  <2>1. /\ x \in Seq(S) /\ Len(x) = Len(s)
        /\ \A i \in 1..Len(s) : x[i] = u[i]
    <3>1. \A i \in 1..Len(s) : u[i] \in S
      BY <1>0, <1>1, <1>2
    <3>2. /\ x \in Seq(S) /\ Len(x) = IF 1 <= Len(s) THEN Len(s) - 1 + 1 ELSE 0
          /\ \A i \in 1..(Len(s) - 1 + 1) : x[i] = u[1 + i - 1]
      BY <1>0, <3>1, SubSeqProperties
    <3> QED
      BY <1>0, <3>2
  <2>2. \A i \in 1..Len(x) : x[i] = s[i]
    BY <1>0, <1>1, <2>1
  <2> HIDE DEF x
  <2> QED
    BY <2>1, <2>2, SeqEqual
<1>4. y = t
  <2>1. /\ y \in Seq(S) /\ Len(y) = Len(t)
        /\ \A i \in 1..Len(t) : y[i] = u[Len(s) + i]
    <3> DEFINE m == Len(s) + 1
               n == Len(u)
    <3>1. m \in Int /\ n \in Int /\ \A i \in m..n : u[i] \in S
      BY <1>0, <1>1, <1>2
    <3>2. /\ SubSeq(u, m, n) \in Seq(S)
          /\ Len(SubSeq(u, m, n)) = IF m <= n THEN n - m + 1 ELSE 0
          /\ \A i \in 1..(n - m + 1) : SubSeq(u, m, n)[i] = u[m + i - 1]
      <4> HIDE DEF m, n
      <4> QED
        BY <3>1, SubSeqProperties
    <3>3. n - m + 1 = Len(t) /\ (m <= n <=> Len(t) # 0)
      BY <1>0, <1>1
    <3>4. \A i \in 1..Len(t) : m + i - 1 = Len(s) + i
      BY <1>0
    <3> QED
      BY <1>0, <3>2, <3>3, <3>4
  <2>2. \A i \in 1..Len(y) : y[i] = t[i]
    <3>1. ASSUME NEW i \in 1..Len(t) PROVE u[Len(s) + i] = t[i]
      <4>1. Len(s) + i \in 1..(Len(s) + Len(t)) /\ ~(Len(s) + i <= Len(s)) /\ (Len(s) + i) - Len(s) = i
        BY <1>0
      <4> QED
        BY <1>1, <4>1
    <3> QED
      BY <2>1, <3>1
  <2> HIDE DEF y
  <2> QED
    BY <2>1, <2>2, SeqEqual
<1> QED
  BY <1>3, <1>4 DEF u

\* Byte offsets in a concatenation: those of the first text, then of the second.
LEMMA OffsetConcat ==
    ASSUME NEW s \in Seq(Chars), NEW t \in Seq(Chars)
    PROVE  /\ \A i \in 0..Len(s) : ByteOffset(s \o t, i) = ByteOffset(s, i)
           /\ \A k \in 0..Len(t) :
                ByteOffset(s \o t, Len(s) + k) = ByteOffset(s, Len(s)) + ByteOffset(t, k)
<1> DEFINE u == s \o t
           n == Len(s)
<1>0. n \in Nat /\ Len(t) \in Nat
  BY LenProperties
<1>1. \A i \in 1..(n + Len(t)) : u[i] = IF i <= n THEN s[i] ELSE t[i - n]
  BY ConcatProperties
<1> HIDE DEF u, n
<1>2. ASSUME NEW i \in 0..n, ByteOffset(u, i) # ByteOffset(s, i) PROVE FALSE
  <2> DEFINE Bad == {k \in Nat : k <= n /\ ByteOffset(u, k) # ByteOffset(s, k)}
  <2>1. Bad \in SUBSET Nat /\ Bad # {}
    BY <1>0, <1>2
  <2>2. PICK k \in Bad : \A m \in Bad : k <= m
    <3> HIDE DEF Bad
    <3> QED
      BY <2>1, LeastNatural
  <2>3. k # 0
    BY <2>2, OffsetZero
  <2>4. k \in Nat \ {0} /\ k - 1 \in Nat /\ k <= n /\ k - 1 \notin Bad
    BY <1>0, <2>2, <2>3
  <2>5. ByteOffset(u, k - 1) = ByteOffset(s, k - 1)
    BY <1>0, <2>4
  <2>6. u[k] = s[k]
    BY <1>0, <1>1, <2>4
  <2>7. ByteOffset(u, k) = ByteOffset(s, k)
    BY <2>4, <2>5, <2>6, OffsetStep
  <2> QED
    BY <2>7
<1>3. ASSUME NEW i \in 0..Len(t),
             ByteOffset(u, n + i) # ByteOffset(s, n) + ByteOffset(t, i)
      PROVE  FALSE
  <2> DEFINE Bad == {k \in Nat : k <= Len(t) /\ ByteOffset(u, n + k)
                                                  # ByteOffset(s, n) + ByteOffset(t, k)}
  <2>1. Bad \in SUBSET Nat /\ Bad # {}
    BY <1>0, <1>3
  <2>2. PICK k \in Bad : \A m \in Bad : k <= m
    <3> HIDE DEF Bad
    <3> QED
      BY <2>1, LeastNatural
  <2>3. k # 0
    <3>1. n + 0 = n /\ n \in 0..n /\ ByteOffset(s, n) \in Nat
      BY <1>0, OffsetType
    <3>2. ByteOffset(u, n + 0) = ByteOffset(s, n) + ByteOffset(t, 0)
      BY <1>2, <3>1, OffsetZero
    <3> QED
      BY <2>2, <3>2
  <2>4. k \in Nat \ {0} /\ k - 1 \in Nat /\ k <= Len(t) /\ k - 1 \notin Bad
    BY <1>0, <2>2, <2>3
  <2>5. ByteOffset(u, n + (k - 1)) = ByteOffset(s, n) + ByteOffset(t, k - 1)
    BY <1>0, <2>4
  <2>6. u[n + k] = t[k]
    <3>1. n + k \in 1..(n + Len(t)) /\ ~(n + k <= n) /\ (n + k) - n = k
      BY <1>0, <2>4
    <3> QED
      BY <1>1, <3>1
  <2>7. n + k \in Nat \ {0} /\ (n + k) - 1 = n + (k - 1)
    BY <1>0, <2>4
  <2>8. /\ ByteOffset(u, n + k) = ByteOffset(u, n + (k - 1)) + ByteLen(u[n + k])
        /\ ByteOffset(t, k) = ByteOffset(t, k - 1) + ByteLen(t[k])
    BY <2>4, <2>7, OffsetStep
  <2>9. ByteOffset(s, n) \in Nat /\ ByteOffset(t, k - 1) \in Nat /\ ByteLen(t[k]) \in Nat
    <3>1. ByteOffset(s, n) \in Nat
      BY <1>0, OffsetType
    <3>2. ByteOffset(t, k - 1) \in Nat
      BY <2>4, OffsetType
    <3>3. ByteLen(t[k]) \in Nat
      BY ByteLenType
    <3> QED
      BY <3>1, <3>2, <3>3
  <2>10. ByteOffset(u, n + k) = ByteOffset(s, n) + ByteOffset(t, k)
    BY <2>5, <2>6, <2>8, <2>9
  <2> QED
    BY <2>2, <2>10
<1> QED
  BY <1>2, <1>3 DEF u, n

\* Bounds of an offset within the second text of a concatenation.
LEMMA ShiftArithmetic ==
    ASSUME NEW o \in Nat, NEW w \in Nat, NEW p \in Nat, NEW q \in Nat, w + p < o, o <= w + q
    PROVE  o - w \in Nat /\ ~(o <= w) /\ p < o - w /\ o - w <= q /\ (o - w) - p = o - (w + p)
  OBVIOUS

\* The encoding of a concatenation is the concatenation of the encodings.
LEMMA EncodeConcat ==
    ASSUME NEW s \in Seq(Chars), NEW t \in Seq(Chars)
    PROVE  Encode(s \o t) = Encode(s) \o Encode(t)
<1> DEFINE u == s \o t
           x == Encode(u)
           y == Encode(s) \o Encode(t)
           n == Len(s)
           w == ByteOffset(s, n)
<1>0. n \in Nat /\ Len(t) \in Nat /\ w \in Nat /\ ByteOffset(t, Len(t)) \in Nat
  BY LenProperties, OffsetType
<1>1. /\ u \in Seq(Chars) /\ Len(u) = n + Len(t)
      /\ \A i \in 1..(n + Len(t)) : u[i] = IF i <= n THEN s[i] ELSE t[i - n]
  BY ConcatProperties
<1>2. x \in Seq(Byte) /\ Len(x) = w + ByteOffset(t, Len(t))
  <2>1. ByteOffset(u, n + Len(t)) = w + ByteOffset(t, Len(t))
    BY <1>0, OffsetConcat
  <2> QED
    BY <1>1, <2>1, EncodeProperties
<1>3. /\ Encode(s) \in Seq(Byte) /\ Len(Encode(s)) = w
      /\ Encode(t) \in Seq(Byte) /\ Len(Encode(t)) = ByteOffset(t, Len(t))
  BY EncodeProperties
<1>4. /\ y \in Seq(Byte) /\ Len(y) = w + ByteOffset(t, Len(t))
      /\ \A o \in 1..(w + ByteOffset(t, Len(t))) :
            y[o] = IF o <= w THEN Encode(s)[o] ELSE Encode(t)[o - w]
  <2> DEFINE p == Encode(s)
             q == Encode(t)
  <2>1. p \in Seq(Byte) /\ q \in Seq(Byte) /\ Len(p) = w /\ Len(q) = ByteOffset(t, Len(t))
    BY <1>3
  <2>2. /\ p \o q \in Seq(Byte) /\ Len(p \o q) = Len(p) + Len(q)
        /\ \A o \in 1..(Len(p) + Len(q)) :
              (p \o q)[o] = IF o <= Len(p) THEN p[o] ELSE q[o - Len(p)]
    <3> HIDE DEF p, q
    <3> QED
      BY <2>1, ConcatProperties
  <2> QED
    BY <2>1, <2>2
<1>5. ASSUME NEW o \in 1..Len(x) PROVE x[o] = y[o]
  <2>1. PICK i \in 1..Len(u) : ByteOffset(u, i - 1) < o /\ o <= ByteOffset(u, i)
    BY <1>1, <1>2, CharExists, EncodeProperties
  <2>2. o \in Nat /\ o \in 1..(w + ByteOffset(t, Len(t)))
    BY <1>0, <1>2
  <2>3. x[o] = <<u[i], o - ByteOffset(u, i - 1)>>
    BY <1>1, <2>1, <2>2, EncodeProperties
  <2>4. CASE i <= n
    <3>1. i \in 1..n /\ i \in 0..n /\ i - 1 \in 0..n /\ u[i] = s[i]
      BY <1>0, <1>1, <2>4
    <3>2. ByteOffset(u, i) = ByteOffset(s, i) /\ ByteOffset(u, i - 1) = ByteOffset(s, i - 1)
      BY <3>1, OffsetConcat
    <3>3. Encode(s)[o] = <<s[i], o - ByteOffset(s, i - 1)>>
      BY <2>1, <2>2, <3>1, <3>2, EncodeProperties
    <3>4. ByteOffset(s, i) <= w /\ ByteOffset(s, i) \in Nat
      BY <1>0, <2>4, <3>1, OffsetMonotone, OffsetType
    <3>5. o <= w
      BY <1>0, <2>1, <2>2, <3>2, <3>4
    <3> QED
      BY <1>4, <2>2, <2>3, <3>1, <3>2, <3>3, <3>5
  <2>5. CASE i > n
    <3> DEFINE k == i - n
    <3>0. i \in 1..(n + Len(t)) /\ ~(i <= n)
      BY <1>0, <1>1, <2>5
    <3>1. k \in 1..Len(t) /\ k - 1 \in 0..Len(t) /\ k \in 0..Len(t) /\ u[i] = t[k]
      <4> HIDE DEF u, n, w
      <4> QED
        BY <1>0, <1>1, <3>0
    <3>2. i = n + k /\ i - 1 = n + (k - 1)
      BY <1>0, <2>5
    <3> HIDE DEF k
    <3>3. ByteOffset(u, i) = w + ByteOffset(t, k) /\ ByteOffset(u, i - 1) = w + ByteOffset(t, k - 1)
      BY <3>1, <3>2, OffsetConcat
    <3>4. k - 1 \in Nat /\ k \in Nat /\ ByteOffset(t, k - 1) \in Nat /\ ByteOffset(t, k) \in Nat
      BY <1>0, <3>1, OffsetType
    <3>5. /\ o - w \in Nat /\ ~(o <= w)
          /\ ByteOffset(t, k - 1) < o - w /\ o - w <= ByteOffset(t, k)
          /\ (o - w) - ByteOffset(t, k - 1) = o - ByteOffset(u, i - 1)
      <4> HIDE DEF u, n, w, x, y
      <4>1. PICK p \in Nat, q \in Nat : p = ByteOffset(t, k - 1) /\ q = ByteOffset(t, k)
        BY <3>4
      <4>2. w + p < o /\ o <= w + q
        BY <2>1, <3>3, <4>1
      <4>3. /\ o - w \in Nat /\ ~(o <= w) /\ p < o - w /\ o - w <= q
            /\ (o - w) - p = o - (w + p)
        BY <1>0, <2>2, <4>2, ShiftArithmetic
      <4> QED
        BY <3>3, <4>1, <4>3
    <3>6. Encode(t)[o - w] = <<t[k], (o - w) - ByteOffset(t, k - 1)>>
      BY <3>1, <3>5, EncodeProperties
    <3> QED
      BY <1>4, <2>2, <2>3, <3>1, <3>5, <3>6
  <2>6. i <= n \/ i > n
    BY <1>0, <1>1
  <2> QED
    BY <2>4, <2>5, <2>6
<1> HIDE DEF x, y
<1>6. x = y
  BY <1>2, <1>4, <1>5, SeqEqual
<1> QED
  BY <1>6 DEF x, y

\* A text split after i characters is, in bytes, split after their bytes.
LEMMA SplitText ==
    ASSUME NEW t \in Seq(Chars), NEW i \in 0..Len(t)
    PROVE  \E u, v \in Seq(Chars) :
              /\ u = SubSeq(t, 1, i) /\ v = SubSeq(t, i + 1, Len(t))
              /\ t = u \o v /\ Len(u) = i
              /\ Encode(u) = SubSeq(Encode(t), 1, ByteOffset(t, i))
              /\ Encode(v) = SubSeq(Encode(t), ByteOffset(t, i) + 1, Len(Encode(t)))
              /\ Len(Encode(u)) = ByteOffset(t, i)
<1> DEFINE u == SubSeq(t, 1, i)
           v == SubSeq(t, i + 1, Len(t))
<1>0. Len(t) \in Nat /\ i \in Nat /\ \A j \in 1..Len(t) : t[j] \in Chars
  BY LenProperties, ElementOfSeq
<1>1. u \in Seq(Chars) /\ Len(u) = i
  <2>1. \A j \in 1..i : t[j] \in Chars
    BY <1>0
  <2>2. u \in Seq(Chars) /\ Len(u) = IF 1 <= i THEN i - 1 + 1 ELSE 0
    BY <1>0, <2>1, SubSeqProperties
  <2> QED
    BY <1>0, <2>2
<1>2. v \in Seq(Chars)
  <2>1. \A j \in (i + 1)..Len(t) : t[j] \in Chars
    BY <1>0
  <2>2. i + 1 \in Int /\ Len(t) \in Int
    BY <1>0
  <2> QED
    BY <2>1, <2>2, SubSeqProperties
<1>3. t = u \o v
  <2>1. 1 \in 1..(Len(t) + 1) /\ i \in (1 - 1)..Len(t) /\ Len(t) \in i..Len(t)
    BY <1>0
  <2>2. SubSeq(t, 1, i) \o SubSeq(t, i + 1, Len(t)) = SubSeq(t, 1, Len(t))
    BY <2>1, ConcatAdjacentSubSeq
  <2> QED
    BY <2>2, SubSeqFull
<1> HIDE DEF u, v
<1>4. Encode(t) = Encode(u) \o Encode(v)
  BY <1>1, <1>2, <1>3, EncodeConcat
<1>5. Encode(u) \in Seq(Byte) /\ Encode(v) \in Seq(Byte) /\ Len(Encode(u)) = ByteOffset(u, i)
  BY <1>1, <1>2, EncodeProperties
<1>6. ByteOffset(u, i) = ByteOffset(t, i)
  BY <1>0, <1>1, <1>2, <1>3, OffsetConcat
<1>7. /\ SubSeq(Encode(t), 1, ByteOffset(t, i)) = Encode(u)
      /\ SubSeq(Encode(t), ByteOffset(t, i) + 1, Len(Encode(t))) = Encode(v)
  BY <1>4, <1>5, <1>6, ConcatHalves
<1> QED
  BY <1>1, <1>2, <1>3, <1>5, <1>6, <1>7 DEF u, v

\* A splice has the type of what it is made from, and holds the new part in its place.
LEMMA SpliceType ==
    ASSUME NEW S, NEW s \in Seq(S), NEW new \in Seq(S), NEW from \in 0..Len(s), NEW to \in 0..Len(s)
    PROVE  /\ Splice(s, from, to, new) \in Seq(S)
           /\ Len(Splice(s, from, to, new)) = from + Len(new) + (Len(s) - to)
           /\ SubSeq(Splice(s, from, to, new), from + 1, from + Len(new)) = new
<1> DEFINE u == SubSeq(s, 1, from)
           v == SubSeq(s, to + 1, Len(s))
           r == Splice(s, from, to, new)
<1>0. /\ Len(s) \in Nat /\ from \in Nat /\ to \in Nat /\ Len(new) \in Nat
      /\ \A j \in 1..Len(s) : s[j] \in S
  BY LenProperties, ElementOfSeq
<1>1. u \in Seq(S) /\ Len(u) = from
  <2>1. \A j \in 1..from : s[j] \in S
    BY <1>0
  <2>2. u \in Seq(S) /\ Len(u) = IF 1 <= from THEN from - 1 + 1 ELSE 0
    BY <1>0, <2>1, SubSeqProperties
  <2> QED
    BY <1>0, <2>2
<1>2. v \in Seq(S) /\ Len(v) = Len(s) - to
  <2>1. \A j \in (to + 1)..Len(s) : s[j] \in S
    BY <1>0
  <2>2. to + 1 \in Int /\ Len(s) \in Int
    BY <1>0
  <2>3. v \in Seq(S) /\ Len(v) = IF to + 1 <= Len(s) THEN Len(s) - (to + 1) + 1 ELSE 0
    BY <2>1, <2>2, SubSeqProperties
  <2> QED
    BY <1>0, <2>3
<1>3. r = (u \o new) \o v
  BY DEF Splice
<1> HIDE DEF u, v, r
<1>4. u \o new \in Seq(S) /\ Len(u \o new) = from + Len(new)
  BY <1>1, ConcatProperties
<1>5. r \in Seq(S) /\ Len(r) = (from + Len(new)) + (Len(s) - to)
  <2>1. r \in Seq(S) /\ Len(r) = Len(u \o new) + Len(v)
    BY <1>2, <1>3, <1>4, ConcatProperties
  <2> QED
    BY <1>2, <1>4, <2>1
<1>6. SubSeq(r, from + 1, from + Len(new)) = new
  <2> DEFINE a == from + 1
             e == from + Len(new)
             x == SubSeq(r, a, e)
  <2>1. \A j \in a..e : r[j] \in S
    BY <1>0, <1>5, ElementOfSeq
  <2>2. a \in Int /\ e \in Int
    BY <1>0
  <2>3. /\ x \in Seq(S) /\ Len(x) = IF a <= e THEN e - a + 1 ELSE 0
        /\ \A j \in 1..(e - a + 1) : x[j] = r[a + j - 1]
    <3> HIDE DEF a, e
    <3> QED
      BY <2>1, <2>2, SubSeqProperties
  <2>4. e - a + 1 = Len(new) /\ (a <= e <=> Len(new) # 0)
    BY <1>0
  <2>5. Len(x) = Len(new)
    BY <1>0, <2>3, <2>4
  <2>6. ASSUME NEW j \in 1..Len(new) PROVE x[j] = new[j]
    <3>1. a + j - 1 = from + j /\ from + j \in 1..(from + Len(new))
      BY <1>0
    <3>2. (u \o new)[from + j] = new[j]
      <4>1. /\ ~(from + j <= from) /\ (from + j) - from = j
            /\ from + j \in 1..(Len(u) + Len(new))
        BY <1>0, <1>1
      <4> QED
        BY <1>1, <4>1, ConcatProperties
    <3>3. r[from + j] = (u \o new)[from + j]
      <4>1. /\ from + j <= Len(u \o new)
            /\ from + j \in 1..(Len(u \o new) + Len(v))
        BY <1>0, <1>2, <1>4, <3>1
      <4> QED
        BY <1>2, <1>3, <1>4, <4>1, ConcatProperties
    <3> QED
      BY <2>3, <2>4, <3>1, <3>2, <3>3
  <2> HIDE DEF x
  <2>7. x = new
    BY <2>3, <2>5, <2>6, SeqEqual
  <2> QED
    BY <2>7 DEF x
<1> QED
  BY <1>0, <1>5, <1>6 DEF r

\* Replacing a range of bytes between characters is replacing the characters:
\* String::replace_range on the server does what the client did.
LEMMA SpliceEncoded ==
    ASSUME NEW t \in Seq(Chars), NEW new \in Seq(Chars), NEW from \in 0..Len(t), NEW to \in 0..Len(t)
    PROVE  Splice(Encode(t), ByteOffset(t, from), ByteOffset(t, to), Encode(new))
             = Encode(Splice(t, from, to, new))
<1>1. PICK u \in Seq(Chars) :
         u = SubSeq(t, 1, from) /\ Encode(u) = SubSeq(Encode(t), 1, ByteOffset(t, from))
  BY SplitText
<1>2. PICK v \in Seq(Chars) :
         /\ v = SubSeq(t, to + 1, Len(t))
         /\ Encode(v) = SubSeq(Encode(t), ByteOffset(t, to) + 1, Len(Encode(t)))
  BY SplitText
<1>3. u \o new \in Seq(Chars)
  BY ConcatProperties
<1>4. Encode((u \o new) \o v) = (Encode(u) \o Encode(new)) \o Encode(v)
  BY <1>3, EncodeConcat
<1> QED
  BY <1>1, <1>2, <1>4 DEF Splice

\* The byte offset of a character is a character boundary, where replace_range
\* does not panic.
LEMMA BoundaryOfOffset ==
    ASSUME NEW t \in Seq(Chars), NEW i \in 0..Len(t)
    PROVE  Boundary(Encode(t), ByteOffset(t, i)) /\ ByteOffset(t, i) \in 0..Len(Encode(t))
<1>0. Len(t) \in Nat /\ i \in Nat /\ i <= Len(t)
  BY LenProperties
<1>1. Len(Encode(t)) = ByteOffset(t, Len(t)) /\ ByteOffset(t, Len(t)) \in Nat
  BY <1>0, EncodeProperties, OffsetType
<1>2. ByteOffset(t, i) \in Nat /\ ByteOffset(t, i) <= ByteOffset(t, Len(t))
  BY <1>0, OffsetType, OffsetMonotone
<1>3. CASE i = Len(t)
  BY <1>1, <1>2, <1>3 DEF Boundary
<1>4. CASE i # Len(t)
  <2>1. i + 1 \in 1..Len(t) /\ (i + 1) - 1 = i
    BY <1>0, <1>4
  <2>2. /\ ByteOffset(t, i) + 1 \in 1..Len(Encode(t))
        /\ Encode(t)[ByteOffset(t, i) + 1] = <<t[i + 1], 1>>
    BY <2>1, FirstBytes
  <2>3. ByteOffset(t, i) < Len(Encode(t)) /\ Encode(t)[ByteOffset(t, i) + 1][2] = 1
    BY <1>1, <1>2, <2>2
  <2> QED
    BY <1>1, <1>2, <2>3 DEF Boundary
<1> QED
  BY <1>3, <1>4

\* A tree-sitter point leads back to the byte it was computed from.
LEMMA PointsLeadBack ==
    ASSUME NEW b \in Seq(Byte), NEW o \in Nat
    PROVE  ByteOfPoint(b, ByteToPoint(b, o)) = o
<1>1. Len(b) \in Nat
  BY LenProperties
<1>2. LineStarts(b) \subseteq Int
  BY <1>1 DEF LineStarts
<1>3. StartOffset(b, LineOf(b, o)) \in Int
  BY <1>2 DEF StartOffset
<1> QED
  BY <1>3 DEF ByteOfPoint, ByteToPoint

\* The edit told to tree-sitter names one place in bytes and in points, so that
\* the incremental parse yields the tree of the new text (apply_edit).
LEMMA ReparseFollows ==
    ASSUME NEW b \in Seq(Byte), NEW new \in Seq(Byte),
           NEW from \in 0..Len(b), NEW to \in 0..Len(b)
    PROVE  Reparse(b, Splice(b, from, to, new),
                   InputEdit(b, Splice(b, from, to, new), from, to, from + Len(new)))
             = Splice(b, from, to, new)
<1> DEFINE r == Splice(b, from, to, new)
<1>0. Len(b) \in Nat /\ Len(new) \in Nat /\ from \in Nat /\ to \in Nat /\ from + Len(new) \in Nat
  BY LenProperties
<1>1. r \in Seq(Byte) /\ SubSeq(r, from + 1, from + Len(new)) = new
  BY SpliceType
<1> HIDE DEF r
<1>2. /\ ByteOfPoint(b, ByteToPoint(b, from)) = from
      /\ ByteOfPoint(b, ByteToPoint(b, to)) = to
      /\ ByteOfPoint(r, ByteToPoint(r, from + Len(new))) = from + Len(new)
  BY <1>0, <1>1, PointsLeadBack
<1>3. Reparse(b, r, InputEdit(b, r, from, to, from + Len(new))) = Splice(b, from, to, new)
  BY <1>1, <1>2 DEF Reparse, InputEdit
<1> QED
  BY <1>3 DEF r

-----------------------------------------------------------------------------
(* The inductive invariant.                                                *)

\* A position, as the client may write it.
Place == [line : Int, character : Int]

\* A content change of didChange.
Change == [all : Seq(Byte)] \union [start : Place, end : Place, new : Seq(Byte)]

\* The types of the variables.
TypeOK ==
    /\ text \in Seq(Chars)
    /\ pending \in Seq(Change)
    /\ bytes \in Seq(Byte)
    /\ index \in Seq(Byte)
    /\ tree \in Seq(Byte)
    /\ isAscii \in BOOLEAN
    /\ panicked \in BOOLEAN

\* The change gives the client's new text as a whole.
Replaces(change, new) == change = [all |-> Encode(new)]

\* The change describes, in the client's positions, how the new text came from the old.
Edits(change, old, new) ==
    \E from, to \in 0..Len(old), typed \in Seq(Chars) : \E end \in Positions(old, to) :
        /\ from <= to
        /\ new = Splice(old, from, to, typed)
        /\ change = [start |-> ClientPosition(old, from), end |-> end, new |-> Encode(typed)]

\* The texts of the client, from the one that the server has to the present one: each
\* pending change is what the client sent when it went from one to the next.
History(texts) ==
    /\ Len(texts) = Len(pending) + 1
    /\ bytes = Encode(texts[1])
    /\ text = texts[Len(texts)]
    /\ \A k \in 1..Len(pending) : \/ Replaces(pending[k], texts[k + 1])
                                  \/ Edits(pending[k], texts[k], texts[k + 1])

\* The inductive invariant: index, tree and flag are those of the server's text, and the
\* pending changes lead from that text to the client's.
IInv ==
    /\ TypeOK
    /\ index = bytes
    /\ tree = bytes
    /\ isAscii = AllAscii(bytes)
    /\ ~panicked
    /\ \E texts \in Seq(Seq(Chars)) : History(texts)

-----------------------------------------------------------------------------
(* The client's steps.                                                     *)

\* A position of the client is a position.
LEMMA ClientPositionType ==
    ASSUME NEW t \in Seq(Chars), NEW i \in 0..Len(t)
    PROVE  ClientPosition(t, i) \in Place
<1>0. Len(t) \in Nat /\ i \in Nat
  BY LenProperties
<1>1. PICK a \in 0..i :
         ClientPosition(t, i) = [line |-> Occurrences(t, "n", 0, i),
                                 character |-> (i - a) + Occurrences(t, "g", a, i)]
  BY ClientLine
<1>2. Occurrences(t, "n", 0, i) \in Nat /\ Occurrences(t, "g", a, i) \in Nat
  BY <1>0, OccurrencesType
<1> QED
  BY <1>0, <1>1, <1>2 DEF Place

\* So is each way of writing it.
LEMMA PositionsType ==
    ASSUME NEW t \in Seq(Chars), NEW i \in 0..Len(t)
    PROVE  Positions(t, i) \subseteq Place
<1>1. ClientPosition(t, i) \in Place
  BY ClientPositionType
<1>2. ClientPosition(t, i).line \in Int
  BY <1>1 DEF Place
<1>3. [line |-> ClientPosition(t, i).line + 1, character |-> 0] \in Place
  BY <1>2 DEF Place
<1> QED
  BY <1>1, <1>3 DEF Positions

\* A document that has just been opened has a history of one text.
LEMMA InitIInv ==
    ASSUME Init
    PROVE  IInv
<1>1. text \in Seq(Chars) /\ bytes \in Seq(Byte)
  BY InsertsType, EncodeProperties DEF Init
<1>2. pending \in Seq(Change) /\ Len(pending) = 0
  BY EmptySeq DEF Init
<1>3. isAscii \in BOOLEAN
  BY DEF Init, AllAscii
<1>4. panicked \in BOOLEAN /\ ~panicked
  BY DEF Init
<1>5. <<text>> \in Seq(Seq(Chars)) /\ History(<<text>>)
  BY <1>1, <1>2 DEF Init, History
<1> QED
  BY <1>1, <1>2, <1>3, <1>4, <1>5 DEF Init, IInv, TypeOK

\* A change that the client appends continues the history.
LEMMA ClientStep ==
    ASSUME IInv, NEW change \in Change, text' \in Seq(Chars),
           pending' = Append(pending, change),
           Replaces(change, text') \/ Edits(change, text, text'),
           UNCHANGED <<bytes, index, tree, isAscii, panicked>>
    PROVE  IInv'
<1>0. PICK texts \in Seq(Seq(Chars)) : History(texts)
  BY DEF IInv
<1>1. /\ pending \in Seq(Change) /\ Len(pending) \in Nat
      /\ pending' \in Seq(Change) /\ Len(pending') = Len(pending) + 1
      /\ \A k \in 1..Len(pending) : pending'[k] = pending[k]
      /\ pending'[Len(pending) + 1] = change
  BY AppendProperties, LenProperties DEF IInv, TypeOK
<1>2. PICK longer \in Seq(Seq(Chars)) :
         /\ Len(longer) = Len(texts) + 1
         /\ \A k \in 1..Len(texts) : longer[k] = texts[k]
         /\ longer[Len(texts) + 1] = text'
  <2>1. /\ Append(texts, text') \in Seq(Seq(Chars))
        /\ Len(Append(texts, text')) = Len(texts) + 1
        /\ \A k \in 1..Len(texts) : Append(texts, text')[k] = texts[k]
        /\ Append(texts, text')[Len(texts) + 1] = text'
    BY AppendProperties
  <2> QED
    BY <2>1
<1>3. Len(longer) = Len(pending') + 1 /\ text' = longer[Len(longer)]
  BY <1>0, <1>1, <1>2 DEF History
<1>4. bytes' = Encode(longer[1])
  <2>1. 1 \in 1..Len(texts)
    BY <1>0, <1>1 DEF History
  <2> QED
    BY <1>0, <1>2, <2>1 DEF History
<1>5. ASSUME NEW k \in 1..Len(pending')
      PROVE  Replaces(pending'[k], longer[k + 1]) \/ Edits(pending'[k], longer[k], longer[k + 1])
  <2>1. CASE k \in 1..Len(pending)
    <3>1. k \in 1..Len(texts) /\ k + 1 \in 1..Len(texts)
      BY <1>0, <1>1, <2>1 DEF History
    <3>2. pending'[k] = pending[k] /\ longer[k] = texts[k] /\ longer[k + 1] = texts[k + 1]
      BY <1>1, <1>2, <2>1, <3>1
    <3>3. Replaces(pending[k], texts[k + 1]) \/ Edits(pending[k], texts[k], texts[k + 1])
      BY <1>0, <2>1 DEF History
    <3> QED
      BY <3>2, <3>3
  <2>2. CASE k = Len(pending) + 1
    <3>1. k = Len(texts) /\ k \in 1..Len(texts) /\ texts[k] = text
      BY <1>0, <1>1, <2>2 DEF History
    <3>2. pending'[k] = change /\ longer[k] = text /\ longer[k + 1] = text'
      BY <1>1, <1>2, <2>2, <3>1
    <3> QED
      BY <3>2
  <2> QED
    BY <1>1, <2>1, <2>2
<1>6. History(longer)'
  BY <1>3, <1>4, <1>5 DEF History
<1>7. TypeOK'
  BY <1>1 DEF IInv, TypeOK
<1>8. index' = bytes' /\ tree' = bytes' /\ (isAscii = AllAscii(bytes))' /\ ~panicked'
  BY DEF IInv, AllAscii
<1> QED
  BY <1>2, <1>6, <1>7, <1>8 DEF IInv

\* An edit of the client keeps the invariant.
LEMMA TypeIInv ==
    ASSUME IInv, NEW from \in 0..Len(text), NEW to \in 0..Len(text), NEW new \in Inserts,
           from <= to, Type(from, to, new)
    PROVE  IInv'
<1>1. text \in Seq(Chars) /\ new \in Seq(Chars)
  BY InsertsType DEF IInv, TypeOK
<1>2. text' = Splice(text, from, to, new) /\ text' \in Seq(Chars)
  BY <1>1, SpliceType DEF Type
<1>3. PICK end \in Positions(text, to) :
         pending' = Append(pending, [start |-> ClientPosition(text, from), end |-> end,
                                     new |-> Encode(new)])
  BY DEF Type
<1> DEFINE change == [start |-> ClientPosition(text, from), end |-> end, new |-> Encode(new)]
<1>4. change \in Change
  <2>1. ClientPosition(text, from) \in Place /\ end \in Place /\ Encode(new) \in Seq(Byte)
    BY <1>1, ClientPositionType, PositionsType, EncodeProperties
  <2> QED
    BY <2>1 DEF Change
<1>5. Edits(change, text, text')
  BY <1>1, <1>2 DEF Edits
<1>6. UNCHANGED <<bytes, index, tree, isAscii, panicked>>
  BY DEF Type
<1> HIDE DEF change
<1>7. pending' = Append(pending, change)
  BY <1>3 DEF change
<1> QED
  BY <1>2, <1>4, <1>5, <1>6, <1>7, ClientStep

\* So does a change without a range.
LEMMA ReplaceIInv ==
    ASSUME IInv, NEW new \in Inserts, Replace(new)
    PROVE  IInv'
<1> DEFINE change == [all |-> Encode(new)]
<1>1. new \in Seq(Chars) /\ Encode(new) \in Seq(Byte)
  BY InsertsType, EncodeProperties
<1>2. change \in Change
  BY <1>1 DEF Change
<1>3. text' = new /\ pending' = Append(pending, change)
  BY DEF Replace
<1>4. Replaces(change, text')
  BY <1>3 DEF Replaces
<1>5. UNCHANGED <<bytes, index, tree, isAscii, panicked>>
  BY DEF Replace
<1> HIDE DEF change
<1> QED
  BY <1>1, <1>2, <1>3, <1>4, <1>5, ClientStep

\* Applying the first change takes the history on by one text.
LEMMA ServerStep ==
    ASSUME IInv, NEW texts \in Seq(Seq(Chars)), History(texts), pending # <<>>,
           pending' = Tail(pending), text' = text, panicked' = panicked,
           bytes' = Encode(texts[2]), index' = bytes', tree' = bytes',
           isAscii' = AllAscii(bytes')
    PROVE  IInv'
<1>1. /\ pending \in Seq(Change) /\ Len(pending) \in Nat /\ Len(pending) # 0
      /\ pending' \in Seq(Change) /\ Len(pending') = Len(pending) - 1
      /\ \A k \in 1..Len(pending') : pending'[k] = pending[k + 1]
  BY HeadTailProperties, EmptySeq, LenProperties DEF IInv, TypeOK
<1>2. texts # <<>> /\ Len(texts) = Len(pending) + 1
  BY <1>1, EmptySeq DEF History
<1>3. PICK later \in Seq(Seq(Chars)) :
         /\ Len(later) = Len(texts) - 1
         /\ \A k \in 1..Len(later) : later[k] = texts[k + 1]
  <2>1. /\ Tail(texts) \in Seq(Seq(Chars)) /\ Len(Tail(texts)) = Len(texts) - 1
        /\ \A k \in 1..Len(Tail(texts)) : Tail(texts)[k] = texts[k + 1]
    BY <1>2, HeadTailProperties
  <2> QED
    BY <2>1
<1>4. texts[2] \in Seq(Chars) /\ bytes' \in Seq(Byte)
  <2>1. 2 \in 1..Len(texts)
    BY <1>1, <1>2
  <2>2. texts[2] \in Seq(Chars)
    BY <2>1, ElementOfSeq
  <2> QED
    BY <2>2, EncodeProperties
<1>5. Len(later) = Len(pending') + 1
  BY <1>1, <1>2, <1>3
<1>6. bytes' = Encode(later[1])
  <2>1. 1 \in 1..Len(later) /\ 1 + 1 = 2
    BY <1>1, <1>2, <1>3
  <2>2. later[1] = texts[2]
    BY <1>3, <2>1
  <2> QED
    BY <2>2
<1>7. text' = later[Len(later)]
  <2>1. Len(later) \in 1..Len(later) /\ Len(later) + 1 = Len(texts)
    BY <1>1, <1>2, <1>3
  <2> QED
    BY <1>3, <2>1 DEF History
<1>8. ASSUME NEW k \in 1..Len(pending')
      PROVE  Replaces(pending'[k], later[k + 1]) \/ Edits(pending'[k], later[k], later[k + 1])
  <2>1. k \in 1..Len(later) /\ k + 1 \in 1..Len(later) /\ k + 1 \in 1..Len(pending)
    BY <1>1, <1>5
  <2>2. later[k] = texts[k + 1] /\ later[k + 1] = texts[(k + 1) + 1] /\ pending'[k] = pending[k + 1]
    BY <1>1, <1>3, <2>1
  <2>3. \/ Replaces(pending[k + 1], texts[(k + 1) + 1])
        \/ Edits(pending[k + 1], texts[k + 1], texts[(k + 1) + 1])
    BY <2>1 DEF History
  <2> QED
    BY <2>2, <2>3
<1>9. History(later)'
  BY <1>5, <1>6, <1>7, <1>8 DEF History
<1>10. isAscii' \in BOOLEAN
  BY DEF AllAscii
<1>11. TypeOK'
  BY <1>1, <1>4, <1>10 DEF IInv, TypeOK
<1>12. (isAscii = AllAscii(bytes))' /\ ~panicked'
  BY DEF IInv, AllAscii
<1> QED
  BY <1>9, <1>11, <1>12 DEF IInv

-----------------------------------------------------------------------------
(* The server's steps.                                                     *)

\* The first pending change applies to the very text that the server has.
LEMMA FirstChange ==
    ASSUME IInv, NEW texts \in Seq(Seq(Chars)), History(texts), pending # <<>>
    PROVE  /\ texts[1] \in Seq(Chars) /\ texts[2] \in Seq(Chars)
           /\ bytes = Encode(texts[1])
           /\ Replaces(Head(pending), texts[2]) \/ Edits(Head(pending), texts[1], texts[2])
<1>1. pending \in Seq(Change) /\ Len(pending) \in Nat /\ Len(pending) # 0
  BY EmptySeq, LenProperties DEF IInv, TypeOK
<1>2. 1 \in 1..Len(pending) /\ 1 \in 1..Len(texts) /\ 2 \in 1..Len(texts) /\ 1 + 1 = 2
  BY <1>1 DEF History
<1>3. Head(pending) = pending[1]
  BY <1>1
<1> QED
  BY <1>2, <1>3, ElementOfSeq DEF History

\* Taking over a whole text keeps the invariant.
LEMMA ReplaceFullIInv ==
    ASSUME IInv, ReplaceFull
    PROVE  IInv'
<1>1. PICK texts \in Seq(Seq(Chars)) : History(texts)
  BY DEF IInv
<1>2. pending # <<>> /\ "all" \in DOMAIN Head(pending)
  BY DEF ReplaceFull
<1>3. Replaces(Head(pending), texts[2]) \/ Edits(Head(pending), texts[1], texts[2])
  BY <1>1, <1>2, FirstChange
<1>4. ~Edits(Head(pending), texts[1], texts[2])
  <2> SUFFICES ASSUME Edits(Head(pending), texts[1], texts[2]) PROVE FALSE
    OBVIOUS
  <2>1. \E p, q, r : Head(pending) = [start |-> p, end |-> q, new |-> r]
    BY Zenon DEF Edits
  <2>2. DOMAIN Head(pending) = {"start", "end", "new"}
    BY <2>1
  <2> QED
    BY <1>2, <2>2
<1>5. Head(pending).all = Encode(texts[2])
  BY <1>3, <1>4 DEF Replaces
<1>6. /\ pending' = Tail(pending) /\ text' = text /\ panicked' = panicked
      /\ bytes' = Encode(texts[2]) /\ index' = bytes' /\ tree' = bytes'
      /\ isAscii' = AllAscii(bytes')
  BY <1>5 DEF ReplaceFull
<1> QED
  BY <1>1, <1>2, <1>6, ServerStep

\* Applying an edit keeps the invariant: the positions were those of the text that the
\* server has by now, so the offsets are the client's, the splice is the client's, and
\* the tree follows.
LEMMA ApplyEditIInv ==
    ASSUME IInv, ApplyEdit
    PROVE  IInv'
<1> DEFINE change == Head(pending)
           from   == OffsetOf(index, change.start)
           to     == OffsetOf(index, change.end)
<1>1. PICK texts \in Seq(Seq(Chars)) : History(texts)
  BY DEF IInv
<1>2. pending # <<>> /\ "all" \notin DOMAIN change
  BY DEF ApplyEdit
<1>3. /\ texts[1] \in Seq(Chars) /\ texts[2] \in Seq(Chars) /\ bytes = Encode(texts[1])
      /\ Replaces(change, texts[2]) \/ Edits(change, texts[1], texts[2])
  BY <1>1, <1>2, FirstChange
<1>4. ~Replaces(change, texts[2])
  BY <1>2 DEF Replaces
<1>5. PICK i \in 0..Len(texts[1]), j \in 0..Len(texts[1]), typed \in Seq(Chars) :
         \E end \in Positions(texts[1], j) :
            /\ i <= j
            /\ texts[2] = Splice(texts[1], i, j, typed)
            /\ change = [start |-> ClientPosition(texts[1], i), end |-> end,
                         new |-> Encode(typed)]
  BY <1>3, <1>4 DEF Edits
<1>6. PICK end \in Positions(texts[1], j) :
         /\ change.start = ClientPosition(texts[1], i)
         /\ change.end = end
         /\ change.new = Encode(typed)
  BY <1>5
<1>7. from = ByteOffset(texts[1], i) /\ to = ByteOffset(texts[1], j)
  BY <1>3, <1>6, OffsetOfClientPosition, OffsetOfPositions DEF IInv
<1> HIDE DEF from, to
<1>8. /\ Boundary(bytes, from) /\ Boundary(bytes, to)
      /\ from \in 0..Len(bytes) /\ to \in 0..Len(bytes)
  BY <1>3, <1>7, BoundaryOfOffset
<1>9. from <= to
  <2>1. i \in Nat /\ j \in Nat
    BY <1>3, LenProperties
  <2> QED
    BY <1>5, <1>7, <2>1, OffsetMonotone
<1>10. Splice(bytes, from, to, change.new) = Encode(texts[2])
  BY <1>3, <1>5, <1>6, <1>7, SpliceEncoded
<1>11. /\ bytes' = Splice(bytes, from, to, change.new)
       /\ index' = bytes'
       /\ tree' = Reparse(tree, bytes', InputEdit(index, bytes', from, to,
                                                  from + Len(change.new)))
       /\ isAscii' = AllAscii(bytes')
       /\ panicked' = panicked
       /\ pending' = Tail(pending) /\ text' = text
  BY <1>8, <1>9 DEF ApplyEdit, from, to
<1>12. tree' = bytes'
  <2>1. bytes \in Seq(Byte) /\ change.new \in Seq(Byte)
    BY <1>3, <1>6, EncodeProperties
  <2>2. Reparse(bytes, Splice(bytes, from, to, change.new),
                InputEdit(bytes, Splice(bytes, from, to, change.new), from, to,
                          from + Len(change.new)))
          = Splice(bytes, from, to, change.new)
    BY <1>8, <2>1, ReparseFollows
  <2>3. tree = bytes /\ index = bytes
    BY DEF IInv
  <2> QED
    BY <1>11, <2>2, <2>3
<1> QED
  BY <1>1, <1>2, <1>10, <1>11, <1>12, ServerStep

\* A step of others changes nothing.
LEMMA StutterIInv ==
    ASSUME IInv, UNCHANGED vars
    PROVE  IInv'
<1>1. TypeOK'
  BY DEF IInv, TypeOK, vars
<1>2. PICK texts \in Seq(Seq(Chars)) : History(texts)
  BY DEF IInv
<1>3. History(texts)'
  BY <1>2 DEF History, vars
<1> QED
  BY <1>1, <1>3 DEF IInv, vars, AllAscii

-----------------------------------------------------------------------------
(* The theorems.                                                           *)

\* Whatever texts are typed and however many changes are on their way, the pending
\* changes lead from the server's text to the client's (on_did_change, apply_edit).
THEOREM Inductive == Spec => []IInv
<1>1. Init => IInv
  BY InitIInv
<1>2. IInv /\ [Next]_vars => IInv'
  <2> SUFFICES ASSUME IInv, [Next]_vars PROVE IInv'
    OBVIOUS
  <2>1. ASSUME NEW from \in 0..Len(text), NEW to \in 0..Len(text), NEW new \in Inserts,
               from <= to, Type(from, to, new)
        PROVE  IInv'
    BY <2>1, TypeIInv
  <2>2. ASSUME NEW new \in Inserts, Replace(new) PROVE IInv'
    BY <2>2, ReplaceIInv
  <2>3. CASE ApplyEdit
    BY <2>3, ApplyEditIInv
  <2>4. CASE ReplaceFull
    BY <2>4, ReplaceFullIInv
  <2>5. CASE UNCHANGED vars
    BY <2>5, StutterIInv
  <2> QED
    BY <2>1, <2>2, <2>3, <2>4, <2>5 DEF Next
<1> QED
  BY <1>1, <1>2, PTL DEF Spec

\* A server that has applied every change has the client's text, with the tree and the
\* line index of that text: for texts of any length and changes in any number.
THEOREM StaysInSync == Spec => []InSync
<1>1. IInv => InSync
  <2> SUFFICES ASSUME IInv, pending = <<>>
               PROVE  bytes = Encode(text) /\ tree = bytes /\ index = bytes
    BY DEF InSync
  <2>1. PICK texts \in Seq(Seq(Chars)) : History(texts)
    BY DEF IInv
  <2>2. Len(texts) = 1
    BY <2>1, EmptySeq DEF History
  <2> QED
    BY <2>1, <2>2 DEF History, IInv
<1> QED
  BY <1>1, Inductive, PTL

\* Document::apply_edit never calls replace_range outside the text or within a
\* character, as long as the client sends positions of its own text.
THEOREM NeverPanics == Spec => []NoPanic
<1>1. IInv => NoPanic
  BY DEF IInv, NoPanic
<1> QED
  BY <1>1, Inductive, PTL

\* Every position of the text is shown to the client as the client has it, by
\* to_lsp_position and by point_to_position with its ASCII short cut, and leads back
\* to the same byte (from_lsp_position).
THEOREM PositionsAlwaysAgree == Spec => []PositionsAgree
<1>1. IInv /\ InSync => PositionsAgree
  <2> SUFFICES ASSUME IInv, InSync, pending = <<>>, NEW i \in 0..Len(text)
               PROVE  LET offset == Len(Encode(SubSeq(text, 1, i)))
                          p      == ClientPosition(text, i)
                      IN  /\ PositionOf(index, offset) = p
                          /\ PointToPosition(index, isAscii, ByteToPoint(bytes, offset)) = p
                          /\ OffsetOf(index, p) = offset
    BY DEF PositionsAgree
  <2>1. text \in Seq(Chars) /\ index = Encode(text) /\ bytes = Encode(text)
    BY DEF IInv, InSync, TypeOK
  <2>2. isAscii = AllAscii(Encode(text))
    BY <2>1 DEF IInv
  <2>3. Len(Encode(SubSeq(text, 1, i))) = ByteOffset(text, i)
    BY <2>1, SplitText
  <2>4. /\ PositionOf(Encode(text), ByteOffset(text, i)) = ClientPosition(text, i)
        /\ PointToPosition(Encode(text), AllAscii(Encode(text)),
                           ByteToPoint(Encode(text), ByteOffset(text, i)))
              = ClientPosition(text, i)
    BY <2>1, PositionOfOffset
  <2>5. OffsetOf(Encode(text), ClientPosition(text, i)) = ByteOffset(text, i)
    BY <2>1, OffsetOfClientPosition
  <2> QED
    BY <2>1, <2>2, <2>3, <2>4, <2>5
<1> QED
  BY <1>1, Inductive, StaysInSync, PTL
=============================================================================
