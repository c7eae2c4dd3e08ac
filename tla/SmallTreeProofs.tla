---------------------------- MODULE SmallTreeProofs ----------------------------
(***************************************************************************)
(* What the tree operations of SmallTree keep and compute, for every leaf  *)
(* capacity and every number of rows and children.  The proofs of AcidTx   *)
(* and Catalog rest on it.                                                 *)
(***************************************************************************)
EXTENDS SmallTree, FiniteSetTheorems, SequenceTheorems, TLAPS

LEMMA NatMinimum ==
    ASSUME NEW S, S \subseteq Nat, S # {}
    PROVE  \E i \in S : \A j \in S : i <= j
<1> DEFINE R == OpToRel(<, Nat)
<1>1. \E i \in S : \A j \in S : ~(<<j, i>> \in R)
  BY NatLessThanWellFounded, WFMin
<1>2. \A i, j \in Nat : i < j => <<i, j>> \in R
  BY DEF OpToRel
<1>3. PICK i \in S : \A j \in S : ~(<<j, i>> \in R)
  BY <1>1
<1> HIDE DEF R
<1>4. \A j \in S : ~(j < i)
  BY <1>2, <1>3
<1> QED BY <1>4

\* A nonempty set of row ids up to N has a greatest one.
LEMMA RowMaximum ==
    ASSUME NEW N \in Nat, NEW S, S \subseteq 1 .. N, S # {}
    PROVE  \E i \in S : \A j \in S : j <= i
<1> DEFINE D == {N - i : i \in S}
<1>0. \A i \in S : i \in Int /\ N - i \in Nat
  OBVIOUS
<1>1. D \subseteq Nat /\ D # {}
  BY <1>0
<1> HIDE DEF D
<1>2. PICK a \in D : \A b \in D : a <= b
  BY <1>1, NatMinimum
<1>3. PICK i \in S : a = N - i
  BY DEF D
<1>4. \A j \in S : a <= N - j
  BY <1>2 DEF D
<1> QED BY <1>0, <1>3, <1>4

\* d is the sequence s with e put in at place i.
IsInserted(d, s, i, e) ==
    /\ d \in Seq(Nat) /\ Len(d) = Len(s) + 1
    /\ d[i] = e
    /\ \A j \in 1 .. i - 1 : d[j] = s[j]
    /\ \A j \in i + 1 .. Len(s) + 1 : d[j] = s[j - 1]

\* What InsertAt gives.
LEMMA Inserted ==
    ASSUME NEW s \in Seq(Nat), NEW i \in 1 .. Len(s) + 1, NEW e \in Nat
    PROVE  IsInserted(InsertAt(s, i, e), s, i, e)
<1> DEFINE a == SubSeq(s, 1, i - 1)
           b == <<e>>
           c == SubSeq(s, i, Len(s))
<1>1. Len(s) \in Nat /\ i \in Nat
  OBVIOUS
<1>2. a \in Seq(Nat) /\ Len(a) = i - 1 /\ \A j \in 1 .. i - 1 : a[j] = s[j]
  BY <1>1
<1>3. b \in Seq(Nat) /\ Len(b) = 1 /\ b[1] = e
  OBVIOUS
<1>4. c \in Seq(Nat) /\ Len(c) = Len(s) - i + 1 /\ \A j \in 1 .. Len(s) - i + 1 : c[j] = s[i + j - 1]
  BY <1>1
<1> HIDE DEF a, b, c
<1> DEFINE ab == a \o b
           d == ab \o c
<1>5. /\ ab \in Seq(Nat) /\ Len(ab) = i
      /\ \A j \in 1 .. i : ab[j] = IF j <= i - 1 THEN a[j] ELSE b[j - (i - 1)]
  <2>1. /\ ab \in Seq(Nat) /\ Len(ab) = Len(a) + Len(b)
        /\ \A j \in 1 .. Len(a) + Len(b) : ab[j] = IF j <= Len(a) THEN a[j] ELSE b[j - Len(a)]
    BY <1>2, <1>3, ConcatProperties
  <2>2. Len(a) + Len(b) = i
    BY <1>1, <1>2, <1>3
  <2> QED BY <1>2, <2>1, <2>2
<1> HIDE DEF ab
<1>6. /\ d \in Seq(Nat) /\ Len(d) = Len(s) + 1
      /\ \A j \in 1 .. Len(s) + 1 : d[j] = IF j <= i THEN ab[j] ELSE c[j - i]
  <2>1. /\ d \in Seq(Nat) /\ Len(d) = Len(ab) + Len(c)
        /\ \A j \in 1 .. Len(ab) + Len(c) : d[j] = IF j <= Len(ab) THEN ab[j] ELSE c[j - Len(ab)]
    BY <1>4, <1>5, ConcatProperties
  <2>2. Len(ab) + Len(c) = Len(s) + 1
    BY <1>1, <1>4, <1>5
  <2> QED BY <1>5, <2>1, <2>2
<1> HIDE DEF d
<1>7. d[i] = e
  <2>1. i - (i - 1) = 1 /\ ~(i <= i - 1) /\ i <= i /\ i \in 1 .. i /\ i \in 1 .. Len(s) + 1
    BY <1>1
  <2> QED BY <2>1, <1>3, <1>5, <1>6
<1>8. ASSUME NEW j \in 1 .. i - 1 PROVE d[j] = s[j]
  <2>1. j <= i - 1 /\ j <= i /\ j \in 1 .. i /\ j \in 1 .. Len(s) + 1
    BY <1>1
  <2> QED BY <2>1, <1>2, <1>5, <1>6
<1>9. ASSUME NEW j \in i + 1 .. Len(s) + 1 PROVE d[j] = s[j - 1]
  <2>1. ~(j <= i) /\ j \in 1 .. Len(s) + 1 /\ j - i \in 1 .. Len(s) - i + 1 /\ i + (j - i) - 1 = j - 1
    BY <1>1
  <2> QED BY <2>1, <1>4, <1>6
<1>10. InsertAt(s, i, e) = d
  BY DEF InsertAt, a, b, c, ab, d
<1> QED BY <1>6, <1>7, <1>8, <1>9, <1>10 DEF IsInserted

\* The two halves of a set of rows: every row of the lower one is below h, the
\* least row of the upper one.
IsSplit(all, low, high, h) ==
    /\ low \cup high = all /\ h \in high
    /\ \A y \in high : h <= y
    /\ \A y \in low : y < h

\* A leaf that splits does so into two halves.
LEMMA Halves ==
    ASSUME NEW N \in Nat, NEW all, all \subseteq 1 .. N, Cardinality(all) > 1
    PROVE  IsSplit(all, Smallest(all, Cardinality(all) \div 2), all \ Smallest(all, Cardinality(all) \div 2),
                   Least(all \ Smallest(all, Cardinality(all) \div 2)))
<1> DEFINE n == Cardinality(all) \div 2
           low == Smallest(all, n)
           high == all \ low
           Below(x) == {y \in all : y < x}
<1>0. all \in SUBSET Nat /\ \A y \in all : y \in Nat
  OBVIOUS
<1>1. IsFiniteSet(all) /\ Cardinality(all) \in Nat
  <2>1. IsFiniteSet(1 .. N)
    BY FS_Interval
  <2>2. IsFiniteSet(all)
    BY <2>1, FS_Subset
  <2> QED BY <2>2, FS_CardinalityType
<1>2. low = {x \in all : Cardinality(Below(x)) < n}
  BY DEF Smallest
<1>3. \A x \in all : IsFiniteSet(Below(x)) /\ Cardinality(Below(x)) \in Nat
  BY <1>1, FS_Subset, FS_CardinalityType
<1>4. n \in Nat /\ n <= Cardinality(all) - 1
  BY <1>1
<1>5. high # {}
  <2>1. all # {}
    BY <1>1, FS_EmptySet
  <2>2. PICK m \in all : \A y \in all : y <= m
    BY <2>1, RowMaximum
  <2>3. Below(m) = all \ {m}
    <3>1. \A y \in all : y < m <=> y # m
      BY <1>0, <2>2
    <3> QED BY <3>1
  <2>4. Cardinality(Below(m)) = Cardinality(all) - 1
    BY <1>1, <2>3, FS_RemoveElement
  <2> QED BY <1>1, <1>2, <1>4, <2>4
<1>6. \A a \in low, b \in high : a < b
  <2> SUFFICES ASSUME NEW a \in low, NEW b \in high, ~(a < b) PROVE FALSE
    OBVIOUS
  <2>1. a \in all /\ b \in all /\ Cardinality(Below(a)) < n /\ ~(Cardinality(Below(b)) < n)
    BY <1>2
  <2>2. Below(b) \subseteq Below(a)
    <3>1. \A y \in all : y < b => y < a
      BY <1>0, <2>1
    <3> QED BY <3>1
  <2>3. Cardinality(Below(b)) <= Cardinality(Below(a))
    BY <1>3, <2>1, <2>2, FS_Subset
  <2> QED BY <1>3, <1>4, <2>1, <2>3
<1> HIDE DEF low
<1>7. Least(high) \in high /\ \A y \in high : Least(high) <= y
  <2>1. high \subseteq Nat
    BY <1>0
  <2>2. \E x \in high : \A y \in high : x <= y
    BY <1>5, <2>1, NatMinimum
  <2> QED BY <2>2 DEF Least
<1>8. low \subseteq all
  BY <1>2
<1>9. IsSplit(all, low, high, Least(high))
  BY <1>6, <1>7, <1>8 DEF IsSplit
<1> QED BY <1>9 DEF low

-----------------------------------------------------------------------------
(* Trees. *)

\* A leaf with rows up to N.
LeafOK(N, c) == c = Leaf(c.rows) /\ c.rows \subseteq 1 .. N

\* A branch whose leaves hold the rows between its separators.
BranchOK(N, v, r) ==
    /\ v[r] = Branch(v[r].kids, v[r].keys)
    /\ v[r].kids \in Seq(Nat) /\ v[r].keys \in Seq(Nat)
    /\ Len(v[r].kids) = Len(v[r].keys) + 1
    /\ \A i, j \in DOMAIN v[r].keys : i < j => v[r].keys[i] <= v[r].keys[j]
    /\ \A i, j \in DOMAIN v[r].kids : v[r].kids[i] = v[r].kids[j] => i = j
    /\ \A i \in DOMAIN v[r].kids :
          /\ v[r].kids[i] \in DOMAIN v /\ v[r].kids[i] # r /\ LeafOK(N, v[v[r].kids[i]])
          /\ \A x \in v[v[r].kids[i]].rows :
                (i > 1 => v[r].keys[i - 1] <= x) /\ (i < Len(v[r].kids) => x < v[r].keys[i])

TreeOK(N, v, r) == r \in DOMAIN v /\ IF IsLeaf(v[r]) THEN LeafOK(N, v[r]) ELSE BranchOK(N, v, r)

LEMMA NodeFields ==
    /\ \A R : Leaf(R).rows = R /\ Leaf(R).kids = <<>> /\ IsLeaf(Leaf(R))
    /\ \A K, S : Branch(K, S).rows = {} /\ Branch(K, S).kids = K /\ Branch(K, S).keys = S
BY DEF Leaf, Branch, IsLeaf

LEMMA LeafIsOK == ASSUME NEW N, NEW R, R \subseteq 1 .. N PROVE LeafOK(N, Leaf(R))
BY NodeFields DEF LeafOK

\* A branch by its children and its separators.
Kids(v, r) == v[r].kids
Seps(v, r) == v[r].keys

LEMMA BranchIs ==
    ASSUME NEW N \in Nat, NEW v, NEW r, BranchOK(N, v, r)
    PROVE  /\ Kids(v, r) \in Seq(Nat) /\ Seps(v, r) \in Seq(Nat) /\ Len(Seps(v, r)) \in Nat
           /\ Len(Kids(v, r)) = Len(Seps(v, r)) + 1
           /\ DOMAIN Kids(v, r) = 1 .. Len(Seps(v, r)) + 1 /\ DOMAIN Seps(v, r) = 1 .. Len(Seps(v, r))
           /\ \A i \in DOMAIN Seps(v, r) : Seps(v, r)[i] \in Nat
           /\ \A i \in DOMAIN Kids(v, r) : /\ Kids(v, r)[i] \in Nat /\ Kids(v, r)[i] \in DOMAIN v
                                           /\ Kids(v, r)[i] # r /\ LeafOK(N, v[Kids(v, r)[i]])
           /\ \A i, j \in DOMAIN Seps(v, r) : i < j => Seps(v, r)[i] <= Seps(v, r)[j]
           /\ \A i, j \in DOMAIN Kids(v, r) : Kids(v, r)[i] = Kids(v, r)[j] => i = j
           /\ \A i \in DOMAIN Kids(v, r) : \A x \in v[Kids(v, r)[i]].rows :
                 (i > 1 => Seps(v, r)[i - 1] <= x) /\ (i < Len(Seps(v, r)) + 1 => x < Seps(v, r)[i])
           /\ v[r].rows = {}
           /\ PagesFrom(v, r) = {r} \cup {Kids(v, r)[i] : i \in DOMAIN Kids(v, r)}
           /\ RowsFrom(v, r) = UNION {v[Kids(v, r)[i]].rows : i \in DOMAIN Kids(v, r)}
<1> DEFINE K == Kids(v, r)
           S == Seps(v, r)
<1>1. K \in Seq(Nat) /\ S \in Seq(Nat) /\ Len(K) = Len(S) + 1
  BY DEF BranchOK, Kids, Seps
<1>3. \A i \in DOMAIN K : K[i] \in DOMAIN v /\ K[i] # r /\ LeafOK(N, v[K[i]])
  BY Zenon DEF BranchOK, Kids, Seps
<1>4. \A i, j \in DOMAIN S : i < j => S[i] <= S[j]
  BY Zenon DEF BranchOK, Kids, Seps
<1>5. \A i, j \in DOMAIN K : K[i] = K[j] => i = j
  BY Zenon DEF BranchOK, Kids, Seps
<1>6. \A i \in DOMAIN K : \A x \in v[K[i]].rows : (i > 1 => S[i - 1] <= x) /\ (i < Len(K) => x < S[i])
  BY Zenon DEF BranchOK, Kids, Seps
<1>7. v[r].rows = {}
  <2>1. v[r] = Branch(v[r].kids, v[r].keys)
    BY Zenon DEF BranchOK
  <2> QED BY <2>1, NodeFields
<1>8. PagesFrom(v, r) = {r} \cup {K[i] : i \in DOMAIN K}
  BY DEF PagesFrom, Kids
<1>9. RowsFrom(v, r) = UNION {v[K[i]].rows : i \in DOMAIN K}
  BY <1>7 DEF RowsFrom, Kids
<1> HIDE DEF K, S
<1>2. /\ Len(S) \in Nat /\ DOMAIN K = 1 .. Len(S) + 1 /\ DOMAIN S = 1 .. Len(S)
      /\ \A i \in DOMAIN S : S[i] \in Nat
      /\ \A i \in DOMAIN K : K[i] \in Nat
  BY <1>1
<1> QED BY <1>1, <1>2, <1>3, <1>4, <1>5, <1>6, <1>7, <1>8, <1>9 DEF K, S

\* A leaf is all of its tree.
LEMMA LeafIs ==
    ASSUME NEW N, NEW v, NEW r, TreeOK(N, v, r), IsLeaf(v[r])
    PROVE  /\ r \in DOMAIN v /\ LeafOK(N, v[r]) /\ PagesFrom(v, r) = {r} /\ RowsFrom(v, r) = v[r].rows
           /\ \A x : LeafOf(v, r, x) = r
<1>1. v[r].kids = <<>> /\ DOMAIN <<>> = {}
  BY DEF IsLeaf
<1> QED BY <1>1 DEF PagesFrom, RowsFrom, TreeOK, LeafOf

\* find_child gives the child between whose separators the row id lies.
LEMMA ChildFound ==
    ASSUME NEW c, c.keys \in Seq(Nat), Len(c.kids) = Len(c.keys) + 1, NEW x \in Nat
    PROVE  /\ ChildIndex(c, x) \in 1 .. Len(c.keys) + 1
           /\ ChildIndex(c, x) > 1 => c.keys[ChildIndex(c, x) - 1] <= x
           /\ ChildIndex(c, x) < Len(c.keys) + 1 => x < c.keys[ChildIndex(c, x)]
<1> DEFINE S == {i \in DOMAIN c.keys : x < c.keys[i]}
           n == Len(c.keys)
<1>1. n \in Nat /\ DOMAIN c.keys = 1 .. n /\ S \subseteq 1 .. n /\ \A j \in 1 .. n : c.keys[j] \in Nat
  OBVIOUS
<1>2. CASE S = {}
  <2>1. ChildIndex(c, x) = n + 1
    BY <1>2 DEF ChildIndex
  <2>2. \A j \in 1 .. n : c.keys[j] <= x
    BY SMTT(30), <1>1, <1>2
  <2> QED BY <1>1, <2>1, <2>2
<1>3. CASE S # {}
  <2>0. S \subseteq Nat
    BY <1>1
  <2>1. PICK i \in S : \A j \in S : i <= j
    <3> HIDE DEF S
    <3> QED BY <1>3, <2>0, NatMinimum
  <2>2. i \in DOMAIN c.keys /\ x < c.keys[i] /\ \A j \in 1 .. i - 1 : x >= c.keys[j]
    <3>1. \A j \in 1 .. i - 1 : j \in 1 .. n /\ ~(i <= j)
      BY <1>1, <2>1
    <3>2. \A j \in 1 .. i - 1 : ~(x < c.keys[j])
      BY <1>1, <2>1, <3>1
    <3> QED BY SMTT(30), <1>1, <2>1, <3>1, <3>2
  <2> DEFINE k == CHOOSE m \in DOMAIN c.keys : x < c.keys[m] /\ \A j \in 1 .. m - 1 : x >= c.keys[j]
  <2>3. k \in DOMAIN c.keys /\ x < c.keys[k] /\ \A j \in 1 .. k - 1 : x >= c.keys[j]
    BY <2>2
  <2>4. ChildIndex(c, x) = k
    BY <1>3 DEF ChildIndex
  <2> HIDE DEF k
  <2>5. k > 1 => c.keys[k - 1] <= x
    BY SMTT(30), <1>1, <2>3
  <2> QED BY <1>1, <2>3, <2>4, <2>5
<1> QED BY <1>2, <1>3

\* A row lies in no child but the one find_child gives.
LEMMA ChildOfRow ==
    ASSUME NEW N \in Nat, NEW v, NEW r, BranchOK(N, v, r), NEW x \in 1 .. N,
           NEW j \in DOMAIN v[r].kids, x \in v[v[r].kids[j]].rows
    PROVE  j = ChildIndex(v[r], x)
<1> DEFINE i == ChildIndex(v[r], x)
           K == Kids(v, r)
           S == Seps(v, r)
<1>1. /\ K \in Seq(Nat) /\ S \in Seq(Nat) /\ Len(S) \in Nat /\ Len(K) = Len(S) + 1
      /\ DOMAIN K = 1 .. Len(S) + 1 /\ DOMAIN S = 1 .. Len(S)
      /\ \A a \in DOMAIN S : S[a] \in Nat
      /\ \A a, b \in DOMAIN S : a < b => S[a] <= S[b]
      /\ \A a \in DOMAIN K : \A y \in v[K[a]].rows : (a > 1 => S[a - 1] <= y) /\ (a < Len(S) + 1 => y < S[a])
  BY BranchIs
<1>2. i \in 1 .. Len(S) + 1 /\ (i > 1 => S[i - 1] <= x) /\ (i < Len(S) + 1 => x < S[i])
  <2>1. v[r].keys \in Seq(Nat) /\ Len(v[r].kids) = Len(v[r].keys) + 1 /\ x \in Nat
    BY <1>1 DEF Kids, Seps
  <2> QED BY <2>1, ChildFound DEF Seps
<1>3. (j > 1 => S[j - 1] <= x) /\ (j < Len(S) + 1 => x < S[j])
  BY <1>1 DEF Kids
<1>4. j \in 1 .. Len(S) + 1
  BY <1>1 DEF Kids
<1> HIDE DEF i, K, S
<1>7. i \in Int /\ j \in Int /\ 1 <= i /\ 1 <= j /\ i <= Len(S) + 1 /\ j <= Len(S) + 1 /\ Len(S) \in Int
  BY <1>1, <1>2, <1>4
<1>5. CASE j < i
  <2>1. j \in DOMAIN S /\ i - 1 \in DOMAIN S /\ x < S[j] /\ S[i - 1] <= x
    BY SMTT(30), <1>1, <1>2, <1>3, <1>5, <1>7
  <2>2. j = i - 1 \/ j < i - 1
    BY <1>5, <1>7
  <2> QED BY SMTT(30), <2>1, <2>2, <1>1
<1>6. CASE i < j
  <2>1. i \in DOMAIN S /\ j - 1 \in DOMAIN S /\ x < S[i] /\ S[j - 1] <= x
    BY SMTT(30), <1>1, <1>2, <1>3, <1>6, <1>7
  <2>2. i = j - 1 \/ i < j - 1
    BY <1>6, <1>7
  <2> QED BY SMTT(30), <2>1, <2>2, <1>1
<1> QED BY <1>5, <1>6, <1>7 DEF i

\* The leaf a row id leads to; in a branch, its bounds hold for the row id too.
LEMMA LeafFound ==
    ASSUME NEW N \in Nat, NEW v, NEW r, TreeOK(N, v, r), NEW x \in 1 .. N
    PROVE  /\ LeafOf(v, r, x) \in PagesFrom(v, r) /\ LeafOf(v, r, x) \in DOMAIN v
           /\ LeafOK(N, v[LeafOf(v, r, x)])
           /\ LeafOf(v, r, x) = r <=> IsLeaf(v[r])
           /\ x \in RowsFrom(v, r) <=> x \in v[LeafOf(v, r, x)].rows
<1>1. CASE IsLeaf(v[r])
  BY <1>1, LeafIs
<1>2. CASE ~IsLeaf(v[r])
  <2> DEFINE i == ChildIndex(v[r], x)
             K == Kids(v, r)
             S == Seps(v, r)
  <2>1. BranchOK(N, v, r)
    BY <1>2 DEF TreeOK
  <2>2. /\ S \in Seq(Nat) /\ Len(S) \in Nat /\ Len(K) = Len(S) + 1 /\ DOMAIN K = 1 .. Len(S) + 1
        /\ \A a \in DOMAIN K : K[a] \in DOMAIN v /\ K[a] # r /\ LeafOK(N, v[K[a]])
    BY <2>1, BranchIs
  <2>6. PagesFrom(v, r) = {r} \cup {K[a] : a \in DOMAIN K}
    BY DEF PagesFrom, Kids
  <2>7. RowsFrom(v, r) = UNION {v[K[a]].rows : a \in DOMAIN K}
    <3>1. v[r].rows = {}
      BY <2>1, BranchIs
    <3> QED BY <3>1 DEF RowsFrom, Kids
  <2>3. i \in DOMAIN K
    <3>1. v[r].keys \in Seq(Nat) /\ Len(v[r].kids) = Len(v[r].keys) + 1 /\ x \in Nat
      BY <2>2 DEF Kids, Seps
    <3> QED BY <2>2, <3>1, ChildFound DEF Seps
  <2>4. \A a \in DOMAIN K : x \in v[K[a]].rows => a = i
    BY <2>1, ChildOfRow DEF Kids
  <2>5. LeafOf(v, r, x) = K[i]
    BY <1>2 DEF LeafOf, Kids
  <2> HIDE DEF i, K
  <2> QED BY <1>2, <2>2, <2>3, <2>4, <2>5, <2>6, <2>7
<1> QED BY <1>1, <1>2

LEMMA OverIs ==
    ASSUME NEW w, NEW v
    PROVE  /\ DOMAIN Over(w, v) = DOMAIN w \cup DOMAIN v
           /\ \A p \in DOMAIN w : Over(w, v)[p] = w[p]
           /\ \A p \in DOMAIN v : p \notin DOMAIN w => Over(w, v)[p] = v[p]
BY DEF Over

\* A tree only depends on its own pages.
LEMMA TreeFrame ==
    ASSUME NEW N \in Nat, NEW v, NEW r, TreeOK(N, v, r), NEW u,
           \A p \in PagesFrom(v, r) : p \in DOMAIN u /\ u[p] = v[p]
    PROVE  /\ TreeOK(N, u, r) /\ RowsFrom(u, r) = RowsFrom(v, r) /\ PagesFrom(u, r) = PagesFrom(v, r)
           /\ \A x : LeafOf(u, r, x) = LeafOf(v, r, x)
<1>1. r \in DOMAIN u /\ u[r] = v[r] /\ r \in PagesFrom(v, r)
  BY DEF PagesFrom
<1>2. \A x : LeafOf(u, r, x) = LeafOf(v, r, x)
  BY <1>1 DEF LeafOf
<1>3. PagesFrom(u, r) = PagesFrom(v, r)
  BY <1>1 DEF PagesFrom
<1>4. \A i \in DOMAIN v[r].kids : v[r].kids[i] \in DOMAIN u /\ u[v[r].kids[i]] = v[v[r].kids[i]]
  BY DEF PagesFrom
<1>5. RowsFrom(u, r) = RowsFrom(v, r)
  BY <1>1, <1>4 DEF RowsFrom
<1>6. TreeOK(N, u, r)
  <2>1. CASE IsLeaf(v[r])
    BY <2>1, <1>1 DEF TreeOK
  <2>2. CASE ~IsLeaf(v[r])
    <3>1. BranchOK(N, v, r)
      BY <2>2 DEF TreeOK
    <3>2. BranchOK(N, u, r)
      BY <3>1, <1>1, <1>4 DEF BranchOK
    <3> QED BY <2>2, <3>2, <1>1 DEF TreeOK
  <2> QED BY <2>1, <2>2
<1> QED BY <1>2, <1>3, <1>5, <1>6

\* A page of a tree is the root of a tree itself, of no more rows and pages.
LEMMA SubTree ==
    ASSUME NEW N \in Nat, NEW v, NEW r, TreeOK(N, v, r), NEW q \in PagesFrom(v, r)
    PROVE  /\ TreeOK(N, v, q) /\ q \in DOMAIN v
           /\ RowsFrom(v, q) \subseteq RowsFrom(v, r) /\ PagesFrom(v, q) \subseteq PagesFrom(v, r)
<1>1. CASE q = r
  BY <1>1 DEF TreeOK
<1>2. CASE q # r
  <2>1. ~IsLeaf(v[r]) /\ BranchOK(N, v, r)
    BY <1>2, LeafIs DEF TreeOK
  <2>2. PICK i \in DOMAIN v[r].kids : q = v[r].kids[i]
    BY <1>2 DEF PagesFrom
  <2>3. q \in DOMAIN v /\ LeafOK(N, v[q])
    BY <2>1, <2>2, BranchIs DEF Kids
  <2>4. IsLeaf(v[q]) /\ TreeOK(N, v, q)
    BY <2>3, NodeFields DEF LeafOK, TreeOK
  <2>5. PagesFrom(v, q) = {q} /\ RowsFrom(v, q) = v[q].rows
    BY <2>4, LeafIs
  <2>6. v[q].rows \subseteq RowsFrom(v, r)
    BY <2>2 DEF RowsFrom
  <2> QED BY <2>3, <2>4, <2>5, <2>6
<1> QED BY <1>1, <1>2

\* The rows of a tree are row ids.
LEMMA TreeRows ==
    ASSUME NEW N \in Nat, NEW v, NEW r, TreeOK(N, v, r)
    PROVE  RowsFrom(v, r) \subseteq 1 .. N
<1>1. CASE IsLeaf(v[r])
  BY <1>1, LeafIs DEF LeafOK
<1>2. CASE ~IsLeaf(v[r])
  <2>1. BranchOK(N, v, r)
    BY <1>2 DEF TreeOK
  <2>2. v[r].rows = {}
    BY <2>1, BranchIs
  <2>3. \A i \in DOMAIN v[r].kids : LeafOK(N, v[v[r].kids[i]])
    BY <2>1 DEF BranchOK
  <2> QED BY <2>2, <2>3 DEF RowsFrom, LeafOK
<1> QED BY <1>1, <1>2

\* The rows of the leaf a row id leads to, and the row id, lie between the
\* separators of its child.
LEMMA LeafBounds ==
    ASSUME NEW N \in Nat, NEW v, NEW r, BranchOK(N, v, r), NEW x \in 1 .. N,
           NEW y \in v[Kids(v, r)[ChildIndex(v[r], x)]].rows \cup {x}
    PROVE  /\ ChildIndex(v[r], x) \in 1 .. Len(Seps(v, r)) + 1
           /\ ChildIndex(v[r], x) > 1 => Seps(v, r)[ChildIndex(v[r], x) - 1] <= y
           /\ ChildIndex(v[r], x) < Len(Seps(v, r)) + 1 => y < Seps(v, r)[ChildIndex(v[r], x)]
<1> DEFINE i == ChildIndex(v[r], x)
           K == Kids(v, r)
           S == Seps(v, r)
<1>1. /\ S \in Seq(Nat) /\ Len(K) = Len(S) + 1
      /\ DOMAIN K = 1 .. Len(S) + 1
      /\ \A a \in DOMAIN K : \A z \in v[K[a]].rows : (a > 1 => S[a - 1] <= z) /\ (a < Len(S) + 1 => z < S[a])
  BY BranchIs
<1>2. i \in 1 .. Len(S) + 1 /\ (i > 1 => S[i - 1] <= x) /\ (i < Len(S) + 1 => x < S[i])
  <2>1. v[r].keys \in Seq(Nat) /\ Len(v[r].kids) = Len(v[r].keys) + 1 /\ x \in Nat
    BY <1>1 DEF Kids, Seps
  <2> QED BY <2>1, ChildFound DEF Seps
<1> HIDE DEF i, K, S
<1>3. y \in v[K[i]].rows \cup {x}
  BY DEF i, K
<1>4. i \in 1 .. Len(S) + 1 /\ (i > 1 => S[i - 1] <= y) /\ (i < Len(S) + 1 => y < S[i])
  BY <1>1, <1>2, <1>3
<1> QED BY <1>4 DEF i, K, S

\* Writing the leaf of row x with rows it had and perhaps x.
LEMMA LeafReplaced ==
    ASSUME NEW N \in Nat, NEW v, NEW r, TreeOK(N, v, r), NEW x \in 1 .. N,
           NEW R, R \subseteq v[LeafOf(v, r, x)].rows \cup {x}, NEW u,
           u[LeafOf(v, r, x)] = Leaf(R),
           \A p \in PagesFrom(v, r) : p \in DOMAIN u /\ (p # LeafOf(v, r, x) => u[p] = v[p])
    PROVE  /\ TreeOK(N, u, r) /\ PagesFrom(u, r) = PagesFrom(v, r)
           /\ RowsFrom(u, r) = (RowsFrom(v, r) \ v[LeafOf(v, r, x)].rows) \cup R
<1> DEFINE leaf == LeafOf(v, r, x)
<1>1. leaf \in PagesFrom(v, r) /\ LeafOK(N, v[leaf]) /\ (leaf = r <=> IsLeaf(v[r]))
  BY LeafFound
<1>2. R \subseteq 1 .. N
  BY <1>1 DEF LeafOK
<1>3. LeafOK(N, u[leaf]) /\ u[leaf].rows = R /\ IsLeaf(u[leaf])
  <2>1. LeafOK(N, Leaf(R))
    BY <1>2, LeafIsOK
  <2>2. Leaf(R).rows = R /\ IsLeaf(Leaf(R))
    BY NodeFields
  <2> QED BY <2>1, <2>2
<1>4. CASE leaf = r
  <2>1. r \in DOMAIN u
    BY <1>1, <1>4
  <2>2. TreeOK(N, u, r)
    BY <1>3, <1>4, <2>1 DEF TreeOK
  <2>3. PagesFrom(u, r) = {r} /\ RowsFrom(u, r) = R
    BY <1>3, <1>4, <2>2, LeafIs
  <2>4. PagesFrom(v, r) = {r} /\ RowsFrom(v, r) = v[leaf].rows
    BY <1>1, <1>4, LeafIs
  <2> QED BY <2>2, <2>3, <2>4
<1>5. CASE leaf # r
  <2> DEFINE i == ChildIndex(v[r], x)
             K == Kids(v, r)
             S == Seps(v, r)
  <2>1. BranchOK(N, v, r) /\ ~IsLeaf(v[r])
    BY <1>1, <1>5 DEF TreeOK
  <2>2. leaf = K[i]
    BY <2>1 DEF LeafOf, Kids
  <2>3. r \in PagesFrom(v, r) /\ u[r] = v[r] /\ r \in DOMAIN u
    BY <1>5 DEF PagesFrom
  <2>4. /\ S \in Seq(Nat) /\ Len(S) \in Nat /\ Len(K) = Len(S) + 1 /\ DOMAIN K = 1 .. Len(S) + 1
        /\ \A a \in DOMAIN K : K[a] \in DOMAIN v /\ K[a] # r /\ LeafOK(N, v[K[a]])
        /\ \A a, b \in DOMAIN K : K[a] = K[b] => a = b
        /\ v[r].rows = {}
    BY <2>1, BranchIs
  <2>5. \A y \in R : i \in 1 .. Len(S) + 1 /\ (i > 1 => S[i - 1] <= y) /\ (i < Len(S) + 1 => y < S[i])
    BY <2>1, <2>2, LeafBounds
  <2>6. i \in DOMAIN K
    BY <2>1, <2>4, LeafBounds
  <2>7. \A a \in DOMAIN K : K[a] \in PagesFrom(v, r)
    BY DEF PagesFrom, Kids
  <2>8. \A a \in DOMAIN K : a # i => u[K[a]] = v[K[a]] /\ K[a] # leaf
    BY <2>2, <2>4, <2>6, <2>7
  <2>9. \A a \in DOMAIN K : K[a] \in DOMAIN u /\ LeafOK(N, u[K[a]])
    BY <1>3, <2>2, <2>4, <2>7, <2>8
  <2>10. \A a \in DOMAIN K : \A y \in v[K[a]].rows : (a > 1 => S[a - 1] <= y) /\ (a < Len(K) => y < S[a])
    BY <2>1 DEF BranchOK, Kids, Seps
  <2>11. \A a \in DOMAIN K : \A y \in u[K[a]].rows : (a > 1 => S[a - 1] <= y) /\ (a < Len(K) => y < S[a])
    <3> SUFFICES ASSUME NEW a \in DOMAIN K, NEW y \in u[K[a]].rows
                 PROVE  (a > 1 => S[a - 1] <= y) /\ (a < Len(K) => y < S[a])
      OBVIOUS
    <3>1. CASE a = i
      BY <3>1, <1>3, <2>2, <2>4, <2>5
    <3>2. CASE a # i
      BY <3>2, <2>8, <2>10
    <3> QED BY <3>1, <3>2
  <2>12. BranchOK(N, u, r)
    BY <2>1, <2>3, <2>4, <2>9, <2>11 DEF BranchOK, Kids, Seps
  <2>13. TreeOK(N, u, r)
    BY <2>1, <2>3, <2>12 DEF TreeOK
  <2>14. PagesFrom(u, r) = PagesFrom(v, r)
    BY <2>3 DEF PagesFrom
  <2>15. /\ RowsFrom(u, r) = UNION {u[K[a]].rows : a \in DOMAIN K}
         /\ RowsFrom(v, r) = UNION {v[K[a]].rows : a \in DOMAIN K}
    BY <2>3, <2>4 DEF RowsFrom, Kids
  <2>16. \A a, b \in DOMAIN K : \A y : y \in v[K[a]].rows /\ y \in v[K[b]].rows => a = b
    <3> SUFFICES ASSUME NEW a \in DOMAIN K, NEW b \in DOMAIN K, NEW y,
                        y \in v[K[a]].rows, y \in v[K[b]].rows
                 PROVE  a = b
      OBVIOUS
    <3>1. y \in 1 .. N
      BY <2>4 DEF LeafOK
    <3>2. a = ChildIndex(v[r], y)
      BY <2>1, <3>1, ChildOfRow DEF Kids
    <3>3. b = ChildIndex(v[r], y)
      BY <2>1, <3>1, ChildOfRow DEF Kids
    <3> QED BY <3>2, <3>3
  <2> HIDE DEF i, K, S, leaf
  <2>17. RowsFrom(u, r) = (RowsFrom(v, r) \ v[leaf].rows) \cup R
    BY <1>3, <2>2, <2>6, <2>8, <2>15, <2>16
  <2> QED BY <2>13, <2>14, <2>17 DEF leaf
<1> QED BY <1>4, <1>5

\* A view with the pages of w over it.
LEMMA DeleteTree ==
    ASSUME NEW N \in Nat, NEW v, NEW r, TreeOK(N, v, r), NEW x \in 1 .. N,
           x \in v[LeafOf(v, r, x)].rows, NEW u,
           \A p \in PagesFrom(v, r) : p \in DOMAIN u,
           \A p \in DOMAIN TreeDelete(v, r, x).writes : u[p] = TreeDelete(v, r, x).writes[p],
           \A p \in PagesFrom(v, r) \ DOMAIN TreeDelete(v, r, x).writes : u[p] = v[p]
    PROVE  /\ TreeDelete(v, r, x).root = r /\ TreeDelete(v, r, x).allocated = 0
           /\ DOMAIN TreeDelete(v, r, x).writes \subseteq PagesFrom(v, r)
           /\ TreeOK(N, u, r) /\ PagesFrom(u, r) = PagesFrom(v, r)
           /\ RowsFrom(u, r) = RowsFrom(v, r) \ {x}
<1> DEFINE leaf == LeafOf(v, r, x)
           w == TreeDelete(v, r, x)
           R == v[leaf].rows \ {x}
<1>1. w.root = r /\ w.allocated = 0 /\ DOMAIN w.writes = {leaf} /\ w.writes[leaf] = Leaf(R)
  BY DEF TreeDelete
<1>2. leaf \in PagesFrom(v, r) /\ (x \in RowsFrom(v, r) <=> x \in v[leaf].rows)
  BY LeafFound
<1> HIDE DEF w
<1>3. u[leaf] = Leaf(R)
  BY <1>1 DEF w
<1>4. \A p \in PagesFrom(v, r) : p \in DOMAIN u /\ (p # leaf => u[p] = v[p])
  BY <1>1 DEF w
<1>5. /\ TreeOK(N, u, r) /\ PagesFrom(u, r) = PagesFrom(v, r)
      /\ RowsFrom(u, r) = (RowsFrom(v, r) \ v[leaf].rows) \cup R
  BY <1>3, <1>4, LeafReplaced
<1>6. v[leaf].rows \subseteq RowsFrom(v, r)
  <2>1. leaf \in DOMAIN v
    BY LeafFound
  <2>2. v[leaf].rows \subseteq RowsFrom(v, leaf)
    BY DEF RowsFrom
  <2> QED BY <1>2, <2>2, SubTree
<1> HIDE DEF leaf
<1> QED BY <1>1, <1>2, <1>5, <1>6 DEF w

\* A root leaf that splits: a new root over its two halves.
RootSplitPages(u, r, f, low, high, h) ==
    /\ {r, f, f + 1} \subseteq DOMAIN u
    /\ u[r] = Leaf(low) /\ u[f] = Leaf(high) /\ u[f + 1] = Branch(<<r, f>>, <<h>>)

RootSplitDone(N, u, r, f, all) ==
    TreeOK(N, u, f + 1) /\ RowsFrom(u, f + 1) = all /\ PagesFrom(u, f + 1) = {r, f, f + 1}

LEMMA RootSplit ==
    ASSUME NEW N \in Nat, NEW all, all \subseteq 1 .. N, NEW low, NEW high, NEW h,
           IsSplit(all, low, high, h),
           NEW u, NEW r \in Nat, NEW f \in Nat, r < f,
           RootSplitPages(u, r, f, low, high, h)
    PROVE  RootSplitDone(N, u, r, f, all)
<1> DEFINE K == <<r, f>>
           S == <<h>>
<1>0. h \in high /\ low \cup high = all /\ (\A y \in high : h <= y) /\ (\A y \in low : y < h)
  BY DEF IsSplit
<1>p. /\ {r, f, f + 1} \subseteq DOMAIN u
      /\ u[r] = Leaf(low) /\ u[f] = Leaf(high) /\ u[f + 1] = Branch(<<r, f>>, <<h>>)
  BY DEF RootSplitPages
<1>1. u[f + 1].rows = {} /\ u[f + 1].kids = K /\ u[f + 1].keys = S
  BY <1>p, NodeFields
<1>2. /\ u[r].rows = low /\ u[f].rows = high
      /\ LeafOK(N, u[r]) /\ LeafOK(N, u[f])
  <2>1. low \subseteq 1 .. N /\ high \subseteq 1 .. N
    BY <1>0
  <2>2. LeafOK(N, Leaf(low)) /\ LeafOK(N, Leaf(high))
    BY <2>1, LeafIsOK
  <2>3. Leaf(low).rows = low /\ Leaf(high).rows = high
    BY NodeFields
  <2> QED BY <1>p, <2>2, <2>3
<1>3. h \in Nat
  <2>1. h \in 1 .. N
    BY <1>0
  <2> QED BY <2>1
<1>4. /\ K \in Seq(Nat) /\ S \in Seq(Nat) /\ Len(K) = 2 /\ Len(S) = 1 /\ DOMAIN K = {1, 2} /\ DOMAIN S = {1}
      /\ K[1] = r /\ K[2] = f /\ S[1] = h
  BY <1>3
<1>5. u[f + 1] = Branch(K, S) /\ K # <<>>
  BY <1>p
<1> HIDE DEF K, S
<1>6. \A i \in DOMAIN K : /\ K[i] \in DOMAIN u /\ K[i] # f + 1 /\ LeafOK(N, u[K[i]])
                          /\ \A y \in u[K[i]].rows : (i > 1 => S[i - 1] <= y) /\ (i < Len(K) => y < S[i])
  <2>1. /\ K[1] \in DOMAIN u /\ K[1] # f + 1 /\ LeafOK(N, u[K[1]])
        /\ \A y \in u[K[1]].rows : (1 > 1 => S[1 - 1] <= y) /\ (1 < Len(K) => y < S[1])
    BY <1>0, <1>p, <1>2, <1>4
  <2>2. /\ K[2] \in DOMAIN u /\ K[2] # f + 1 /\ LeafOK(N, u[K[2]])
        /\ \A y \in u[K[2]].rows : (2 > 1 => S[2 - 1] <= y) /\ (2 < Len(K) => y < S[2])
    BY <1>0, <1>p, <1>2, <1>4
  <2> QED BY <2>1, <2>2, <1>4
<1>7. BranchOK(N, u, f + 1)
  <2>1. \A i, j \in DOMAIN S : i < j => S[i] <= S[j]
    BY <1>4
  <2>2. \A i, j \in DOMAIN K : K[i] = K[j] => i = j
    BY <1>4
  <2>3. Len(K) = Len(S) + 1
    BY <1>4
  <2> QED BY <2>1, <2>2, <2>3, <1>1, <1>4, <1>5, <1>6 DEF BranchOK
<1>8. TreeOK(N, u, f + 1)
  BY <1>p, <1>1, <1>5, <1>7 DEF TreeOK, IsLeaf
<1>9. PagesFrom(u, f + 1) = {f + 1} \cup {K[i] : i \in {1, 2}}
  BY <1>1, <1>4 DEF PagesFrom
<1>10. RowsFrom(u, f + 1) = UNION {u[K[i]].rows : i \in {1, 2}}
  BY <1>1, <1>4 DEF RowsFrom
<1>11. PagesFrom(u, f + 1) = {r, f, f + 1}
  BY <1>4, <1>9
<1>12. RowsFrom(u, f + 1) = all
  <2>1. UNION {u[K[i]].rows : i \in {1, 2}} = u[K[1]].rows \cup u[K[2]].rows
    OBVIOUS
  <2> QED BY <1>0, <1>2, <1>4, <1>10, <2>1
<1> QED BY <1>8, <1>11, <1>12 DEF RootSplitDone

\* Its parent gets the new page after the leaf's child and a separator between them.
NewKids(v, r, x, f) == InsertAt(Kids(v, r), ChildIndex(v[r], x) + 1, f)
NewSeps(v, r, x, h) == InsertAt(Seps(v, r), ChildIndex(v[r], x), h)

\* A leaf below a branch that splits.
LEMMA ChildSplit ==
    ASSUME NEW N \in Nat, NEW v, NEW r, BranchOK(N, v, r), NEW x \in 1 .. N,
           NEW low, NEW high, NEW h,
           IsSplit(v[Kids(v, r)[ChildIndex(v[r], x)]].rows \cup {x}, low, high, h),
           NEW f \in Nat, f \notin PagesFrom(v, r),
           NEW u, f \in DOMAIN u, \A p \in PagesFrom(v, r) : p \in DOMAIN u,
           u[Kids(v, r)[ChildIndex(v[r], x)]] = Leaf(low), u[f] = Leaf(high),
           u[r] = Branch(NewKids(v, r, x, f), NewSeps(v, r, x, h)),
           \A p \in PagesFrom(v, r) \ {Kids(v, r)[ChildIndex(v[r], x)], r} : u[p] = v[p]
    PROVE  /\ TreeOK(N, u, r) /\ RowsFrom(u, r) = RowsFrom(v, r) \cup {x}
           /\ PagesFrom(u, r) = PagesFrom(v, r) \cup {f}
<1> DEFINE i == ChildIndex(v[r], x)
           K == Kids(v, r)
           S == Seps(v, r)
           n == Len(S)
           L == NewKids(v, r, x, f)
           T == NewSeps(v, r, x, h)
           leaf == K[i]
<1>0. /\ h \in high /\ low \cup high = v[K[i]].rows \cup {x}
      /\ (\A y \in high : h <= y) /\ (\A y \in low : y < h)
  BY DEF IsSplit
<1>1. /\ K \in Seq(Nat) /\ S \in Seq(Nat) /\ n \in Nat /\ Len(K) = n + 1
      /\ DOMAIN K = 1 .. n + 1 /\ DOMAIN S = 1 .. n
      /\ \A a \in DOMAIN S : S[a] \in Nat
      /\ \A a \in DOMAIN K : K[a] \in Nat /\ K[a] \in DOMAIN v /\ K[a] # r /\ LeafOK(N, v[K[a]])
      /\ \A a, b \in DOMAIN S : a < b => S[a] <= S[b]
      /\ \A a, b \in DOMAIN K : K[a] = K[b] => a = b
      /\ \A a \in DOMAIN K : \A y \in v[K[a]].rows : (a > 1 => S[a - 1] <= y) /\ (a < n + 1 => y < S[a])
      /\ v[r].rows = {}
  BY SMTT(30), BranchIs
<1>2. PagesFrom(v, r) = {r} \cup {K[a] : a \in DOMAIN K}
  BY DEF PagesFrom, Kids
<1>3. RowsFrom(v, r) = UNION {v[K[a]].rows : a \in DOMAIN K}
  BY <1>1 DEF RowsFrom, Kids
<1>4. /\ \A y \in low \cup high : (i > 1 => S[i - 1] <= y) /\ (i < n + 1 => y < S[i])
      /\ i \in 1 .. n + 1
  <2>1. \A y \in v[K[i]].rows \cup {x} : i \in 1 .. n + 1 /\ (i > 1 => S[i - 1] <= y) /\ (i < n + 1 => y < S[i])
    BY LeafBounds
  <2> QED BY <1>0, <2>1
<1>5. low \cup high \subseteq 1 .. N /\ h \in Nat
  <2>1. LeafOK(N, v[K[i]])
    BY <1>1, <1>4
  <2> QED BY <1>0, <2>1 DEF LeafOK
<1>t. K \in Seq(Nat) /\ S \in Seq(Nat) /\ Len(K) = n + 1 /\ Len(S) = n /\ n \in Nat
  BY <1>1
<1> HIDE DEF i, K, S
<1>i. i \in Int /\ n \in Int /\ 1 <= i /\ i <= n + 1
  BY <1>t, <1>4
<1>6. /\ L \in Seq(Nat) /\ Len(L) = n + 2 /\ L[i + 1] = f
      /\ \A j \in 1 .. i : L[j] = K[j]
      /\ \A j \in i + 2 .. n + 2 : L[j] = K[j - 1]
  <2>1. i + 1 \in 1 .. Len(K) + 1 /\ Len(K) + 1 = n + 2 /\ (i + 1) - 1 = i /\ (i + 1) + 1 = i + 2
    <3>1. n \in Int /\ Len(K) = n + 1
      BY <1>t
    <3>2. i \in Int /\ 1 <= i /\ i <= n + 1
      BY <1>i
    <3> HIDE DEF n
    <3> QED BY <3>1, <3>2
  <2>2. L = InsertAt(K, i + 1, f)
    BY DEF NewKids, i, K
  <2> HIDE DEF L, n
  <2> DEFINE k == i + 1
  <2> HIDE DEF k
  <2>3. k \in 1 .. Len(K) + 1
    BY <2>1 DEF k
  <2>4. IsInserted(InsertAt(K, k, f), K, k, f)
    BY <1>t, <2>3, Inserted
  <2>5. /\ L \in Seq(Nat) /\ Len(L) = Len(K) + 1 /\ L[k] = f
        /\ \A j \in 1 .. k - 1 : L[j] = K[j]
        /\ \A j \in k + 1 .. Len(K) + 1 : L[j] = K[j - 1]
    BY <2>2, <2>4 DEF k, IsInserted
  <2> QED BY <2>1, <2>5 DEF k
<1>7. /\ T \in Seq(Nat) /\ Len(T) = n + 1 /\ T[i] = h
      /\ \A j \in 1 .. i - 1 : T[j] = S[j]
      /\ \A j \in i + 1 .. n + 1 : T[j] = S[j - 1]
  <2>1. i \in 1 .. Len(S) + 1
    BY <1>t, <1>4
  <2>2. T = InsertAt(S, i, h)
    BY DEF NewSeps, i, S
  <2> HIDE DEF T, n
  <2>3. IsInserted(InsertAt(S, i, h), S, i, h)
    BY <1>t, <1>5, <2>1, Inserted
  <2> QED BY <1>t, <2>2, <2>3 DEF IsInserted
<1>8. u[r] = Branch(L, T) /\ u[r].rows = {} /\ u[r].kids = L /\ u[r].keys = T
  BY NodeFields
<1>9. /\ u[leaf].rows = low /\ u[f].rows = high /\ LeafOK(N, u[leaf]) /\ LeafOK(N, u[f])
  <2>1. low \subseteq 1 .. N /\ high \subseteq 1 .. N
    BY <1>5
  <2>2. u[leaf] = Leaf(low)
    BY DEF i, K
  <2>3. LeafOK(N, Leaf(low)) /\ LeafOK(N, Leaf(high))
    BY <2>1, LeafIsOK
  <2>4. Leaf(low).rows = low /\ Leaf(high).rows = high
    BY NodeFields
  <2> QED BY <2>2, <2>3, <2>4
<1>10. f # r /\ \A a \in DOMAIN K : K[a] # f
  BY <1>2
<1>11. \A a \in DOMAIN K : a # i => u[K[a]] = v[K[a]]
  <2>1. \A a \in DOMAIN K : a # i => K[a] # leaf /\ K[a] # r /\ K[a] \in PagesFrom(v, r)
    BY ZenonT(30), <1>1, <1>2, <1>4
  <2>2. \A p \in PagesFrom(v, r) : p # leaf /\ p # r => u[p] = v[p]
    BY DEF i, K
  <2> QED BY <2>1, <2>2
<1>12. DOMAIN L = 1 .. n + 2 /\ DOMAIN T = 1 .. n + 1
  BY <1>6, <1>7
<1>13. f \in DOMAIN u /\ \A a \in DOMAIN K : K[a] \in DOMAIN u
  BY <1>2
<1>14. r \in DOMAIN u
  BY <1>2
<1> HIDE DEF L, T, n
\* Where a child of the new branch comes from.
<1>15. \A j \in 1 .. n + 2 : \/ j < i /\ j \in DOMAIN K /\ L[j] = K[j]
                             \/ j = i /\ j \in DOMAIN K /\ L[j] = K[i]
                             \/ j = i + 1 /\ L[j] = f
                             \/ j > i + 1 /\ j - 1 \in DOMAIN K /\ j - 1 # i /\ L[j] = K[j - 1]
  <2> SUFFICES ASSUME NEW j \in 1 .. n + 2
               PROVE  \/ j < i /\ j \in DOMAIN K /\ L[j] = K[j]
                      \/ j = i /\ j \in DOMAIN K /\ L[j] = K[i]
                      \/ j = i + 1 /\ L[j] = f
                      \/ j > i + 1 /\ j - 1 \in DOMAIN K /\ j - 1 # i /\ L[j] = K[j - 1]
    OBVIOUS
  <2>1. CASE j <= i
    BY <2>1, <1>i, <1>1, <1>6
  <2>2. CASE j = i + 1
    BY <2>2, <1>6
  <2>3. CASE j > i + 1
    BY <2>3, <1>i, <1>1, <1>6
  <2> QED BY <2>1, <2>2, <2>3, <1>i
<1>16. \A j \in DOMAIN L : L[j] \in DOMAIN u /\ L[j] # r /\ LeafOK(N, u[L[j]])
  <2>1. \A a \in DOMAIN K : LeafOK(N, u[K[a]]) /\ K[a] # r
    BY <1>1, <1>9, <1>11
  <2> QED BY <1>9, <1>10, <1>12, <1>13, <1>15, <2>1
<1>17. \A j, k \in DOMAIN L : L[j] = L[k] => j = k
  <2>1. \A a, b \in DOMAIN K : K[a] = K[b] => a = b
    BY <1>1
  <2>2. i \in DOMAIN K
    BY <1>1, <1>4
  <2> SUFFICES ASSUME NEW j \in 1 .. n + 2, NEW k \in 1 .. n + 2, L[j] = L[k] PROVE j = k
    BY <1>12
  <2>3. j \in Int /\ k \in Int
    BY <1>i
  <2>4. \/ j = i + 1 /\ L[j] = f
        \/ \E a \in DOMAIN K : L[j] = K[a] /\ ((a <= i /\ j = a) \/ (a > i /\ j = a + 1))
    BY <1>15, <1>i, <2>2, <2>3
  <2>5. \/ k = i + 1 /\ L[k] = f
        \/ \E a \in DOMAIN K : L[k] = K[a] /\ ((a <= i /\ k = a) \/ (a > i /\ k = a + 1))
    BY <1>15, <1>i, <2>2, <2>3
  <2>6. \A a \in DOMAIN K : a \in Int
    BY <1>t, <1>1
  <2> QED BY <1>10, <1>i, <2>1, <2>4, <2>5, <2>6
<1>18. \A j, k \in DOMAIN T : j < k => T[j] <= T[k]
  <2> SUFFICES ASSUME NEW j \in 1 .. n + 1, NEW k \in 1 .. n + 1, j < k PROVE T[j] <= T[k]
    BY <1>12
  <2>0. /\ j \in Int /\ k \in Int /\ 1 <= j /\ j <= n + 1 /\ 1 <= k /\ k <= n + 1
        /\ \A a, b \in DOMAIN S : a < b => S[a] <= S[b]
        /\ \A a \in DOMAIN S : S[a] \in Int
    <3>1. j \in Int /\ k \in Int /\ 1 <= j /\ j <= n + 1 /\ 1 <= k /\ k <= n + 1
      BY <1>i
    <3> QED BY <1>1, <3>1
  <2>d. \A a : a \in Int /\ 1 <= a /\ a <= n => a \in DOMAIN S
    BY <1>1, <1>t
  <2>1. CASE k < i
    <3>1. k \in DOMAIN S /\ j \in DOMAIN S /\ k \in 1 .. i - 1 /\ j \in 1 .. i - 1
      BY <2>0, <2>1, <2>d, <1>i
    <3>2. T[j] = S[j] /\ T[k] = S[k]
      BY <3>1, <1>7
    <3> QED BY <2>0, <3>1, <3>2
  <2>2. CASE k = i
    <3>0. j \in 1 .. i - 1 /\ j \in DOMAIN S /\ i - 1 \in DOMAIN S /\ i > 1 /\ (j = i - 1 \/ j < i - 1)
      BY <2>0, <2>2, <2>d, <1>i
    <3>1. T[k] = h /\ T[j] = S[j]
      BY <2>2, <3>0, <1>7
    <3>2. S[i - 1] <= h
      BY <3>0, <1>0, <1>4
    <3>3. S[j] <= S[i - 1]
      BY <2>0, <3>0
    <3> QED BY <2>0, <1>5, <3>0, <3>1, <3>2, <3>3
  <2>3. CASE k > i /\ j < i
    <3>0. /\ j \in 1 .. i - 1 /\ k \in i + 1 .. n + 1
          /\ j \in DOMAIN S /\ k - 1 \in DOMAIN S /\ j < k - 1
      BY <2>0, <2>3, <2>d, <1>i
    <3>1. T[k] = S[k - 1] /\ T[j] = S[j]
      BY <3>0, <1>7
    <3> QED BY <2>0, <3>0, <3>1
  <2>4. CASE k > i /\ j = i
    <3>0. /\ k \in i + 1 .. n + 1 /\ i \in DOMAIN S /\ k - 1 \in DOMAIN S /\ i < n + 1
          /\ (i = k - 1 \/ i < k - 1)
      BY <2>0, <2>4, <2>d, <1>i
    <3>1. T[k] = S[k - 1] /\ T[j] = h
      BY <2>4, <3>0, <1>7
    <3>2. h < S[i]
      BY <3>0, <1>0, <1>4
    <3>3. S[i] <= S[k - 1]
      BY <2>0, <3>0
    <3> QED BY <2>0, <1>5, <3>0, <3>1, <3>2, <3>3
  <2>5. CASE k > i /\ j > i
    <3>0. /\ k \in i + 1 .. n + 1 /\ j \in i + 1 .. n + 1
          /\ j - 1 \in DOMAIN S /\ k - 1 \in DOMAIN S /\ j - 1 < k - 1
      BY <2>0, <2>5, <2>d, <1>i
    <3>1. T[k] = S[k - 1] /\ T[j] = S[j - 1]
      BY <3>0, <1>7
    <3> QED BY <2>0, <3>0, <3>1
  <2> QED BY <2>0, <2>1, <2>2, <2>3, <2>4, <2>5, <1>i
<1>19. \A j \in DOMAIN L : \A y \in u[L[j]].rows : (j > 1 => T[j - 1] <= y) /\ (j < Len(L) => y < T[j])
  <2> SUFFICES ASSUME NEW j \in 1 .. n + 2, NEW y \in u[L[j]].rows
               PROVE  (j > 1 => T[j - 1] <= y) /\ (j < n + 2 => y < T[j])
    BY <1>6, <1>12
  <2>0. j \in Int /\ 1 <= j /\ j <= n + 2
    BY <1>i
  <2>1. CASE j < i
    <3>1. y \in v[K[j]].rows /\ j \in DOMAIN K
      BY <2>0, <2>1, <1>11, <1>15, <1>i
    <3>2. (j > 1 => S[j - 1] <= y) /\ (j < n + 1 => y < S[j])
      BY <3>1, <1>1
    <3>3. T[j] = S[j] /\ (j > 1 => T[j - 1] = S[j - 1])
      <4>1. j \in 1 .. i - 1 /\ (j > 1 => j - 1 \in 1 .. i - 1)
        BY <2>0, <2>1, <1>i
      <4> QED BY <4>1, <1>7
    <3> QED BY <2>0, <2>1, <3>2, <3>3, <1>i
  <2>2. CASE j = i
    <3>1. y \in low
      BY <2>0, <2>2, <1>9, <1>15, <1>i
    <3>2. T[j] = h /\ (j > 1 => T[j - 1] = S[j - 1])
      BY SMTT(30), <2>0, <2>2, <1>7, <1>i
    <3> QED BY <2>0, <2>2, <3>1, <3>2, <1>0, <1>4, <1>i
  <2>3. CASE j = i + 1
    <3>1. y \in high
      BY <2>0, <2>3, <1>9, <1>15, <1>i
    <3>2. T[j - 1] = h /\ (j < n + 2 => T[j] = S[i] /\ i < n + 1)
      <4>1. j - 1 = i /\ (j < n + 2 => j \in i + 1 .. n + 1 /\ i < n + 1)
        BY <2>0, <2>3, <1>i
      <4> QED BY <4>1, <1>7
    <3> QED BY <2>0, <2>3, <3>1, <3>2, <1>0, <1>4, <1>i
  <2>4. CASE j > i + 1
    <3>1. y \in v[K[j - 1]].rows /\ j - 1 \in DOMAIN K
      BY <2>0, <2>4, <1>11, <1>15, <1>i
    <3>2. (j - 1 > 1 => S[j - 1 - 1] <= y) /\ (j - 1 < n + 1 => y < S[j - 1])
      BY <3>1, <1>1
    <3>3. T[j - 1] = S[j - 1 - 1] /\ (j < n + 2 => T[j] = S[j - 1])
      <4>1. j - 1 \in i + 1 .. n + 1 /\ (j < n + 2 => j \in i + 1 .. n + 1)
        BY <2>0, <2>4, <1>i
      <4> QED BY <4>1, <1>7
    <3> QED BY <2>0, <2>4, <3>2, <3>3, <1>i
  <2> QED BY <2>0, <2>1, <2>2, <2>3, <2>4, <1>i
<1>20. BranchOK(N, u, r)
  <2>1. Len(L) = Len(T) + 1
    BY <1>6, <1>7, <1>i
  <2> QED BY <2>1, <1>6, <1>7, <1>8, <1>16, <1>17, <1>18, <1>19 DEF BranchOK
<1>21. TreeOK(N, u, r)
  <2>1. L # <<>>
    BY <1>6, <1>i
  <2> QED BY <2>1, <1>8, <1>14, <1>20 DEF TreeOK, IsLeaf
<1>22. {L[j] : j \in DOMAIN L} = {K[a] : a \in DOMAIN K} \cup {f}
  <2>1. \A a \in DOMAIN K : \E j \in DOMAIN L : L[j] = K[a]
    <3> SUFFICES ASSUME NEW a \in DOMAIN K PROVE \E j \in DOMAIN L : L[j] = K[a]
      OBVIOUS
    <3>1. CASE a <= i
      <4>1. a \in 1 .. i /\ a \in DOMAIN L
        BY <3>1, <1>1, <1>12, <1>i
      <4> QED BY <4>1, <1>6
    <3>2. CASE a > i
      <4>0. a \in Int /\ a <= n + 1
        BY <1>1, <1>t
      <4> DEFINE b == a + 1
      <4>1. b \in DOMAIN L /\ b \in i + 2 .. n + 2 /\ b - 1 = a
        BY <3>2, <4>0, <1>12, <1>i
      <4> HIDE DEF b
      <4>2. L[b] = K[b - 1]
        BY <4>1, <1>6
      <4> QED BY <4>1, <4>2
    <3> QED BY <3>1, <3>2, <1>1, <1>i
  <2>2. i + 1 \in DOMAIN L /\ L[i + 1] = f
    BY <1>6, <1>12, <1>i
  <2>3. \A j \in DOMAIN L : L[j] = f \/ \E a \in DOMAIN K : L[j] = K[a]
    BY <1>12, <1>15
  <2> QED BY <2>1, <2>2, <2>3
<1>23. PagesFrom(u, r) = {r} \cup {L[j] : j \in DOMAIN L}
  BY <1>8 DEF PagesFrom
<1>24. RowsFrom(u, r) = UNION {u[q].rows : q \in {L[j] : j \in DOMAIN L}}
  BY <1>8 DEF RowsFrom
<1>25. low \cup high = v[K[i]].rows \cup {x}
  BY <1>0
<1>26. RowsFrom(u, r) = (UNION {u[K[a]].rows : a \in DOMAIN K}) \cup high
  BY <1>9, <1>22, <1>24
<1>27. (UNION {u[K[a]].rows : a \in DOMAIN K}) \cup high = (UNION {v[K[a]].rows : a \in DOMAIN K}) \cup {x}
  <2>1. i \in DOMAIN K
    BY <1>1, <1>4
  <2>2. ASSUME NEW y, y \in (UNION {u[K[a]].rows : a \in DOMAIN K}) \cup high
        PROVE  y \in (UNION {v[K[a]].rows : a \in DOMAIN K}) \cup {x}
    <3>1. CASE y \in high
      BY <3>1, <2>1, <1>25
    <3>2. CASE \E a \in DOMAIN K : y \in u[K[a]].rows
      <4>1. PICK a \in DOMAIN K : y \in u[K[a]].rows
        BY <3>2
      <4>2. CASE a = i
        BY <4>1, <4>2, <2>1, <1>9, <1>25
      <4>3. CASE a # i
        BY <4>1, <4>3, <1>11
      <4> QED BY <4>2, <4>3
    <3> QED BY <2>2, <3>1, <3>2
  <2>3. ASSUME NEW y, y \in (UNION {v[K[a]].rows : a \in DOMAIN K}) \cup {x}
        PROVE  y \in (UNION {u[K[a]].rows : a \in DOMAIN K}) \cup high
    <3>1. CASE y \in v[K[i]].rows \cup {x}
      BY <3>1, <2>1, <1>9, <1>25
    <3>2. CASE \E a \in DOMAIN K : a # i /\ y \in v[K[a]].rows
      BY <3>2, <1>11
    <3> QED BY <2>3, <3>1, <3>2
  <2> QED BY <2>2, <2>3
<1>28. RowsFrom(u, r) = RowsFrom(v, r) \cup {x}
  BY <1>3, <1>26, <1>27
<1>29. PagesFrom(u, r) = PagesFrom(v, r) \cup {f}
  BY <1>2, <1>22, <1>23
<1> QED BY <1>21, <1>28, <1>29

\* What the pages u after the insertion of row x under root r hold: a tree of the
\* old rows and x, of the old pages and the allocated ones.
InsertDone(N, v, r, x, f, u) ==
    LET w == TreeInsert(v, r, x, f)
    IN  /\ w.allocated \in Nat /\ w.root \in Nat
        /\ TreeOK(N, u, w.root)
        /\ RowsFrom(u, w.root) = RowsFrom(v, r) \cup {x}
        /\ PagesFrom(u, w.root) = PagesFrom(v, r) \cup (f .. f + w.allocated - 1)
        /\ DOMAIN w.writes \subseteq PagesFrom(u, w.root)
        /\ f .. f + w.allocated - 1 \subseteq DOMAIN w.writes

\* The pages u are the pages v with an insertion's pages over them.
InsertWrites(v, r, x, f, u) ==
    LET w == TreeInsert(v, r, x, f)
    IN  /\ \A p \in DOMAIN w.writes : p \in DOMAIN u /\ u[p] = w.writes[p]
        /\ \A p \in PagesFrom(v, r) : p \in DOMAIN u /\ (p \notin DOMAIN w.writes => u[p] = v[p])

LEMMA InsertTree ==
    ASSUME NEW N \in Nat, NEW v, NEW r \in Nat, TreeOK(N, v, r), NEW x \in 1 .. N, NEW f \in Nat,
           \A p \in PagesFrom(v, r) : p \in Nat /\ p < f, NEW u, InsertWrites(v, r, x, f, u)
    PROVE  InsertDone(N, v, r, x, f, u)
<1> DEFINE w == TreeInsert(v, r, x, f)
           leaf == LeafOf(v, r, x)
           all == v[leaf].rows \cup {x}
           n == Cardinality(all) \div 2
           low == Smallest(all, n)
           high == all \ low
           h == Least(high)
<1>1. leaf \in PagesFrom(v, r) /\ leaf \in DOMAIN v /\ LeafOK(N, v[leaf]) /\ (leaf = r <=> IsLeaf(v[r]))
  BY LeafFound
<1>2. all \subseteq 1 .. N /\ IsFiniteSet(all) /\ Cardinality(all) \in Nat
  <2>1. all \subseteq 1 .. N
    BY <1>1 DEF LeafOK
  <2>2. IsFiniteSet(1 .. N)
    BY FS_Interval
  <2>3. IsFiniteSet(all)
    BY <2>1, <2>2, FS_Subset
  <2> QED BY <2>1, <2>3, FS_CardinalityType
<1>3. v[leaf].rows \subseteq RowsFrom(v, r)
  <2>1. v[leaf].rows \subseteq RowsFrom(v, leaf)
    BY DEF RowsFrom
  <2> QED BY <1>1, <2>1, SubTree
<1>4. /\ \A p \in DOMAIN w.writes : p \in DOMAIN u /\ u[p] = w.writes[p]
      /\ \A p \in PagesFrom(v, r) : p \in DOMAIN u /\ (p \notin DOMAIN w.writes => u[p] = v[p])
  BY DEF InsertWrites
<1>5. CASE Cardinality(all) <= Cap
  <2>1. w = [writes |-> [p \in {leaf} |-> Leaf(all)], allocated |-> 0, root |-> r]
    BY <1>5 DEF TreeInsert
  <2> HIDE DEF w
  <2>2. DOMAIN w.writes = {leaf} /\ w.writes[leaf] = Leaf(all) /\ w.allocated = 0 /\ w.root = r
    BY <2>1
  <2>3. u[leaf] = Leaf(all) /\ \A p \in PagesFrom(v, r) : p \in DOMAIN u /\ (p # leaf => u[p] = v[p])
    BY <2>2, <1>4
  <2>4. /\ TreeOK(N, u, r) /\ PagesFrom(u, r) = PagesFrom(v, r)
        /\ RowsFrom(u, r) = (RowsFrom(v, r) \ v[leaf].rows) \cup all
    BY <2>3, LeafReplaced
  <2>5. f .. f + 0 - 1 = {}
    OBVIOUS
  <2> HIDE DEF leaf
  <2>6. RowsFrom(u, r) = RowsFrom(v, r) \cup {x}
    BY <2>4, <1>3
  <2> QED BY <2>2, <2>4, <2>5, <2>6, <1>1 DEF InsertDone, w
<1>6. CASE Cardinality(all) > Cap
  <2>1. Cardinality(all) > 1 /\ n = Cardinality(all) \div 2
    BY <1>2, <1>6, CapAssumption
  <2> HIDE DEF n
  <2>2. IsSplit(all, low, high, h)
    <3> HIDE DEF all
    <3> QED BY <2>1, <1>2, Halves DEF n
  <2> HIDE DEF low, h
  <2>4. leaf \in Nat /\ leaf < f
    BY <1>1
  <2>5. CASE leaf = r
    <3>1. w = [writes |-> [p \in {r, f, f + 1} |->
                            IF p = r THEN Leaf(low) ELSE IF p = f THEN Leaf(high)
                            ELSE Branch(<<r, f>>, <<h>>)],
               allocated |-> 2, root |-> f + 1]
      <4>1. ~(Cardinality(all) <= Cap)
        BY <1>2, <1>6, CapAssumption
      <4> QED BY <4>1, <2>5 DEF TreeInsert, low, n, h
    <3> HIDE DEF w, leaf
    <3>2. /\ DOMAIN w.writes = {r, f, f + 1} /\ w.allocated = 2 /\ w.root = f + 1
          /\ w.writes[r] = Leaf(low)
          /\ w.writes[f] = Leaf(high)
          /\ w.writes[f + 1] = Branch(<<r, f>>, <<h>>)
      <4>1. r # f /\ r # f + 1 /\ f # f + 1
        BY <2>4, <2>5
      <4> QED BY <3>1, <4>1
    <3>3. RootSplitPages(u, r, f, low, high, h) /\ r < f
      BY <3>2, <1>4, <2>4, <2>5 DEF RootSplitPages
    <3>a. all \subseteq 1 .. N
      BY <1>2
    <3>4. TreeOK(N, u, f + 1) /\ RowsFrom(u, f + 1) = all /\ PagesFrom(u, f + 1) = {r, f, f + 1}
      <4> HIDE DEF all, high
      <4>1. RootSplitDone(N, u, r, f, all)
        <5>1. IsSplit(all, low, high, h)
          BY <2>2
        <5>2. RootSplitPages(u, r, f, low, high, h)
          BY <3>3
        <5>3. r < f
          BY <3>3
        <5>4. all \subseteq 1 .. N
          BY <3>a
        <5> QED BY <5>1, <5>2, <5>3, <5>4, RootSplit
      <4> QED BY <4>1 DEF RootSplitDone
    <3>5. PagesFrom(v, r) = {r} /\ RowsFrom(v, r) = v[leaf].rows
      BY <1>1, <2>5, LeafIs
    <3>6. f .. f + 2 - 1 = {f, f + 1}
      OBVIOUS
    <3> QED BY <3>2, <3>4, <3>5, <3>6 DEF InsertDone, w
  <2>6. CASE leaf # r
    <3> DEFINE i == ChildIndex(v[r], x)
               L == NewKids(v, r, x, f)
               T == NewSeps(v, r, x, h)
    <3>1. leaf = Kids(v, r)[i]
      BY <1>1, <2>6 DEF LeafOf, Kids
    <3>2. w = [writes |-> [p \in {leaf, f, r} |->
                            IF p = leaf THEN Leaf(low) ELSE IF p = f THEN Leaf(high) ELSE Branch(L, T)],
               allocated |-> 1, root |-> r]
      <4>1. ~(Cardinality(all) <= Cap)
        BY <1>2, <1>6, CapAssumption
      <4> QED BY <4>1, <2>6 DEF TreeInsert, low, n, h, NewKids, NewSeps, Kids, Seps
    <3>3. BranchOK(N, v, r)
      BY <1>1, <2>6 DEF TreeOK
    <3>4. r \in PagesFrom(v, r)
      BY DEF PagesFrom
    <3> HIDE DEF w, L, T
    <3>5. /\ DOMAIN w.writes = {leaf, f, r} /\ w.allocated = 1 /\ w.root = r
          /\ w.writes[leaf] = Leaf(low)
          /\ w.writes[f] = Leaf(high)
          /\ w.writes[r] = Branch(L, T)
      <4>1. r # f /\ leaf # f
        BY <2>4, <3>4
      <4> QED BY <3>2, <4>1, <2>6
    <3>6. /\ u[leaf] = Leaf(low) /\ u[f] = Leaf(high) /\ u[r] = Branch(L, T)
          /\ f \in DOMAIN u /\ \A p \in PagesFrom(v, r) : p \in DOMAIN u
          /\ \A p \in PagesFrom(v, r) \ {leaf, r} : u[p] = v[p]
      <4>1. \A p \in PagesFrom(v, r) : p # f
        OBVIOUS
      <4> QED BY <3>5, <4>1, <1>4
    <3>7. f \notin PagesFrom(v, r)
      OBVIOUS
    <3>8. /\ TreeOK(N, u, r) /\ RowsFrom(u, r) = RowsFrom(v, r) \cup {x}
          /\ PagesFrom(u, r) = PagesFrom(v, r) \cup {f}
      <4>1. IsSplit(v[Kids(v, r)[i]].rows \cup {x}, low, high, h)
        BY <2>2, <3>1
      <4> HIDE DEF all, high
      <4> QED BY SMTT(30), <4>1, <3>1, <3>3, <3>6, <3>7, ChildSplit DEF L, T
    <3>9. f .. f + 1 - 1 = {f}
      OBVIOUS
    <3> QED BY <3>4, <3>5, <3>8, <3>9, <1>1 DEF InsertDone, w
  <2> QED BY <2>5, <2>6
<1> QED BY <1>2, <1>5, <1>6, CapAssumption

-----------------------------------------------------------------------------
(* Trees that share no page. *)

\* The trees with the roots R, all below page n.
Forest(N, I, v, R, n) ==
    /\ \A i \in I : TreeOK(N, v, R[i]) /\ PagesFrom(v, R[i]) \subseteq 1 .. n - 1
    /\ \A i, j \in I : i # j => PagesFrom(v, R[i]) \cap PagesFrom(v, R[j]) = {}

\* The roots after tree a has moved to root q.
Moved(I, R, a, q) == [i \in I |-> IF i = a THEN q ELSE R[i]]

\* u is the view v with the pages w over it.
IsOver(u, w, v) ==
    /\ \A p \in DOMAIN w : p \in DOMAIN u /\ u[p] = w[p]
    /\ \A p \in DOMAIN v : p \in DOMAIN u /\ (p \notin DOMAIN w => u[p] = v[p])

\* A tree's pages are pages of the view.
LEMMA TreePages ==
    ASSUME NEW N \in Nat, NEW v, NEW r, TreeOK(N, v, r)
    PROVE  r \in PagesFrom(v, r) /\ PagesFrom(v, r) \subseteq DOMAIN v
<1>1. r \in PagesFrom(v, r)
  BY DEF PagesFrom
<1>2. PagesFrom(v, r) \subseteq DOMAIN v
  BY SubTree
<1> QED BY <1>1, <1>2

\* A write that keeps to the pages of tree a and to new pages leaves the others alone.
LEMMA OthersKept ==
    ASSUME NEW N \in Nat, NEW I, NEW v, NEW R, NEW n \in Nat, Forest(N, I, v, R, n), NEW a \in I,
           NEW u, NEW w, IsOver(u, w, v),
           \A p \in DOMAIN w : p \in PagesFrom(v, R[a]) \/ ~(p \in 1 .. n - 1),
           NEW b \in I, b # a
    PROVE  /\ TreeOK(N, u, R[b]) /\ RowsFrom(u, R[b]) = RowsFrom(v, R[b])
           /\ PagesFrom(u, R[b]) = PagesFrom(v, R[b])
<1>1. TreeOK(N, v, R[b]) /\ PagesFrom(v, R[b]) \subseteq 1 .. n - 1
  BY DEF Forest
<1>2. PagesFrom(v, R[b]) \cap PagesFrom(v, R[a]) = {}
  BY DEF Forest
<1>3. PagesFrom(v, R[b]) \subseteq DOMAIN v
  BY <1>1, TreePages
<1>4. \A p \in PagesFrom(v, R[b]) : p \notin DOMAIN w
  BY <1>1, <1>2
<1>5. \A p \in PagesFrom(v, R[b]) : p \in DOMAIN u /\ u[p] = v[p]
  BY <1>3, <1>4 DEF IsOver
<1> QED BY <1>1, <1>5, TreeFrame

\* A row inserted into tree a of a forest.
ForestInserted(N, I, v, R, n, a, x, u) ==
    LET w == TreeInsert(v, R[a], x, n)
    IN  /\ w.allocated \in Nat /\ w.root \in Nat
        /\ Forest(N, I, u, Moved(I, R, a, w.root), n + w.allocated)
        /\ RowsFrom(u, w.root) = RowsFrom(v, R[a]) \cup {x}
        /\ PagesFrom(u, w.root) = PagesFrom(v, R[a]) \cup (n .. n + w.allocated - 1)
        /\ DOMAIN w.writes \subseteq PagesFrom(u, w.root)
        /\ n .. n + w.allocated - 1 \subseteq DOMAIN w.writes
        /\ \A b \in I \ {a} : /\ RowsFrom(u, R[b]) = RowsFrom(v, R[b])
                              /\ PagesFrom(u, R[b]) = PagesFrom(v, R[b])

LEMMA ForestInsert ==
    ASSUME NEW N \in Nat, NEW I, NEW v, NEW R, NEW n \in Nat, Forest(N, I, v, R, n), NEW a \in I,
           NEW x \in 1 .. N, n > 0, NEW u, IsOver(u, TreeInsert(v, R[a], x, n).writes, v)
    PROVE  ForestInserted(N, I, v, R, n, a, x, u)
<1> DEFINE r == R[a]
           w == TreeInsert(v, r, x, n)
           Q == Moved(I, R, a, w.root)
<1>1. TreeOK(N, v, r) /\ PagesFrom(v, r) \subseteq 1 .. n - 1
  BY DEF Forest
<1>2. r \in PagesFrom(v, r) /\ PagesFrom(v, r) \subseteq DOMAIN v
  BY <1>1, TreePages
<1>3. r \in Nat /\ \A p \in PagesFrom(v, r) : p \in Nat /\ p < n
  <2>1. \A p \in 1 .. n - 1 : p \in Nat /\ p < n
    OBVIOUS
  <2> QED BY <1>1, <1>2, <2>1
<1>4. InsertWrites(v, r, x, n, u)
  BY <1>2 DEF InsertWrites, IsOver
<1>5. InsertDone(N, v, r, x, n, u)
  BY <1>1, <1>3, <1>4, InsertTree
<1>6. /\ w.allocated \in Nat /\ w.root \in Nat
      /\ TreeOK(N, u, w.root)
      /\ RowsFrom(u, w.root) = RowsFrom(v, r) \cup {x}
      /\ PagesFrom(u, w.root) = PagesFrom(v, r) \cup (n .. n + w.allocated - 1)
      /\ DOMAIN w.writes \subseteq PagesFrom(u, w.root)
      /\ n .. n + w.allocated - 1 \subseteq DOMAIN w.writes
  BY <1>5 DEF InsertDone
<1> DEFINE al == w.allocated
           ws == w.writes
           q == w.root
<1>d. IsOver(u, ws, v)
  OBVIOUS
<1> HIDE DEF w, al, ws, q
<1>7. \A p \in n .. n + al - 1 : ~(p \in 1 .. n - 1)
  BY <1>6 DEF al
<1>8. \A p \in DOMAIN ws : p \in PagesFrom(v, r) \/ ~(p \in 1 .. n - 1)
  BY <1>6, <1>7 DEF al, ws
<1>9. \A b \in I \ {a} : /\ TreeOK(N, u, R[b]) /\ RowsFrom(u, R[b]) = RowsFrom(v, R[b])
                         /\ PagesFrom(u, R[b]) = PagesFrom(v, R[b])
  BY <1>8, <1>d, OthersKept
<1>10. 1 .. n - 1 \subseteq 1 .. n + al - 1 /\ n .. n + al - 1 \subseteq 1 .. n + al - 1
  BY <1>6 DEF al
<1>11. Q[a] = q /\ \A b \in I \ {a} : Q[b] = R[b]
  BY DEF Moved, q
<1> HIDE DEF Q
<1>12. \A b \in I \ {a} : PagesFrom(v, R[b]) \subseteq 1 .. n - 1
  BY DEF Forest
<1>13. \A i \in I : TreeOK(N, u, Q[i]) /\ PagesFrom(u, Q[i]) \subseteq 1 .. n + al - 1
  <2>1. TreeOK(N, u, q) /\ PagesFrom(u, q) \subseteq 1 .. n + al - 1
    BY <1>1, <1>6, <1>10 DEF q, al
  <2>2. \A b \in I \ {a} : TreeOK(N, u, R[b]) /\ PagesFrom(u, R[b]) \subseteq 1 .. n + al - 1
    BY <1>9, <1>10, <1>12
  <2> QED BY <2>1, <2>2, <1>11
<1>14. \A b \in I \ {a} : PagesFrom(u, q) \cap PagesFrom(u, R[b]) = {}
  <2>1. \A b \in I \ {a} : PagesFrom(v, r) \cap PagesFrom(v, R[b]) = {}
    BY DEF Forest
  <2> QED BY <2>1, <1>6, <1>7, <1>9, <1>12 DEF q, al
<1>15. \A i, j \in I \ {a} : i # j => PagesFrom(u, R[i]) \cap PagesFrom(u, R[j]) = {}
  BY <1>9 DEF Forest
<1>16. \A i, j \in I : i # j => PagesFrom(u, Q[i]) \cap PagesFrom(u, Q[j]) = {}
  BY <1>11, <1>14, <1>15
<1>17. Forest(N, I, u, Q, n + al)
  <2> DEFINE m == n + al
  <2>0. m - 1 = n + al - 1
    BY <1>6 DEF al
  <2>1. \A i \in I : TreeOK(N, u, Q[i]) /\ PagesFrom(u, Q[i]) \subseteq 1 .. m - 1
    BY <1>13, <2>0
  <2> HIDE DEF m
  <2>2. Forest(N, I, u, Q, m)
    BY <2>1, <1>16 DEF Forest
  <2> QED BY <2>2 DEF m
<1> QED BY <1>6, <1>9, <1>17 DEF ForestInserted, w, al, Q, q

\* A row deleted from tree a of a forest.
ForestDeleted(N, I, v, R, n, a, x, u) ==
    LET w == TreeDelete(v, R[a], x)
    IN  /\ w.root = R[a] /\ w.allocated = 0
        /\ Forest(N, I, u, R, n)
        /\ RowsFrom(u, R[a]) = RowsFrom(v, R[a]) \ {x}
        /\ \A b \in I : PagesFrom(u, R[b]) = PagesFrom(v, R[b])
        /\ \A b \in I \ {a} : RowsFrom(u, R[b]) = RowsFrom(v, R[b])
        /\ DOMAIN w.writes \subseteq PagesFrom(v, R[a])

LEMMA ForestDelete ==
    ASSUME NEW N \in Nat, NEW I, NEW v, NEW R, NEW n \in Nat, Forest(N, I, v, R, n), NEW a \in I,
           NEW x \in 1 .. N, x \in v[LeafOf(v, R[a], x)].rows,
           NEW u, IsOver(u, TreeDelete(v, R[a], x).writes, v)
    PROVE  ForestDeleted(N, I, v, R, n, a, x, u)
<1> DEFINE r == R[a]
           w == TreeDelete(v, r, x)
<1>1. TreeOK(N, v, r) /\ PagesFrom(v, r) \subseteq 1 .. n - 1
  BY DEF Forest
<1>2. PagesFrom(v, r) \subseteq DOMAIN v
  BY <1>1, TreePages
<1>3. /\ \A p \in PagesFrom(v, r) : p \in DOMAIN u
      /\ \A p \in DOMAIN w.writes : u[p] = w.writes[p]
      /\ \A p \in PagesFrom(v, r) \ DOMAIN w.writes : u[p] = v[p]
  BY <1>2 DEF IsOver
<1>4. /\ w.root = r /\ w.allocated = 0
      /\ DOMAIN w.writes \subseteq PagesFrom(v, r)
      /\ TreeOK(N, u, r) /\ PagesFrom(u, r) = PagesFrom(v, r)
      /\ RowsFrom(u, r) = RowsFrom(v, r) \ {x}
  <2> HIDE DEF w
  <2> QED BY <1>1, <1>3, DeleteTree DEF w
<1> HIDE DEF w
<1>5. IsOver(u, w.writes, v)
  BY DEF w
<1>6. \A p \in DOMAIN w.writes : p \in PagesFrom(v, R[a]) \/ ~(p \in 1 .. n - 1)
  BY <1>4
<1>7. \A b \in I \ {a} : /\ TreeOK(N, u, R[b]) /\ RowsFrom(u, R[b]) = RowsFrom(v, R[b])
                         /\ PagesFrom(u, R[b]) = PagesFrom(v, R[b])
  BY <1>5, <1>6, OthersKept
<1>8. \A b \in I : TreeOK(N, u, R[b]) /\ PagesFrom(u, R[b]) = PagesFrom(v, R[b])
  BY <1>4, <1>7
<1>9. Forest(N, I, u, R, n)
  BY <1>8 DEF Forest
<1> QED BY <1>4, <1>7, <1>8, <1>9 DEF w, ForestDeleted
==============================================================================
