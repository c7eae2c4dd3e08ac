---------------------------- MODULE BPlusTreeProofs ----------------------------
(***************************************************************************)
(* What the operators of BPlusTree do, and what keeps a B+ tree a search   *)
(* tree, for trees of every size and depth: the row tree and the index     *)
(* tree rest on it (BTreeProofs).                                          *)
(***************************************************************************)
EXTENDS BPlusTree, FiniteSetTheorems, SequenceTheorems, WellFoundedInduction, TLAPS

-----------------------------------------------------------------------------
(* Numbers and sets of numbers. *)

LEMMA LeastNat ==
    ASSUME NEW S, S \subseteq Nat, S # {}
    PROVE  \E i \in S : \A j \in S : i <= j
<1> DEFINE R == OpToRel(<, Nat)
<1>1. \E i \in S : \A j \in S : ~(<<j, i>> \in R)
  BY NatLessThanWellFounded, WFMin
<1>2. \A i, j \in Nat : i < j => <<i, j>> \in R
  BY DEF OpToRel
<1>3. PICK i \in S : \A j \in S : ~(<<j, i>> \in R)
  BY <1>1
<1> HIDE DEF R
<1>4. \A j \in S : ~(j < i)
  BY <1>2, <1>3
<1> QED BY <1>4

LEMMA MinIs ==
    ASSUME NEW S, S \subseteq Nat, S # {}
    PROVE  Min(S) \in S /\ \A j \in S : Min(S) <= j
BY LeastNat DEF Min

\* A set of numbers up to b has a greatest one.
LEMMA GreatestNat ==
    ASSUME NEW b \in Nat, NEW S, S \subseteq 0 .. b, S # {}
    PROVE  \E i \in S : \A j \in S : j <= i
<1> DEFINE D == {b - i : i \in S}
<1>0. \A i \in S : i \in Int /\ b - i \in Nat
  OBVIOUS
<1>1. D \subseteq Nat /\ D # {}
  BY <1>0
<1> HIDE DEF D
<1>2. PICK a \in D : \A d \in D : a <= d
  BY <1>1, LeastNat
<1>3. PICK i \in S : a = b - i
  BY DEF D
<1>4. \A j \in S : a <= b - j
  BY <1>2 DEF D
<1> QED BY <1>0, <1>3, <1>4

\* Induction over the numbers from a to b, as a fact about a set.
LEMMA Upwards ==
    ASSUME NEW a \in Nat, NEW b \in Nat, NEW S,
           a \in S, \A n \in a .. b - 1 : n \in S => n + 1 \in S
    PROVE  \A n \in a .. b : n \in S
<1> DEFINE Bad == {n \in a .. b : n \notin S}
<1>1. SUFFICES ASSUME Bad # {} PROVE FALSE
  OBVIOUS
<1>2. Bad \subseteq Nat
  OBVIOUS
<1>3. PICK n \in Bad : \A m \in Bad : n <= m
  BY <1>1, <1>2, LeastNat
<1>4. n \in a .. b /\ n # a /\ n \notin S
  BY <1>3
<1>5. n - 1 \in a .. b - 1 /\ n - 1 \notin Bad
  BY <1>3, <1>4
<1>6. n - 1 \in S
  BY <1>5
<1> QED BY <1>4, <1>5, <1>6

\* Induction from all smaller numbers.
LEMMA FromSmaller ==
    ASSUME NEW b \in Nat, NEW S, \A n \in 0 .. b : (\A m \in 0 .. n - 1 : m \in S) => n \in S
    PROVE  \A n \in 0 .. b : n \in S
<1> DEFINE Bad == {n \in 0 .. b : n \notin S}
<1>1. SUFFICES ASSUME Bad # {} PROVE FALSE
  OBVIOUS
<1>2. Bad \subseteq Nat
  OBVIOUS
<1>3. PICK n \in Bad : \A m \in Bad : n <= m
  BY <1>1, <1>2, LeastNat
<1>4. \A m \in 0 .. n - 1 : m \in S
  <2> TAKE m \in 0 .. n - 1
  <2>1. m \notin Bad /\ m \in 0 .. b
    BY <1>3
  <2> QED BY <2>1
<1> QED BY <1>3, <1>4

\* The first matching place, or the place after the last.
LEMMA FirstOfIs ==
    ASSUME NEW n \in Nat, NEW above, above \subseteq 1 .. n
    PROVE  /\ FirstOf(n, above) \in 1 .. n + 1
           /\ FirstOf(n, above) <= n => FirstOf(n, above) \in above
           /\ \A i \in 1 .. n : i < FirstOf(n, above) => i \notin above
<1>1. CASE above = {}
  <2>1. FirstOf(n, above) = n + 1
    BY <1>1 DEF FirstOf
  <2>2. n + 1 \in 1 .. n + 1 /\ ~(n + 1 <= n)
    OBVIOUS
  <2> QED BY <1>1, <2>1, <2>2
<1>2. CASE above # {}
  <2>1. above \subseteq Nat
    OBVIOUS
  <2>2. Min(above) \in above /\ \A j \in above : Min(above) <= j
    BY <1>2, <2>1, MinIs
  <2>3. FirstOf(n, above) = Min(above)
    BY <1>2 DEF FirstOf
  <2> DEFINE m == Min(above)
  <2>4. m \in above /\ \A j \in above : m <= j
    BY <2>2
  <2> HIDE DEF m
  <2>5. m \in 1 .. n + 1 /\ m <= n /\ \A i \in 1 .. n : i < m => i \notin above
    BY <2>4
  <2> QED BY <2>3, <2>4, <2>5 DEF m
<1> QED BY <1>1, <1>2

-----------------------------------------------------------------------------
(* Sequences. *)

LEMMA FunctionIsSeq ==
    ASSUME NEW S, NEW n \in Nat, NEW f \in [1 .. n -> S]
    PROVE  f \in Seq(S)
BY SeqDef, Zenon

LEMMA SeqIsFunction ==
    ASSUME NEW S, NEW s \in Seq(S)
    PROVE  Len(s) \in Nat /\ DOMAIN s = 1 .. Len(s) /\ \A i \in 1 .. Len(s) : s[i] \in S
OBVIOUS

\* A part of a sequence.
LEMMA PartIs ==
    ASSUME NEW S, NEW s \in Seq(S), NEW m \in Nat, NEW n \in Nat, 1 <= m, m <= n + 1, n <= Len(s)
    PROVE  /\ SubSeq(s, m, n) \in Seq(S)
           /\ Len(SubSeq(s, m, n)) = n - m + 1
           /\ \A i \in 1 .. n - m + 1 : SubSeq(s, m, n)[i] = s[m + i - 1]
OBVIOUS

\* d is the sequence s with e put in at place i.
IsInserted(d, s, i, e) ==
    /\ Len(d) = Len(s) + 1
    /\ d[i] = e
    /\ \A j \in 1 .. i - 1 : d[j] = s[j]
    /\ \A j \in i + 1 .. Len(s) + 1 : d[j] = s[j - 1]

\* What InsertAt gives.
LEMMA Inserted ==
    ASSUME NEW S, NEW s \in Seq(S), NEW i \in 1 .. Len(s) + 1, NEW e \in S
    PROVE  InsertAt(s, i, e) \in Seq(S) /\ IsInserted(InsertAt(s, i, e), s, i, e)
<1> DEFINE a == SubSeq(s, 1, i - 1)
           b == <<e>>
           c == SubSeq(s, i, Len(s))
<1>1. Len(s) \in Nat /\ i \in Nat
  OBVIOUS
<1>2. a \in Seq(S) /\ Len(a) = i - 1 /\ \A j \in 1 .. i - 1 : a[j] = s[j]
  BY <1>1
<1>3. b \in Seq(S) /\ Len(b) = 1 /\ b[1] = e
  OBVIOUS
<1>4. c \in Seq(S) /\ Len(c) = Len(s) - i + 1 /\ \A j \in 1 .. Len(s) - i + 1 : c[j] = s[i + j - 1]
  BY <1>1
<1> HIDE DEF a, b, c
<1> DEFINE ab == a \o b
           d == ab \o c
<1>5. /\ ab \in Seq(S) /\ Len(ab) = i
      /\ \A j \in 1 .. i : ab[j] = IF j <= i - 1 THEN a[j] ELSE b[j - (i - 1)]
  <2>1. /\ ab \in Seq(S) /\ Len(ab) = Len(a) + Len(b)
        /\ \A j \in 1 .. Len(a) + Len(b) : ab[j] = IF j <= Len(a) THEN a[j] ELSE b[j - Len(a)]
    BY <1>2, <1>3, ConcatProperties
  <2>2. Len(a) + Len(b) = i
    BY <1>1, <1>2, <1>3
  <2> QED BY <1>2, <2>1, <2>2
<1> HIDE DEF ab
<1>6. /\ d \in Seq(S) /\ Len(d) = Len(s) + 1
      /\ \A j \in 1 .. Len(s) + 1 : d[j] = IF j <= i THEN ab[j] ELSE c[j - i]
  <2>1. /\ d \in Seq(S) /\ Len(d) = Len(ab) + Len(c)
        /\ \A j \in 1 .. Len(ab) + Len(c) : d[j] = IF j <= Len(ab) THEN ab[j] ELSE c[j - Len(ab)]
    BY <1>4, <1>5, ConcatProperties
  <2>2. Len(ab) + Len(c) = Len(s) + 1
    BY <1>1, <1>4, <1>5
  <2> QED BY <1>5, <2>1, <2>2
<1> HIDE DEF d
<1>7. d[i] = e
  <2>1. i - (i - 1) = 1 /\ ~(i <= i - 1) /\ i <= i /\ i \in 1 .. i /\ i \in 1 .. Len(s) + 1
    BY <1>1
  <2> QED BY <2>1, <1>3, <1>5, <1>6
<1>8. ASSUME NEW j \in 1 .. i - 1 PROVE d[j] = s[j]
  <2>1. j <= i - 1 /\ j <= i /\ j \in 1 .. i /\ j \in 1 .. Len(s) + 1
    BY <1>1
  <2> QED BY <2>1, <1>2, <1>5, <1>6
<1>9. ASSUME NEW j \in i + 1 .. Len(s) + 1 PROVE d[j] = s[j - 1]
  <2>1. ~(j <= i) /\ j \in 1 .. Len(s) + 1 /\ j - i \in 1 .. Len(s) - i + 1 /\ i + (j - i) - 1 = j - 1
    BY <1>1
  <2> QED BY <2>1, <1>4, <1>6
<1>10. InsertAt(s, i, e) = d
  BY DEF InsertAt, a, b, c, ab, d
<1> QED BY <1>6, <1>7, <1>8, <1>9, <1>10 DEF IsInserted

\* A sequence without repetition is as long as the set of its elements, and no
\* longer than any finite set that holds them.
LEMMA Distinct ==
    ASSUME NEW S, NEW s \in Seq(S), IsFiniteSet(S),
           \A i, j \in 1 .. Len(s) : s[i] = s[j] => i = j
    PROVE  /\ Len(s) <= Cardinality(S)
           /\ Cardinality({s[i] : i \in 1 .. Len(s)}) = Len(s)
<1> DEFINE D == 1 .. Len(s)
           I == {s[i] : i \in D}
<1>1. Len(s) \in Nat /\ s \in [D -> S]
  OBVIOUS
<1>2. IsFiniteSet(D) /\ Cardinality(D) = Len(s)
  BY <1>1, FS_Interval
<1>3. s \in Injection(D, S)
  BY <1>1 DEF Injection, IsInjective
<1>4. Cardinality(D) <= Cardinality(S)
  BY <1>2, <1>3, FS_Injection
<1>5. s \in Injection(D, I) /\ s \in Surjection(D, I)
  <2>1. s \in [D -> I]
    BY <1>1
  <2> QED BY <1>1, <2>1 DEF Injection, IsInjective, Surjection
<1>6. IsFiniteSet(I)
  BY <1>2, <1>5, FS_Surjection
<1>7. Cardinality(D) = Cardinality(I)
  BY <1>5, <1>6, FS_Injection
<1> QED BY <1>2, <1>4, <1>7

-----------------------------------------------------------------------------
(* Walks, selections and concatenations. *)

\* f takes m steps G from a, one after the other.
Iterates(f, X, a, G, m) ==
    f \in [0 .. m -> X] /\ f[0] = a /\ \A n \in 1 .. m : f[n] = G[<<f[n - 1], n>>]

LEMMA Iteration ==
    ASSUME NEW X, NEW a \in X, NEW N \in Nat, NEW G \in [X \X (1 .. N) -> X]
    PROVE  \E f : Iterates(f, X, a, G, N)
<1> USE DEF Iterates
<1> DEFINE Runs(f, m) == Iterates(f, X, a, G, m)
           Known == {m \in 0 .. N : \E f : Runs(f, m)}
<1>1. 0 \in Known
  <2>1. Runs([n \in 0 .. 0 |-> a], 0)
    OBVIOUS
  <2>2. 0 \in 0 .. N
    OBVIOUS
  <2> HIDE DEF Runs
  <2> QED BY <2>1, <2>2
<1>2. ASSUME NEW m \in 0 .. N - 1, m \in Known PROVE m + 1 \in Known
  <2>1. PICK f : Runs(f, m)
    BY <1>2
  <2> DEFINE e == G[<<f[m], m + 1>>]
             g == [n \in 0 .. m + 1 |-> IF n = m + 1 THEN e ELSE f[n]]
  <2>2. f[m] \in X /\ e \in X
    <3>1. f[m] \in X /\ m + 1 \in 1 .. N
      BY <2>1
    <3>2. <<f[m], m + 1>> \in X \X (1 .. N)
      BY <3>1
    <3> QED BY <3>1, <3>2
  <2>3. g \in [0 .. m + 1 -> X] /\ g[0] = a /\ g[m + 1] = e /\ \A n \in 0 .. m : g[n] = f[n]
    BY <2>1, <2>2
  <2> HIDE DEF g
  <2>4. ASSUME NEW n \in 1 .. m + 1 PROVE g[n] = G[<<g[n - 1], n>>]
    <3>1. CASE n = m + 1
      <4>1. g[n - 1] = f[m]
        BY <2>3, <3>1
      <4> QED BY <2>3, <3>1, <4>1
    <3>2. CASE n # m + 1
      <4>1. n \in 1 .. m /\ g[n - 1] = f[n - 1] /\ g[n] = f[n]
        BY <2>3, <3>2
      <4> QED BY <2>1, <4>1
    <3> QED BY <3>1, <3>2
  <2>5. Runs(g, m + 1)
    BY <2>3, <2>4
  <2> QED BY <2>5
<1> HIDE DEF Known, Iterates
<1>3. N \in Known
  BY <1>1, <1>2, Upwards
<1> QED BY <1>3 DEF Known

\* s is the walk along link from p: it ends where there is no link, or after n
\* pages.
IsWalk(link, s, p, n) ==
    /\ Len(s) \in 1 .. n /\ s[1] = p
    /\ \A i \in 1 .. Len(s) - 1 : link[s[i]] # 0 /\ s[i + 1] = link[s[i]]
    /\ Len(s) = n \/ link[s[Len(s)]] = 0

WalkStep(link, f, k) == [q \in DOMAIN link |-> IF k = 1 \/ link[q] = 0 THEN <<q>>
                                                ELSE <<q>> \o f[k - 1][link[q]]]
IsWalker(link, f, m) == f = [k \in 1 .. m |-> WalkStep(link, f, k)]

LEMMA Walker ==
    ASSUME NEW link, NEW n \in Nat \ {0}
    PROVE  IsWalker(link, CHOOSE f : IsWalker(link, f, n), n)
<1> DEFINE Known == {m \in 1 .. n : \E f : IsWalker(link, f, m)}
<1>1. 1 \in Known
  <2> DEFINE f == [k \in 1 .. 1 |-> [q \in DOMAIN link |-> <<q>>]]
  <2>1. \A k \in 1 .. 1 : f[k] = WalkStep(link, f, k)
    BY DEF WalkStep
  <2>2. f = [k \in 1 .. 1 |-> f[k]]
    OBVIOUS
  <2> HIDE DEF f
  <2>3. IsWalker(link, f, 1)
    BY <2>1, <2>2 DEF IsWalker
  <2> QED BY <2>3
<1>2. ASSUME NEW m \in 1 .. n - 1, m \in Known PROVE m + 1 \in Known
  <2>1. PICK f : IsWalker(link, f, m)
    BY <1>2
  <2> DEFINE g == [k \in 1 .. m + 1 |-> IF k = m + 1 THEN WalkStep(link, f, k) ELSE f[k]]
  <2>2. g = [k \in 1 .. m + 1 |-> g[k]] /\ \A k \in 1 .. m + 1 : g[k] = WalkStep(link, f, k)
    BY <2>1 DEF IsWalker
  <2>3. \A k \in 1 .. m : g[k] = f[k]
    OBVIOUS
  <2> HIDE DEF g
  <2>4. \A k \in 1 .. m + 1 : WalkStep(link, g, k) = WalkStep(link, f, k)
    <3> TAKE k \in 1 .. m + 1
    <3>1. CASE k = 1
      BY <3>1 DEF WalkStep
    <3>2. CASE k # 1
      <4>1. g[k - 1] = f[k - 1]
        BY <2>3, <3>2
      <4> QED BY <4>1 DEF WalkStep
    <3> QED BY <3>1, <3>2
  <2>5. IsWalker(link, g, m + 1)
    BY <2>2, <2>4 DEF IsWalker
  <2> QED BY <2>5
<1> HIDE DEF Known
<1>3. n \in Known
  BY <1>1, <1>2, Upwards
<1> QED BY <1>3 DEF Known

LEMMA FollowIs ==
    ASSUME NEW S, 0 \notin S, NEW link \in [S -> S \cup {0}], NEW p \in S, NEW n \in Nat \ {0}
    PROVE  Follow(link, p, n) \in Seq(S) /\ IsWalk(link, Follow(link, p, n), p, n)
<1> DEFINE walk == CHOOSE f : IsWalker(link, f, n)
<1>2. IsWalker(link, walk, n)
  BY Walker
<1>3. Follow(link, p, n) = walk[n][p]
  BY DEF Follow, IsWalker, WalkStep
<1> HIDE DEF walk
<1> DEFINE Good == {k \in 1 .. n : \A q \in S : walk[k][q] \in Seq(S) /\ IsWalk(link, walk[k][q], q, k)}
<1>4. \A q \in S : <<q>> \in Seq(S) /\ Len(<<q>>) = 1 /\ <<q>>[1] = q
  OBVIOUS
<1>5. \A k \in 1 .. n : walk[k] = WalkStep(link, walk, k)
  BY <1>2 DEF IsWalker
<1>6. 1 \in Good
  <2>1. walk[1] = WalkStep(link, walk, 1)
    BY <1>5
  <2>2. \A q \in S : walk[1][q] = <<q>>
    BY <2>1 DEF WalkStep
  <2>3. ASSUME NEW q \in S PROVE walk[1][q] \in Seq(S) /\ IsWalk(link, walk[1][q], q, 1)
    <3>1. <<q>> \in Seq(S) /\ Len(<<q>>) \in 1 .. 1 /\ <<q>>[1] = q /\ Len(<<q>>) = 1
      BY <1>4
    <3>2. IsWalk(link, <<q>>, q, 1)
      BY <3>1 DEF IsWalk
    <3> QED BY <2>2, <3>1, <3>2
  <2> QED BY <2>3
<1>7. ASSUME NEW k \in 1 .. n - 1, k \in Good PROVE k + 1 \in Good
  <2> SUFFICES ASSUME NEW q \in S
               PROVE  walk[k + 1][q] \in Seq(S) /\ IsWalk(link, walk[k + 1][q], q, k + 1)
    OBVIOUS
  <2>0. walk[k + 1] = WalkStep(link, walk, k + 1) /\ k + 1 # 1 /\ (k + 1) - 1 = k
    BY <1>5
  <2>1. CASE link[q] = 0
    <3>1. walk[k + 1][q] = <<q>>
      BY <2>0, <2>1 DEF WalkStep
    <3> QED BY <1>4, <2>1, <3>1 DEF IsWalk
  <2>2. CASE link[q] # 0
    <3> DEFINE u == walk[k][link[q]]
               s == <<q>> \o u
    <3>1. walk[k + 1][q] = s
      BY <2>0, <2>2 DEF WalkStep
    <3>2. u \in Seq(S) /\ IsWalk(link, u, link[q], k) /\ link[q] \in S
      BY <1>7, <2>2
    <3> HIDE DEF u
    <3>3. /\ s \in Seq(S) /\ Len(s) = Len(u) + 1
          /\ \A i \in 1 .. Len(u) + 1 : s[i] = IF i <= 1 THEN q ELSE u[i - 1]
      BY <1>4, <3>2, ConcatProperties
    <3> HIDE DEF s
    <3>4. Len(u) \in 1 .. k /\ u[1] = link[q]
      BY <3>2 DEF IsWalk
    <3>5. Len(s) \in 1 .. k + 1 /\ s[1] = q
      BY <3>3, <3>4
    <3>6. ASSUME NEW i \in 1 .. Len(s) - 1 PROVE link[s[i]] # 0 /\ s[i + 1] = link[s[i]]
      <4>1. CASE i = 1
        BY <2>2, <3>3, <3>4, <4>1
      <4>2. CASE i > 1
        <5>1. s[i] = u[i - 1] /\ s[i + 1] = u[i] /\ i - 1 \in 1 .. Len(u) - 1
          BY <3>3, <3>4, <4>2
        <5> QED BY <3>2, <5>1 DEF IsWalk
      <4> QED BY <4>1, <4>2
    <3>7. Len(s) = k + 1 \/ link[s[Len(s)]] = 0
      <4>1. s[Len(s)] = u[Len(u)]
        BY <3>3, <3>4
      <4> QED BY <3>2, <3>3, <3>4, <4>1 DEF IsWalk
    <3> QED BY <3>1, <3>3, <3>5, <3>6, <3>7 DEF IsWalk
  <2> QED BY <2>1, <2>2
<1> HIDE DEF Good
<1>8. n \in Good
  BY <1>6, <1>7, Upwards
<1> QED BY <1>3, <1>8 DEF Good

\* t holds the entries of s at the places in I, in their order; the k-th of them
\* is at place at[k].
PicksAt(t, s, I, at) ==
    /\ at \in [1 .. Len(t) -> 1 .. Len(s)]
    /\ \A k \in 1 .. Len(t) : at[k] \in I /\ t[k] = s[at[k]]
    /\ \A j, k \in 1 .. Len(t) : j < k => at[j] < at[k]
    /\ \A i \in 1 .. Len(s) : i \in I => \E k \in 1 .. Len(t) : at[k] = i

PickStep(s, I, f, n) == IF n = 0 THEN <<>> ELSE IF n \in I THEN Append(f[n - 1], s[n]) ELSE f[n - 1]
IsPicker(s, I, f) == f = [n \in 0 .. Len(s) |-> PickStep(s, I, f, n)]

LEMMA Picker ==
    ASSUME NEW S, NEW s \in Seq(S), NEW I
    PROVE  IsPicker(s, I, CHOOSE f : IsPicker(s, I, f))
<1> DEFINE X == Seq(S)
           N == Len(s)
           G == [z \in X \X (1 .. N) |-> IF z[2] \in I THEN Append(z[1], s[z[2]]) ELSE z[1]]
<1>1. N \in Nat /\ <<>> \in X
  OBVIOUS
<1>2. G \in [X \X (1 .. N) -> X]
  <2>1. ASSUME NEW z \in X \X (1 .. N) PROVE G[z] \in X
    <3>1. z[1] \in X /\ s[z[2]] \in S
      OBVIOUS
    <3>2. Append(z[1], s[z[2]]) \in X
      BY <3>1
    <3> QED BY <3>1, <3>2
  <2> QED BY <2>1
<1>3. PICK f \in [0 .. N -> X] : f[0] = <<>> /\ \A n \in 1 .. N : f[n] = G[<<f[n - 1], n>>]
  <2> DEFINE a == <<>>
  <2>1. a \in X
    BY <1>1
  <2> HIDE DEF G, X, N, a
  <2>2. PICK f : Iterates(f, X, a, G, N)
    BY <1>1, <1>2, <2>1, Iteration
  <2> QED BY <2>2 DEF a, Iterates
<1>4. \A n \in 0 .. N : f[n] = PickStep(s, I, f, n)
  <2> TAKE n \in 0 .. N
  <2>1. CASE n = 0
    BY <1>3, <2>1 DEF PickStep
  <2>2. CASE n # 0
    <3>1. n \in 1 .. N /\ f[n - 1] \in X /\ <<f[n - 1], n>> \in X \X (1 .. N)
      BY <1>3, <2>2, SMTT(30)
    <3>2. f[n] = IF n \in I THEN Append(f[n - 1], s[n]) ELSE f[n - 1]
      BY <1>3, <3>1
    <3> QED BY <2>2, <3>2 DEF PickStep
  <2> QED BY <2>1, <2>2
<1>5. IsPicker(s, I, f)
  <2>1. f = [n \in 0 .. N |-> f[n]]
    OBVIOUS
  <2> QED BY <1>4, <2>1 DEF IsPicker
<1> QED BY <1>5

LEMMA PickedIs ==
    ASSUME NEW S, NEW s \in Seq(S), NEW I
    PROVE  Picked(s, I) \in Seq(S) /\ \E at : PicksAt(Picked(s, I), s, I, at)
<1> DEFINE pick == CHOOSE f : IsPicker(s, I, f)
           Upto(n) == I \cap (1 .. n)
           Good == {n \in 0 .. Len(s) : pick[n] \in Seq(S) /\ \E at : PicksAt(pick[n], s, Upto(n), at)}
<1>1. \A n \in 0 .. Len(s) : pick[n] = PickStep(s, I, pick, n)
  <2>1. IsPicker(s, I, pick)
    BY Picker
  <2> HIDE DEF pick
  <2> QED BY <2>1 DEF IsPicker
<1>2. Picked(s, I) = pick[Len(s)]
  BY DEF Picked, IsPicker, PickStep
<1> HIDE DEF pick
<1>3. 0 \in Good
  <2>1. 0 \in 0 .. Len(s) /\ pick[0] = PickStep(s, I, pick, 0)
    BY <1>1
  <2>2. pick[0] = <<>>
    BY <2>1 DEF PickStep
  <2>3. PicksAt(<<>>, s, Upto(0), <<>>)
    BY DEF PicksAt
  <2>4. <<>> \in Seq(S)
    OBVIOUS
  <2>5. pick[0] \in Seq(S) /\ \E at : PicksAt(pick[0], s, Upto(0), at)
    BY <2>2, <2>3, <2>4
  <2> HIDE DEF Upto
  <2> QED BY <2>1, <2>5
<1>4. ASSUME NEW n \in 0 .. Len(s) - 1, n \in Good PROVE n + 1 \in Good
  <2> DEFINE t == pick[n]
  <2>1. PICK at : PicksAt(t, s, Upto(n), at)
    BY <1>4
  <2>2. t \in Seq(S) /\ n + 1 \in 1 .. Len(s) /\ s[n + 1] \in S
    BY <1>4
  <2>0. pick[n + 1] = PickStep(s, I, pick, n + 1) /\ n + 1 # 0 /\ (n + 1) - 1 = n
    BY <1>1
  <2>3. CASE n + 1 \notin I
    <3>1. pick[n + 1] = t
      BY <2>0, <2>3 DEF PickStep
    <3>2. Upto(n + 1) = Upto(n)
      BY <2>3
    <3>3. pick[n + 1] \in Seq(S) /\ \E f : PicksAt(pick[n + 1], s, Upto(n + 1), f)
      BY <2>1, <2>2, <3>1, <3>2
    <3> HIDE DEF Upto, t
    <3> QED BY <2>2, <3>3
  <2>4. CASE n + 1 \in I
    <3> DEFINE u == Append(t, s[n + 1])
               by == [k \in 1 .. Len(t) + 1 |-> IF k = Len(t) + 1 THEN n + 1 ELSE at[k]]
    <3>1. pick[n + 1] = u
      BY <2>0, <2>4 DEF PickStep
    <3>2. /\ u \in Seq(S) /\ Len(u) = Len(t) + 1 /\ u[Len(t) + 1] = s[n + 1]
          /\ \A k \in 1 .. Len(t) : u[k] = t[k]
      BY <2>2
    <3> HIDE DEF t, u
    <3>3. /\ at \in [1 .. Len(t) -> 1 .. Len(s)]
          /\ \A k \in 1 .. Len(t) : at[k] \in Upto(n) /\ t[k] = s[at[k]]
          /\ \A j, k \in 1 .. Len(t) : j < k => at[j] < at[k]
          /\ \A i \in 1 .. Len(s) : i \in Upto(n) => \E k \in 1 .. Len(t) : at[k] = i
      BY <2>1 DEF PicksAt
    <3>4. by \in [1 .. Len(u) -> 1 .. Len(s)] /\ \A k \in 1 .. Len(t) : by[k] = at[k]
      BY <2>2, <3>2, <3>3
    <3>5. by[Len(t) + 1] = n + 1 /\ Len(t) + 1 \in 1 .. Len(u) /\ Len(t) \in Nat
      BY <2>2, <3>2
    <3> HIDE DEF by
    <3>6. \A k \in 1 .. Len(u) : by[k] \in Upto(n + 1) /\ u[k] = s[by[k]]
      <4> TAKE k \in 1 .. Len(u)
      <4>1. CASE k = Len(t) + 1
        BY <2>4, <3>2, <3>5, <4>1
      <4>2. CASE k # Len(t) + 1
        BY <3>2, <3>3, <3>4, <3>5, <4>2
      <4> QED BY <4>1, <4>2
    <3>7. \A j, k \in 1 .. Len(u) : j < k => by[j] < by[k]
      <4> SUFFICES ASSUME NEW j \in 1 .. Len(u), NEW k \in 1 .. Len(u), j < k
                   PROVE  by[j] < by[k]
        OBVIOUS
      <4>0. j \in 1 .. Len(t) /\ by[j] = at[j] /\ at[j] \in 1 .. n
        BY <3>2, <3>3, <3>4, <3>5
      <4>1. CASE k = Len(t) + 1
        <5>1. by[k] = n + 1 /\ n \in Nat
          BY <3>5, <4>1
        <5> QED BY <4>0, <5>1
      <4>2. CASE k # Len(t) + 1
        <5>0. k \in 1 .. Len(t)
          BY <3>2, <3>5, <4>2
        <5>1. k \in 1 .. Len(t) /\ by[k] = at[k]
          BY <3>4, <5>0
        <5> QED BY <3>3, <4>0, <5>1
      <4> QED BY <4>1, <4>2
    <3>8. \A i \in 1 .. Len(s) : i \in Upto(n + 1) => \E k \in 1 .. Len(u) : by[k] = i
      <4> SUFFICES ASSUME NEW i \in 1 .. Len(s), i \in Upto(n + 1)
                   PROVE  \E k \in 1 .. Len(u) : by[k] = i
        OBVIOUS
      <4>1. CASE i = n + 1
        BY <3>5, <4>1
      <4>2. CASE i # n + 1
        <5>1. i \in Upto(n)
          BY <4>2
        <5>2. PICK k \in 1 .. Len(t) : at[k] = i
          BY <3>3, <5>1
        <5>3. k \in 1 .. Len(u) /\ by[k] = i
          BY <3>2, <3>4, <3>5, <5>2
        <5> QED BY <5>3
      <4> QED BY <4>1, <4>2
    <3>9. PicksAt(u, s, Upto(n + 1), by)
      BY <3>4, <3>6, <3>7, <3>8 DEF PicksAt
    <3>10. pick[n + 1] \in Seq(S) /\ \E f : PicksAt(pick[n + 1], s, Upto(n + 1), f)
      BY <3>1, <3>2, <3>9
    <3> HIDE DEF Upto
    <3> QED BY <2>2, <3>10
  <2> QED BY <2>3, <2>4
<1> HIDE DEF Good
<1>5. Len(s) \in Good
  <2>1. Len(s) \in Nat /\ 0 \in Nat
    OBVIOUS
  <2>2. \A n \in 0 .. Len(s) : n \in Good
    BY <1>3, <1>4, <2>1, Upwards
  <2> QED BY <2>1, <2>2
<1>6. PICK at : PicksAt(pick[Len(s)], s, Upto(Len(s)), at)
  BY <1>5 DEF Good
<1>7. PicksAt(pick[Len(s)], s, I, at)
  BY <1>6 DEF PicksAt
<1> QED BY <1>2, <1>5, <1>7 DEF Good

FlatStep(ss, f, i) == IF i = 1 THEN ss[i] ELSE f[i - 1] \o ss[i]
IsFlattener(ss, f) == f = [i \in 1 .. Len(ss) |-> FlatStep(ss, f, i)]

LEMMA Flattener ==
    ASSUME NEW S, NEW ss \in Seq(Seq(S))
    PROVE  IsFlattener(ss, CHOOSE f : IsFlattener(ss, f))
<1> DEFINE X == Seq(S)
           N == Len(ss)
           a == <<>>
           G == [z \in X \X (1 .. N) |-> z[1] \o ss[z[2]]]
<1>1. N \in Nat /\ a \in X
  OBVIOUS
<1>2. G \in [X \X (1 .. N) -> X]
  <2>1. ASSUME NEW z \in X \X (1 .. N) PROVE G[z] \in X
    <3>1. z[1] \in X /\ ss[z[2]] \in X
      OBVIOUS
    <3> QED BY <3>1
  <2> QED BY <2>1
<1>3. PICK g : Iterates(g, X, a, G, N)
  <2> HIDE DEF G, X, N, a
  <2> QED BY <1>1, <1>2, Iteration
<1>4. ASSUME NEW n \in 1 .. N PROVE g[n] = g[n - 1] \o ss[n]
  <2>0. n - 1 \in 0 .. N
    BY <1>1
  <2>1. g[n - 1] \in X /\ <<g[n - 1], n>> \in X \X (1 .. N)
    <3> HIDE DEF X, N, G
    <3>1. g \in [0 .. N -> X]
      BY <1>3 DEF Iterates
    <3>2. g[n - 1] \in X
      BY <2>0, <3>1
    <3> QED BY <3>2
  <2>2. g[n] = G[<<g[n - 1], n>>]
    BY <1>3 DEF Iterates
  <2> QED BY <2>1, <2>2
<1> DEFINE f == [i \in 1 .. N |-> g[i]]
<1>5. \A i \in 1 .. N : f[i] = FlatStep(ss, f, i)
  <2> TAKE i \in 1 .. N
  <2>1. CASE i = 1
    <3>1. g[0] = <<>> /\ ss[1] \in X
      BY <1>3, <2>1 DEF Iterates
    <3>2. g[1] = <<>> \o ss[1]
      <4>1. 1 - 1 = 0 /\ 1 \in 1 .. N
        BY <2>1
      <4>2. g[1] = g[1 - 1] \o ss[1]
        BY <1>4, <4>1
      <4> QED BY <3>1, <4>1, <4>2
    <3>3. g[1] = ss[1]
      BY <3>1, <3>2
    <3> QED BY <2>1, <3>3 DEF FlatStep
  <2>2. CASE i # 1
    <3>1. i - 1 \in 1 .. N /\ f[i - 1] = g[i - 1] /\ f[i] = g[i]
      BY <2>2
    <3> QED BY <1>4, <2>2, <3>1 DEF FlatStep
  <2> QED BY <2>1, <2>2
<1>6. IsFlattener(ss, f)
  <2>1. f = [i \in 1 .. N |-> f[i]]
    OBVIOUS
  <2> HIDE DEF f
  <2> QED BY <1>5, <2>1 DEF IsFlattener
<1> QED BY <1>6

\* t holds the entries of the first n parts ss[1], ss[2], ..., in this order.
Strings(t, ss, n) ==
    /\ \A i \in 1 .. Len(t) : \E a \in 1 .. n : \E b \in 1 .. Len(ss[a]) : t[i] = ss[a][b]
    /\ \A a \in 1 .. n : \A b \in 1 .. Len(ss[a]) : \E i \in 1 .. Len(t) : t[i] = ss[a][b]

SortedBy(t, R) == \A i, j \in 1 .. Len(t) : i < j => <<t[i], t[j]>> \in R
\* Each part is sorted, and so are entries of different parts.
PartsSorted(ss, R) ==
    /\ \A a \in 1 .. Len(ss) : SortedBy(ss[a], R)
    /\ \A a, b \in 1 .. Len(ss) : a < b =>
          \A i \in 1 .. Len(ss[a]), j \in 1 .. Len(ss[b]) : <<ss[a][i], ss[b][j]>> \in R

LEMMA FlattenIs ==
    ASSUME NEW S, NEW ss \in Seq(Seq(S)), NEW R
    PROVE  /\ FlattenSeq(ss) \in Seq(S)
           /\ Strings(FlattenSeq(ss), ss, Len(ss))
           /\ PartsSorted(ss, R) => SortedBy(FlattenSeq(ss), R)
<1> DEFINE flat == CHOOSE f : IsFlattener(ss, f)
           N == Len(ss)
<1>0. N \in Nat
  OBVIOUS
<1>1. CASE N = 0
  <2>1. ss = <<>> /\ FlattenSeq(ss) = ss
    BY <1>1 DEF FlattenSeq
  <2> DEFINE e == FlattenSeq(ss)
  <2>2. e \in Seq(S) /\ Len(e) = 0 /\ Len(ss) = 0
    <3>1. e = <<>> /\ Len(ss) = 0
      BY <1>1, <2>1
    <3> HIDE DEF e
    <3>2. <<>> \in Seq(S) /\ Len(<<>>) = 0
      OBVIOUS
    <3> QED BY <3>1, <3>2
  <2> HIDE DEF e
  <2>3. Strings(e, ss, Len(ss)) /\ SortedBy(e, R)
    BY <2>2 DEF Strings, SortedBy
  <2> QED BY <2>2, <2>3 DEF e
<1>2. CASE N # 0
  <2>1. \A i \in 1 .. N : flat[i] = FlatStep(ss, flat, i)
    <3>1. IsFlattener(ss, flat)
      BY Flattener
    <3> HIDE DEF flat
    <3> QED BY <3>1 DEF IsFlattener
  <2>2. FlattenSeq(ss) = flat[N]
    BY <1>2 DEF FlattenSeq, IsFlattener, FlatStep
  <2> HIDE DEF flat
  <2> DEFINE OK(n) == /\ flat[n] \in Seq(S) /\ Strings(flat[n], ss, n)
                      /\ PartsSorted(ss, R) => SortedBy(flat[n], R)
             Good == {n \in 1 .. N : OK(n)}
  <2>3. 1 \in Good
    <3>1. 1 \in 1 .. N /\ flat[1] = FlatStep(ss, flat, 1) /\ ss[1] \in Seq(S)
      BY <1>0, <1>2, <2>1
    <3>2. flat[1] = ss[1]
      BY <3>1 DEF FlatStep
    <3>3. Strings(ss[1], ss, 1)
      BY DEF Strings
    <3>4. PartsSorted(ss, R) => SortedBy(ss[1], R)
      BY <3>1 DEF PartsSorted
    <3> QED BY <3>1, <3>2, <3>3, <3>4
  <2>4. ASSUME NEW n \in 1 .. N - 1, n \in Good PROVE n + 1 \in Good
    <3> DEFINE u == flat[n]
               v == ss[n + 1]
               t == u \o v
    <3>1. n + 1 \in 1 .. N /\ flat[n + 1] = FlatStep(ss, flat, n + 1) /\ n + 1 # 1 /\ (n + 1) - 1 = n
      BY <1>0, <2>1
    <3>2. flat[n + 1] = t
      BY <3>1 DEF FlatStep
    <3>3. u \in Seq(S) /\ v \in Seq(S) /\ Strings(u, ss, n) /\ (PartsSorted(ss, R) => SortedBy(u, R))
      BY <2>4, <3>1
    <3>v. v = ss[n + 1]
      OBVIOUS
    <3> HIDE DEF u, v, OK
    <3>4. /\ t \in Seq(S) /\ Len(t) = Len(u) + Len(v) /\ Len(u) \in Nat /\ Len(v) \in Nat
          /\ \A i \in 1 .. Len(u) + Len(v) : t[i] = IF i <= Len(u) THEN u[i] ELSE v[i - Len(u)]
      BY <3>3, ConcatProperties
    <3> HIDE DEF t
    <3>5. \A i \in 1 .. Len(u) : i \in 1 .. Len(t) /\ t[i] = u[i]
      BY <3>4
    <3>6. \A i \in 1 .. Len(v) : Len(u) + i \in 1 .. Len(t) /\ t[Len(u) + i] = v[i]
      <4> TAKE i \in 1 .. Len(v)
      <4> DEFINE k == Len(u) + i
      <4>1. k \in 1 .. Len(u) + Len(v) /\ ~(k <= Len(u)) /\ k - Len(u) = i
        BY <3>4
      <4> HIDE DEF k
      <4>2. t[k] = v[i] /\ k \in 1 .. Len(t)
        BY <3>4, <4>1
      <4> QED BY <4>2 DEF k
    <3>7. \A i \in 1 .. Len(t) : i \in 1 .. Len(u) \/ \E b \in 1 .. Len(v) : i = Len(u) + b
      <4> TAKE i \in 1 .. Len(t)
      <4>1. CASE i > Len(u)
        <5>1. i - Len(u) \in 1 .. Len(v) /\ i = Len(u) + (i - Len(u))
          BY <3>4, <4>1
        <5> QED BY <5>1
      <4> QED BY <3>4, <4>1
    <3>8. Strings(t, ss, n + 1)
      <4>1. ASSUME NEW i \in 1 .. Len(t)
            PROVE  \E a \in 1 .. n + 1 : \E b \in 1 .. Len(ss[a]) : t[i] = ss[a][b]
        <5>1. CASE i \in 1 .. Len(u)
          <6>1. PICK a \in 1 .. n : \E b \in 1 .. Len(ss[a]) : u[i] = ss[a][b]
            BY <3>3, <5>1 DEF Strings
          <6>2. t[i] = u[i] /\ a \in 1 .. n + 1
            BY <3>1, <3>5, <5>1
          <6>3. PICK b \in 1 .. Len(ss[a]) : u[i] = ss[a][b]
            BY <6>1
          <6>4. t[i] = ss[a][b]
            BY <6>2, <6>3
          <6> QED BY <6>2, <6>4
        <5>2. CASE \E b \in 1 .. Len(v) : i = Len(u) + b
          <6>1. PICK b \in 1 .. Len(v) : i = Len(u) + b
            BY <5>2
          <6>2. t[i] = v[b]
            BY <3>6, <6>1
          <6>3. n + 1 \in 1 .. n + 1 /\ b \in 1 .. Len(ss[n + 1]) /\ t[i] = ss[n + 1][b]
            BY <3>1, <3>v, <6>1, <6>2
          <6> QED BY <6>3
        <5> QED BY <3>7, <5>1, <5>2
      <4>2. ASSUME NEW a \in 1 .. n + 1, NEW b \in 1 .. Len(ss[a])
            PROVE  \E i \in 1 .. Len(t) : t[i] = ss[a][b]
        <5>1. CASE a = n + 1
          <6>1. t[Len(u) + b] = ss[a][b] /\ Len(u) + b \in 1 .. Len(t)
            BY <3>6, <3>v, <5>1
          <6> QED BY <6>1
        <5>2. CASE a # n + 1
          <6>1. a \in 1 .. n
            BY <5>2
          <6>2. PICK i \in 1 .. Len(u) : u[i] = ss[a][b]
            BY <3>3, <6>1 DEF Strings
          <6> QED BY <3>5, <6>2
        <5> QED BY <5>1, <5>2
      <4> QED BY <4>1, <4>2 DEF Strings
    <3>9. ASSUME PartsSorted(ss, R) PROVE SortedBy(t, R)
      <4> SUFFICES ASSUME NEW i \in 1 .. Len(t), NEW j \in 1 .. Len(t), i < j
                   PROVE  <<t[i], t[j]>> \in R
        BY DEF SortedBy
      <4>1. CASE j \in 1 .. Len(u)
        <5>1. i \in 1 .. Len(u)
          BY <3>4, <4>1
        <5>2. <<u[i], u[j]>> \in R
          BY <3>3, <3>9, <4>1, <5>1 DEF SortedBy
        <5> QED BY <3>5, <4>1, <5>1, <5>2
      <4>2. ASSUME NEW b \in 1 .. Len(v), j = Len(u) + b PROVE <<t[i], t[j]>> \in R
        <5>1. t[j] = v[b]
          BY <3>6, <4>2
        <5>2. CASE i \in 1 .. Len(u)
          <6>0. PICK a \in 1 .. n : \E c \in 1 .. Len(ss[a]) : u[i] = ss[a][c]
            BY <3>3, <5>2 DEF Strings
          <6>1. PICK c \in 1 .. Len(ss[a]) : u[i] = ss[a][c]
            BY <6>0
          <6>2. a \in 1 .. N /\ a < n + 1
            BY <3>1
          <6>3. <<ss[a][c], ss[n + 1][b]>> \in R
            BY <3>1, <3>9, <3>v, <6>2 DEF PartsSorted
          <6> QED BY <3>5, <3>v, <5>1, <5>2, <6>1, <6>3
        <5>3. ASSUME NEW c \in 1 .. Len(v), i = Len(u) + c PROVE <<t[i], t[j]>> \in R
          <6>1. c < b
            BY <3>4, <4>2, <5>3
          <6>2. <<v[c], v[b]>> \in R
            BY <3>1, <3>9, <3>v, <6>1 DEF PartsSorted, SortedBy
          <6> QED BY <3>6, <5>1, <5>3, <6>2
        <5> QED BY <3>7, <5>2, <5>3
      <4> QED BY <3>7, <4>1, <4>2
    <3>10. OK(n + 1)
      BY <3>2, <3>4, <3>8, <3>9 DEF OK
    <3> QED BY <3>1, <3>10
  <2> HIDE DEF Good
  <2>5. \A n \in 1 .. N : n \in Good
    <3>1. 1 \in Nat /\ N \in Nat
      BY <1>0
    <3> QED BY <2>3, <2>4, <3>1, Upwards
  <2>6. OK(N)
    <3>1. N \in 1 .. N
      BY <1>0, <1>2
    <3> QED BY <2>5, <3>1 DEF Good
  <2> QED BY <2>2, <2>6
<1> QED BY <1>1, <1>2

\* It is no longer than its parts together.
LEMMA FlatFits ==
    ASSUME NEW S, NEW ss \in Seq(Seq(S)), NEW c \in Nat, \A i \in 1 .. Len(ss) : Len(ss[i]) <= c
    PROVE  Len(FlattenSeq(ss)) <= Len(ss) * c
<1> DEFINE flat == CHOOSE f : IsFlattener(ss, f)
           N == Len(ss)
<1>0. N \in Nat
  OBVIOUS
<1>1. CASE N = 0
  <2>1. FlattenSeq(ss) = <<>> /\ Len(ss) = 0
    BY <1>1 DEF FlattenSeq
  <2>2. Len(FlattenSeq(ss)) = 0
    BY <2>1
  <2> QED BY <2>1, <2>2
<1>2. CASE N # 0
  <2>1. \A i \in 1 .. N : flat[i] = FlatStep(ss, flat, i)
    <3>1. IsFlattener(ss, flat)
      BY Flattener
    <3> HIDE DEF flat
    <3> QED BY <3>1 DEF IsFlattener
  <2>2. FlattenSeq(ss) = flat[N]
    BY <1>2 DEF FlattenSeq, IsFlattener, FlatStep
  <2> HIDE DEF flat
  <2>s. \A i \in 1 .. N : ss[i] \in Seq(S) /\ Len(ss[i]) \in Nat /\ Len(ss[i]) <= c
    <3> TAKE i \in 1 .. N
    <3>1. ss[i] \in Seq(S)
      OBVIOUS
    <3> QED BY <3>1, SeqIsFunction
  <2> DEFINE Good == {n \in 1 .. N : flat[n] \in Seq(S) /\ Len(flat[n]) <= n * c}
  <2>3. 1 \in Good
    <3>1. 1 \in 1 .. N /\ flat[1] = FlatStep(ss, flat, 1)
      BY <1>0, <1>2, <2>1
    <3>2. flat[1] = ss[1]
      BY <3>1 DEF FlatStep
    <3> QED BY <2>s, <3>1, <3>2
  <2>4. ASSUME NEW n \in 1 .. N - 1, n \in Good PROVE n + 1 \in Good
    <3>1. n + 1 \in 1 .. N /\ flat[n + 1] = FlatStep(ss, flat, n + 1) /\ n + 1 # 1 /\ (n + 1) - 1 = n
      BY <1>0, <2>1
    <3>2. flat[n + 1] = flat[n] \o ss[n + 1]
      BY <3>1 DEF FlatStep
    <3> DEFINE u == flat[n]
               v == ss[n + 1]
    <3>3. u \in Seq(S) /\ v \in Seq(S) /\ Len(u) \in Nat /\ Len(v) \in Nat /\ Len(u) <= n * c /\ Len(v) <= c
      <4>1. flat[n] \in Seq(S) /\ Len(flat[n]) <= n * c
        BY <2>4
      <4> QED BY <2>s, <3>1, <4>1, SeqIsFunction
    <3> HIDE DEF u, v
    <3>4. u \o v \in Seq(S) /\ Len(u \o v) = Len(u) + Len(v)
      BY <3>3, ConcatProperties
    <3>5. (n + 1) * c = n * c + c /\ n * c \in Nat
      BY <1>0
    <3>6. Len(u \o v) <= (n + 1) * c
      BY <3>3, <3>4, <3>5
    <3> QED BY <3>1, <3>2, <3>4, <3>6 DEF u, v
  <2> HIDE DEF Good
  <2>5. \A n \in 1 .. N : n \in Good
    <3>1. 1 \in Nat /\ N \in Nat
      BY <1>0
    <3> QED BY <2>3, <2>4, <3>1, Upwards
  <2>6. N \in Good
    BY <1>0, <1>2, <2>5
  <2> QED BY <2>2, <2>6 DEF Good
<1> QED BY <1>1, <1>2

-----------------------------------------------------------------------------
(* What a tree is.  A space u gives the page numbers 1 .. u.n, the keys      *)
(* u.keys that may separate pages, and the place u.rank[k] of each key among *)
(* the places 0 .. u.top - 1.  A cover g says which places each page of the  *)
(* tree is for, g.lo[p] .. g.hi[p] - 1, and its height g.lv[p] above the     *)
(* leaves.                                                                   *)

IsSpace(u) == u.n \in Nat /\ u.top \in Nat \ {0} /\ \A k \in u.keys : u.rank[k] \in 0 .. u.top - 1

\* The pages of the tree: the others are overflow pages or unused.
InTree(P) == {p \in DOMAIN P : P[p].kind \in {"leaf", "branch"}}

IsCover(u, g) == /\ g.lo \in [1 .. u.n -> Nat] /\ g.hi \in [1 .. u.n -> Nat]
                 /\ g.lv \in [1 .. u.n -> Nat]

\* The pages in use, and that those of one height are for different places.
Frame(u, t, g) ==
    /\ t = [pages |-> t.pages, free |-> t.free, root |-> t.root]
    /\ DOMAIN t.pages = 1 .. u.n /\ t.free \in 2 .. u.n + 1
    /\ \A p \in 1 .. u.n : t.pages[p] = Unused <=> p >= t.free
    /\ \A p \in 1 .. u.n : t.pages[p].kind = "unused" <=> p >= t.free
    /\ IsCover(u, g)
    /\ t.root \in InTree(t.pages) /\ g.lo[t.root] = 0 /\ g.lv[t.root] + 2 <= t.free
    /\ \A p \in InTree(t.pages) : /\ g.lo[p] < g.hi[p] /\ g.hi[p] <= u.top
                                  /\ g.lv[p] <= g.lv[t.root]
                                  /\ g.lv[p] = 0 <=> t.pages[p].kind = "leaf"
    /\ \A p, q \in InTree(t.pages) :
          p # q /\ g.lv[p] = g.lv[q] => g.hi[p] <= g.lo[q] \/ g.hi[q] <= g.lo[p]

\* The leaf chain joins leaves whose places join.
Linked(u, t, g) ==
    \A p \in 1 .. u.n : t.pages[p].kind = "leaf" =>
        /\ g.hi[p] = u.top => t.pages[p].next = 0
        /\ g.hi[p] # u.top => /\ t.pages[p].next \in 1 .. u.n
                              /\ t.pages[t.pages[p].next].kind = "leaf"
                              /\ g.lo[t.pages[p].next] = g.hi[p]
        /\ g.lo[p] = 0 => t.pages[p].prev = 0
        /\ g.lo[p] # 0 => /\ t.pages[p].prev \in 1 .. u.n
                          /\ t.pages[t.pages[p].prev].kind = "leaf"
                          /\ g.hi[t.pages[p].prev] = g.lo[p]

\* The children of a branch page b of height v share out its places l .. h - 1,
\* with the separators between them.
Node(u, T, b, l, h, v, lo, hi, lv) ==
    /\ b.kids \in Seq(T) /\ b.keys \in Seq(u.keys) /\ Len(b.kids) = Len(b.keys) + 1
    /\ lo[b.kids[1]] = l /\ hi[b.kids[Len(b.kids)]] = h
    /\ \A i \in 1 .. Len(b.keys) : /\ hi[b.kids[i]] = u.rank[b.keys[i]]
                                   /\ lo[b.kids[i + 1]] = u.rank[b.keys[i]]
    /\ \A i \in 1 .. Len(b.kids) : lv[b.kids[i]] + 1 = v

\* hi is g.hi, but for a page that was split and whose parent does not know it.
Nodes(u, t, g, hi) ==
    \A p \in 1 .. u.n : t.pages[p].kind = "branch" =>
        Node(u, InTree(t.pages), t.pages[p], g.lo[p], g.hi[p], g.lv[p], g.lo, hi, g.lv)

Standing(u, t, g, hi) == Frame(u, t, g) /\ Linked(u, t, g) /\ Nodes(u, t, g, hi) /\ hi[t.root] = u.top

Whole(u, t, g) == Standing(u, t, g, g.hi)

\* Page c was split: the upper part of its places is now that of page q, and no
\* branch page has q yet.
Covering(u, g, c, q) == [p \in 1 .. u.n |-> IF p = c THEN g.hi[q] ELSE g.hi[p]]
Pending(u, t, g, c, up) ==
    /\ Standing(u, t, g, Covering(u, g, c, up.page))
    /\ c \in InTree(t.pages) /\ up.page \in InTree(t.pages) /\ c # up.page
    /\ g.lv[up.page] = g.lv[c]
    /\ up.key \in u.keys /\ g.hi[c] = u.rank[up.key] /\ g.lo[up.page] = u.rank[up.key]

LEMMA NodeWithin ==
    ASSUME NEW u, IsSpace(u), NEW T, NEW b, NEW l \in Nat, NEW h \in Nat, NEW v, NEW lo, NEW hi, NEW lv,
           \A p \in T : lo[p] \in Nat /\ hi[p] \in Nat /\ lo[p] < hi[p],
           Node(u, T, b, l, h, v, lo, hi, lv)
    PROVE  /\ \A i, j \in 1 .. Len(b.kids) : i < j => hi[b.kids[i]] <= lo[b.kids[j]]
           /\ \A i \in 1 .. Len(b.kids) : l <= lo[b.kids[i]] /\ hi[b.kids[i]] <= h
<1> DEFINE n == Len(b.kids)
<1>1. n \in Nat \ {0} /\ Len(b.keys) = n - 1 /\ Len(b.keys) \in Nat
  BY DEF Node
<1>2. \A i \in 1 .. n : b.kids[i] \in T
  BY DEF Node
<1>3. \A i \in 1 .. n : lo[b.kids[i]] \in Nat /\ hi[b.kids[i]] \in Nat /\ lo[b.kids[i]] < hi[b.kids[i]]
  BY <1>2
<1>4. \A i \in 1 .. n - 1 : hi[b.kids[i]] = lo[b.kids[i + 1]]
  BY <1>1 DEF Node
<1>5. lo[b.kids[1]] = l /\ hi[b.kids[n]] = h
  BY DEF Node
<1> HIDE DEF n
<1>6. ASSUME NEW i \in 1 .. n, NEW j \in 1 .. n, i < j PROVE hi[b.kids[i]] <= lo[b.kids[j]]
  <2> DEFINE S == {k \in i + 1 .. n : hi[b.kids[i]] <= lo[b.kids[k]]}
  <2>1. i + 1 \in S
    BY <1>1, <1>3, <1>4, <1>6
  <2>2. ASSUME NEW k \in i + 1 .. n - 1, k \in S PROVE k + 1 \in S
    <3>1. k \in 1 .. n - 1 /\ k \in 1 .. n /\ k + 1 \in 1 .. n /\ k + 1 \in i + 1 .. n /\ i \in 1 .. n
      BY <1>1
    <3>2. hi[b.kids[i]] <= lo[b.kids[k]]
      BY <2>2
    <3>3. hi[b.kids[i]] <= lo[b.kids[k + 1]]
      BY <1>3, <1>4, <3>1, <3>2
    <3> QED BY <3>1, <3>3
  <2> HIDE DEF S
  <2>3. \A k \in i + 1 .. n : k \in S
    <3>1. i + 1 \in Nat /\ n \in Nat
      BY <1>1
    <3> QED BY <2>1, <2>2, <3>1, Upwards
  <2>4. j \in S
    BY <1>1, <1>6, <2>3
  <2> QED BY <2>4 DEF S
<1>7. ASSUME NEW i \in 1 .. n PROVE l <= lo[b.kids[i]] /\ hi[b.kids[i]] <= h
  <2>1. l <= lo[b.kids[i]]
    <3>1. CASE i = 1
      BY <1>3, <1>5, <3>1
    <3>2. CASE i # 1
      <4>1. 1 \in 1 .. n /\ 1 < i
        BY <1>1, <3>2
      <4> QED BY <1>3, <1>5, <1>6, <4>1
    <3> QED BY <3>1, <3>2
  <2>2. hi[b.kids[i]] <= h
    <3>1. CASE i = n
      BY <1>3, <1>5, <3>1
    <3>2. CASE i # n
      <4>1. n \in 1 .. n /\ i < n
        BY <1>1, <3>2
      <4> QED BY <1>3, <1>5, <1>6, <4>1
    <3> QED BY <3>1, <3>2
  <2> QED BY <2>1, <2>2
<1> QED BY <1>6, <1>7 DEF n

\* The child the search takes is for the place it looks for.
Ranges(T, lo, hi) == \A p \in T : lo[p] \in Nat /\ hi[p] \in Nat
Within(l, z, h) == l \in Nat /\ h \in Nat /\ z \in Nat /\ l <= z /\ z < h
Routes(u, b, z, i) == i = FirstOf(Len(b.keys), {j \in 1 .. Len(b.keys) : z < u.rank[b.keys[j]]})
LEMMA NodeRoutes ==
    ASSUME NEW u, IsSpace(u), NEW T, NEW b, NEW l, NEW h, NEW v, NEW lo, NEW hi, NEW lv,
           Ranges(T, lo, hi), Node(u, T, b, l, h, v, lo, hi, lv),
           NEW z, Within(l, z, h), NEW i, Routes(u, b, z, i)
    PROVE  i \in 1 .. Len(b.kids) /\ Within(lo[b.kids[i]], z, hi[b.kids[i]])
<1> /\ l \in Nat /\ h \in Nat /\ z \in Nat /\ l <= z /\ z < h
    /\ i = FirstOf(Len(b.keys), {j \in 1 .. Len(b.keys) : z < u.rank[b.keys[j]]})
    /\ \A p \in T : lo[p] \in Nat /\ hi[p] \in Nat
  BY DEF Ranges, Within, Routes
<1> DEFINE n == Len(b.keys)
           above == {j \in 1 .. n : z < u.rank[b.keys[j]]}
<1>1. n \in Nat /\ Len(b.kids) = n + 1 /\ \A j \in 1 .. n : b.keys[j] \in u.keys
  BY DEF Node
<1>2. /\ i \in 1 .. n + 1 /\ (i <= n => i \in above)
      /\ \A j \in 1 .. n : j < i => j \notin above
  <2>1. above \subseteq 1 .. n /\ i = FirstOf(n, above)
    OBVIOUS
  <2> HIDE DEF above, n
  <2>2. /\ FirstOf(n, above) \in 1 .. n + 1 /\ (FirstOf(n, above) <= n => FirstOf(n, above) \in above)
        /\ \A j \in 1 .. n : j < FirstOf(n, above) => j \notin above
    BY <1>1, <2>1, FirstOfIs
  <2> QED BY <2>1, <2>2
<1>3. \A j \in 1 .. n : u.rank[b.keys[j]] \in Nat
  BY <1>1 DEF IsSpace
<1>4. lo[b.kids[i]] <= z
  <2>1. CASE i = 1
    <3>1. lo[b.kids[1]] = l
      BY DEF Node
    <3> QED BY <2>1, <3>1
  <2>2. CASE i # 1
    <3>1. i - 1 \in 1 .. n /\ i - 1 < i /\ (i - 1) + 1 = i
      BY <1>1, <1>2, <2>2
    <3>2. ~(z < u.rank[b.keys[i - 1]])
      BY <1>2, <3>1
    <3>3. lo[b.kids[(i - 1) + 1]] = u.rank[b.keys[i - 1]]
      BY <3>1 DEF Node
    <3> DEFINE r == u.rank[b.keys[i - 1]]
    <3>4. r \in Nat /\ ~(z < r) /\ lo[b.kids[i]] = r
      BY <1>3, <3>1, <3>2, <3>3
    <3> HIDE DEF r
    <3>5. r <= z
      BY <3>4
    <3> QED BY <3>4, <3>5
  <2> QED BY <2>1, <2>2
<1>5. z < hi[b.kids[i]]
  <2>1. CASE i <= n
    <3>1. i \in 1 .. n /\ z < u.rank[b.keys[i]]
      BY <1>1, <1>2, <2>1
    <3> QED BY <3>1 DEF Node
  <2>2. CASE ~(i <= n)
    <3>1. i = Len(b.kids)
      BY <1>1, <1>2, <2>2
    <3> QED BY <3>1 DEF Node
  <2> QED BY <2>1, <2>2
<1>6. b.kids[i] \in T /\ i \in 1 .. Len(b.kids)
  <2>1. b.kids \in Seq(T)
    BY DEF Node
  <2>2. i \in 1 .. Len(b.kids)
    BY <1>1, <1>2
  <2> QED BY <2>1, <2>2, SeqIsFunction
<1> QED BY <1>4, <1>5, <1>6 DEF Within

\* Child number i of b was split: hi knows it, and b, which goes by before, does
\* not.
Misses(u, T, b, i, q, key, lo, before, hi, lv) ==
    /\ i \in 1 .. Len(b.kids) /\ q \in T /\ key \in u.keys
    /\ \A j \in 1 .. Len(b.kids) : j # i => before[b.kids[j]] = hi[b.kids[j]]
    /\ before[b.kids[i]] = hi[q] /\ hi[b.kids[i]] = u.rank[key]
    /\ lo[q] = u.rank[key] /\ lv[q] = lv[b.kids[i]]

\* What the parent of a split page writes: q, with its key, to the right of it.
LEMMA NodeInsert ==
    ASSUME NEW u, IsSpace(u), NEW T, NEW b, NEW l \in Nat, NEW h \in Nat, NEW v,
           NEW lo, NEW hi, NEW before, NEW lv,
           Node(u, T, b, l, h, v, lo, before, lv),
           NEW i, NEW q, NEW key, Misses(u, T, b, i, q, key, lo, before, hi, lv)
    PROVE  /\ Node(u, T, BranchPage(InsertAt(b.kids, i + 1, q), InsertAt(b.keys, i, key)),
                   l, h, v, lo, hi, lv)
           /\ Len(InsertAt(b.keys, i, key)) = Len(b.keys) + 1
<1> DEFINE n == Len(b.keys)
           kids == b.kids
           keys == b.keys
           d == InsertAt(b.kids, i + 1, q)
           e == InsertAt(b.keys, i, key)
<1>0. /\ i \in 1 .. Len(b.kids) /\ q \in T /\ key \in u.keys
      /\ \A j \in 1 .. Len(b.kids) : j # i => before[b.kids[j]] = hi[b.kids[j]]
      /\ before[b.kids[i]] = hi[q] /\ hi[b.kids[i]] = u.rank[key]
      /\ lo[q] = u.rank[key] /\ lv[q] = lv[b.kids[i]]
  BY DEF Misses
<1>1. /\ kids \in Seq(T) /\ keys \in Seq(u.keys) /\ Len(kids) = n + 1 /\ n \in Nat /\ i \in 1 .. n + 1
      /\ lo[kids[1]] = l /\ before[kids[n + 1]] = h
  BY <1>0 DEF Node
<1>2. /\ \A j \in 1 .. n : before[kids[j]] = u.rank[keys[j]] /\ lo[kids[j + 1]] = u.rank[keys[j]]
      /\ \A j \in 1 .. n + 1 : lv[kids[j]] + 1 = v
  BY <1>1 DEF Node
<1>3. d \in Seq(T) /\ IsInserted(d, kids, i + 1, q)
  <2>1. i + 1 \in 1 .. Len(kids) + 1
    BY <1>1
  <2> HIDE DEF d
  <2> QED BY <1>0, <1>1, <2>1, Inserted DEF d
<1>4. e \in Seq(u.keys) /\ IsInserted(e, keys, i, key)
  BY <1>0, <1>1, Inserted
<1>5. \A j \in 1 .. n + 1 : j # i => before[kids[j]] = hi[kids[j]]
  BY <1>0, <1>1
<1>6. before[kids[i]] = hi[q] /\ hi[kids[i]] = u.rank[key] /\ lo[q] = u.rank[key] /\ lv[q] = lv[kids[i]]
  BY <1>0
<1> HIDE DEF n, kids, keys, d, e
<1>7. /\ Len(d) = n + 2 /\ d[i + 1] = q
      /\ \A j \in 1 .. i : d[j] = kids[j]
      /\ \A j \in i + 2 .. n + 2 : d[j] = kids[j - 1]
  <2>1. /\ Len(d) = Len(kids) + 1 /\ d[i + 1] = q
        /\ \A j \in 1 .. (i + 1) - 1 : d[j] = kids[j]
        /\ \A j \in (i + 1) + 1 .. Len(kids) + 1 : d[j] = kids[j - 1]
    BY <1>3 DEF IsInserted
  <2>2. (i + 1) - 1 = i /\ (i + 1) + 1 = i + 2 /\ Len(kids) + 1 = n + 2
    BY <1>1
  <2> QED BY <2>1, <2>2
<1>8. /\ Len(e) = n + 1 /\ e[i] = key
      /\ \A j \in 1 .. i - 1 : e[j] = keys[j]
      /\ \A j \in i + 1 .. n + 1 : e[j] = keys[j - 1]
  BY <1>4 DEF IsInserted, n, keys
<1>9. lo[d[1]] = l
  <2>1. 1 \in 1 .. i
    BY <1>1
  <2>2. d[1] = kids[1]
    BY <1>7, <2>1
  <2> QED BY <1>1, <2>2
<1>10. hi[d[n + 2]] = h
  <2>1. CASE i = n + 1
    <3>1. d[n + 2] = q
      <4>1. i + 1 = n + 2
        BY <1>1, <2>1
      <4> QED BY <1>7, <4>1
    <3>2. before[kids[i]] = h
      BY <1>1, <2>1
    <3> QED BY <1>6, <3>1, <3>2
  <2>2. CASE i # n + 1
    <3>1. n + 2 \in i + 2 .. n + 2 /\ (n + 2) - 1 = n + 1 /\ n + 1 \in 1 .. n + 1
      BY <1>1, <2>2
    <3>2. d[n + 2] = kids[n + 1]
      BY <1>7, <3>1
    <3>3. hi[kids[n + 1]] = before[kids[n + 1]]
      BY <1>5, <2>2, <3>1
    <3> QED BY <1>1, <3>2, <3>3
  <2> QED BY <2>1, <2>2
<1>11. ASSUME NEW j \in 1 .. n + 1 PROVE hi[d[j]] = u.rank[e[j]] /\ lo[d[j + 1]] = u.rank[e[j]]
  <2>1. CASE j < i
    <3>1. j \in 1 .. i /\ j + 1 \in 1 .. i /\ j \in 1 .. i - 1 /\ j \in 1 .. n /\ j # i
      BY <1>1, <2>1
    <3>2. d[j] = kids[j] /\ d[j + 1] = kids[j + 1] /\ e[j] = keys[j]
      BY <1>7, <1>8, <3>1
    <3>3. hi[kids[j]] = before[kids[j]]
      BY <1>5, <3>1
    <3> QED BY <1>2, <3>1, <3>2, <3>3
  <2>2. CASE j = i
    <3>1. i \in 1 .. i /\ d[i] = kids[i]
      BY <1>1, <1>7
    <3> QED BY <1>6, <1>7, <1>8, <2>2, <3>1
  <2>3. CASE j = i + 1
    <3>1. /\ i \in 1 .. n /\ j + 1 \in i + 2 .. n + 2 /\ (j + 1) - 1 = i + 1
          /\ j \in i + 1 .. n + 1 /\ j - 1 = i
      BY <1>1, <2>3
    <3>2. d[j] = q /\ d[j + 1] = kids[i + 1] /\ e[j] = keys[i]
      BY <1>7, <1>8, <2>3, <3>1
    <3>3. before[kids[i]] = u.rank[keys[i]] /\ lo[kids[i + 1]] = u.rank[keys[i]]
      BY <1>2, <3>1
    <3> QED BY <1>6, <3>2, <3>3
  <2>4. CASE j > i + 1
    <3>1. /\ j \in i + 2 .. n + 2 /\ j + 1 \in i + 2 .. n + 2 /\ (j + 1) - 1 = j
          /\ j \in i + 1 .. n + 1 /\ j - 1 \in 1 .. n /\ j - 1 # i /\ (j - 1) + 1 = j
      <4>1. n \in Nat /\ i \in 1 .. n + 1 /\ j \in 1 .. n + 1 /\ j > i + 1
        BY <1>1, <2>4
      <4> QED BY <4>1
    <3>2. d[j] = kids[j - 1] /\ d[j + 1] = kids[j] /\ e[j] = keys[j - 1]
      BY <1>7, <1>8, <3>1
    <3>3. before[kids[j - 1]] = u.rank[keys[j - 1]] /\ lo[kids[(j - 1) + 1]] = u.rank[keys[j - 1]]
      BY <1>2, <3>1
    <3>4. hi[kids[j - 1]] = before[kids[j - 1]]
      <4>1. j - 1 \in 1 .. n + 1
        BY <1>1, <3>1
      <4> QED BY <1>5, <3>1, <4>1
    <3> QED BY <3>1, <3>2, <3>3, <3>4
  <2> QED BY <1>1, <2>1, <2>2, <2>3, <2>4
<1>12. ASSUME NEW j \in 1 .. n + 2 PROVE lv[d[j]] + 1 = v
  <2>1. CASE j \in 1 .. i
    <3>1. j \in 1 .. n + 1
      BY <1>1, <2>1
    <3> QED BY <1>2, <1>7, <2>1, <3>1
  <2>2. CASE j = i + 1
    BY <1>1, <1>2, <1>6, <1>7, <2>2
  <2>3. CASE j \in i + 2 .. n + 2
    <3>1. j - 1 \in 1 .. n + 1
      BY <1>1, <2>3
    <3> QED BY <1>2, <1>7, <2>3, <3>1
  <2> QED BY <1>1, <2>1, <2>2, <2>3
<1> DEFINE c == BranchPage(d, e)
<1>13. c.kids = d /\ c.keys = e
  BY DEF BranchPage
<1> HIDE DEF c
<1>14. Node(u, T, c, l, h, v, lo, hi, lv)
  <2>1. Len(c.kids) = n + 2 /\ Len(c.keys) = n + 1 /\ Len(c.kids) = Len(c.keys) + 1
    BY <1>1, <1>7, <1>8, <1>13
  <2>2. c.kids \in Seq(T) /\ c.keys \in Seq(u.keys)
    BY <1>3, <1>4, <1>13
  <2>3. lo[c.kids[1]] = l /\ hi[c.kids[Len(c.kids)]] = h
    BY <1>9, <1>10, <1>13, <2>1
  <2>4. \A j \in 1 .. Len(c.keys) : hi[c.kids[j]] = u.rank[c.keys[j]] /\ lo[c.kids[j + 1]] = u.rank[c.keys[j]]
    BY <1>11, <1>13, <2>1
  <2>5. \A j \in 1 .. Len(c.kids) : lv[c.kids[j]] + 1 = v
    BY <1>12, <1>13, <2>1
  <2> QED BY <2>1, <2>2, <2>3, <2>4, <2>5 DEF Node
<1> QED BY <1>8, <1>14 DEF c, d, e, n

\* A branch page cut at separator mid, which goes to the parent.
LEMMA NodeCut ==
    ASSUME NEW u, IsSpace(u), NEW T, NEW b, NEW l, NEW h, NEW v, NEW lo, NEW hi, NEW lv,
           Node(u, T, b, l, h, v, lo, hi, lv),
           NEW mid \in 1 .. Len(b.keys)
    PROVE  /\ Node(u, T, BranchPage(SubSeq(b.kids, 1, mid), SubSeq(b.keys, 1, mid - 1)),
                   l, u.rank[b.keys[mid]], v, lo, hi, lv)
           /\ Node(u, T, BranchPage(SubSeq(b.kids, mid + 1, Len(b.kids)), SubSeq(b.keys, mid + 1, Len(b.keys))),
                   u.rank[b.keys[mid]], h, v, lo, hi, lv)
<1> DEFINE n == Len(b.keys)
           kids == b.kids
           keys == b.keys
<1>1. /\ kids \in Seq(T) /\ keys \in Seq(u.keys) /\ Len(kids) = n + 1 /\ n \in Nat /\ mid \in 1 .. n
      /\ Len(keys) = n /\ lo[kids[1]] = l /\ hi[kids[n + 1]] = h
  BY DEF Node
<1>2. /\ \A j \in 1 .. n : hi[kids[j]] = u.rank[keys[j]] /\ lo[kids[j + 1]] = u.rank[keys[j]]
      /\ \A j \in 1 .. n + 1 : lv[kids[j]] + 1 = v
  BY <1>1 DEF Node
<1> DEFINE a == SubSeq(kids, 1, mid)
           as == SubSeq(keys, 1, mid - 1)
           z == SubSeq(kids, mid + 1, Len(kids))
           zs == SubSeq(keys, mid + 1, Len(keys))
<1> HIDE DEF n, kids, keys
<1>3. a \in Seq(T) /\ Len(a) = mid /\ \A j \in 1 .. mid : a[j] = kids[j]
  BY <1>1
<1>4. as \in Seq(u.keys) /\ Len(as) = mid - 1 /\ \A j \in 1 .. mid - 1 : as[j] = keys[j]
  <2> DEFINE w == mid - 1
             S == u.keys
  <2>1. keys \in Seq(S) /\ 1 \in Nat /\ w \in Nat /\ 1 <= w + 1 /\ w <= Len(keys)
    BY <1>1
  <2>2. w - 1 + 1 = w /\ \A j \in 1 .. w : 1 + j - 1 = j
    BY <1>1
  <2> HIDE DEF w, S
  <2>3. /\ SubSeq(keys, 1, w) \in Seq(S) /\ Len(SubSeq(keys, 1, w)) = w - 1 + 1
        /\ \A j \in 1 .. w - 1 + 1 : SubSeq(keys, 1, w)[j] = keys[1 + j - 1]
    BY <2>1, PartIs
  <2> QED BY <2>2, <2>3 DEF w, S
<1>5. z \in Seq(T) /\ Len(z) = n + 1 - mid /\ \A j \in 1 .. n + 1 - mid : z[j] = kids[mid + j]
  BY <1>1
<1>6. zs \in Seq(u.keys) /\ Len(zs) = n - mid /\ \A j \in 1 .. n - mid : zs[j] = keys[mid + j]
  <2> DEFINE w == mid + 1
             S == u.keys
             x == Len(keys)
  <2>1. keys \in Seq(S) /\ w \in Nat /\ x \in Nat /\ 1 <= w /\ w <= x + 1 /\ x <= Len(keys)
    BY <1>1
  <2>2. x - w + 1 = n - mid /\ \A j \in 1 .. n - mid : w + j - 1 = mid + j
    BY <1>1
  <2> HIDE DEF w, S, x
  <2>3. /\ SubSeq(keys, w, x) \in Seq(S) /\ Len(SubSeq(keys, w, x)) = x - w + 1
        /\ \A j \in 1 .. x - w + 1 : SubSeq(keys, w, x)[j] = keys[w + j - 1]
    BY <2>1, PartIs
  <2> QED BY <2>2, <2>3 DEF w, S, x
<1> HIDE DEF a, as, z, zs
<1> DEFINE r == u.rank[keys[mid]]
<1>7. Node(u, T, BranchPage(a, as), l, r, v, lo, hi, lv)
  <2> DEFINE c == BranchPage(a, as)
  <2>1. c.kids = a /\ c.keys = as
    BY DEF BranchPage
  <2> HIDE DEF c
  <2>2. lo[a[1]] = l /\ hi[a[mid]] = r
    <3>1. 1 \in 1 .. mid /\ mid \in 1 .. mid
      BY <1>1
    <3> QED BY <1>1, <1>2, <1>3, <3>1
  <2>3. \A j \in 1 .. mid - 1 : hi[a[j]] = u.rank[as[j]] /\ lo[a[j + 1]] = u.rank[as[j]]
    <3> TAKE j \in 1 .. mid - 1
    <3>1. j \in 1 .. mid /\ j + 1 \in 1 .. mid /\ j \in 1 .. n
      BY <1>1
    <3> QED BY <1>2, <1>3, <1>4, <3>1
  <2>4. \A j \in 1 .. mid : lv[a[j]] + 1 = v
    <3> TAKE j \in 1 .. mid
    <3>1. j \in 1 .. n + 1
      BY <1>1
    <3> QED BY <1>2, <1>3, <3>1
  <2>5. Len(a) = Len(as) + 1
    BY <1>1, <1>3, <1>4
  <2>6. Node(u, T, c, l, r, v, lo, hi, lv)
    BY <1>3, <1>4, <2>1, <2>2, <2>3, <2>4, <2>5 DEF Node
  <2> QED BY <2>6 DEF c
<1>8. Node(u, T, BranchPage(z, zs), r, h, v, lo, hi, lv)
  <2> DEFINE c == BranchPage(z, zs)
  <2>1. c.kids = z /\ c.keys = zs
    BY DEF BranchPage
  <2> HIDE DEF c
  <2>2. lo[z[1]] = r /\ hi[z[n + 1 - mid]] = h
    <3>1. 1 \in 1 .. n + 1 - mid /\ n + 1 - mid \in 1 .. n + 1 - mid /\ mid + (n + 1 - mid) = n + 1
      BY <1>1
    <3> QED BY <1>1, <1>2, <1>5, <3>1
  <2>3. \A j \in 1 .. n - mid : hi[z[j]] = u.rank[zs[j]] /\ lo[z[j + 1]] = u.rank[zs[j]]
    <3> TAKE j \in 1 .. n - mid
    <3>1. /\ j \in 1 .. n + 1 - mid /\ j + 1 \in 1 .. n + 1 - mid /\ mid + j \in 1 .. n
          /\ mid + (j + 1) = (mid + j) + 1
      BY <1>1
    <3>2. z[j] = kids[mid + j] /\ z[j + 1] = kids[(mid + j) + 1] /\ zs[j] = keys[mid + j]
      BY <1>5, <1>6, <3>1
    <3> QED BY <1>2, <3>1, <3>2
  <2>4. \A j \in 1 .. n + 1 - mid : lv[z[j]] + 1 = v
    <3> TAKE j \in 1 .. n + 1 - mid
    <3>1. mid + j \in 1 .. n + 1
      BY <1>1
    <3> QED BY <1>2, <1>5, <3>1
  <2>5. Len(z) = Len(zs) + 1
    BY <1>1, <1>5, <1>6
  <2>6. Node(u, T, c, r, h, v, lo, hi, lv)
    BY <1>5, <1>6, <2>1, <2>2, <2>3, <2>4, <2>5 DEF Node
  <2> QED BY <2>6 DEF c
<1> QED BY <1>7, <1>8 DEF a, as, z, zs, kids, keys

-----------------------------------------------------------------------------
(* Walks through a tree. *)

Reaches(g, p, z) == g.lo[p] <= z /\ z < g.hi[p]

\* s leads from the root to the leaf for place z.
Descent(t, g, s, z) ==
    /\ s \in Seq(InTree(t.pages)) /\ Len(s) = g.lv[t.root] + 1 /\ s[1] = t.root
    /\ \A i \in 1 .. Len(s) : Reaches(g, s[i], z) /\ g.lv[s[i]] = Len(s) - i

\* A walk that takes, on each page for place z, the child for z is a descent.
LeadsDown(u, t, g, z, link) ==
    /\ link \in [1 .. u.n -> 0 .. u.n]
    /\ \A p \in 1 .. u.n : t.pages[p].kind # "branch" => link[p] = 0
    /\ \A p \in 1 .. u.n : t.pages[p].kind = "branch" /\ Reaches(g, p, z) =>
           link[p] \in InTree(t.pages) /\ Reaches(g, link[p], z) /\ g.lv[link[p]] + 1 = g.lv[p]
Steps(s, link) == \A i \in 1 .. Len(s) - 1 : s[i + 1] = link[s[i]]
LEMMA Descends ==
    ASSUME NEW u, IsSpace(u), NEW t, NEW g, Whole(u, t, g), NEW z \in Nat, z < u.top,
           NEW link, LeadsDown(u, t, g, z, link)
    PROVE  Descent(t, g, Follow(link, t.root, u.n), z) /\ Steps(Follow(link, t.root, u.n), link)
<1> /\ link \in [1 .. u.n -> 0 .. u.n]
    /\ \A p \in 1 .. u.n : t.pages[p].kind # "branch" => link[p] = 0
    /\ \A p \in 1 .. u.n : t.pages[p].kind = "branch" /\ Reaches(g, p, z) =>
           link[p] \in InTree(t.pages) /\ Reaches(g, link[p], z) /\ g.lv[link[p]] + 1 = g.lv[p]
  BY DEF LeadsDown
<1> DEFINE s == Follow(link, t.root, u.n)
           T == InTree(t.pages)
           n == u.n
           r == t.root
           lv == g.lv
<1>1. /\ n \in Nat \ {0} /\ DOMAIN t.pages = 1 .. n /\ T \subseteq 1 .. n /\ r \in T /\ r \in 1 .. n
      /\ lv[r] + 2 <= n + 1 /\ lv[r] \in Nat /\ g.lo[r] = 0 /\ g.hi[r] = u.top
      /\ \A p \in T : lv[p] \in Nat /\ (lv[p] = 0 <=> t.pages[p].kind = "leaf")
      /\ \A p \in T : t.pages[p].kind \in {"leaf", "branch"}
  <2>1. Frame(u, t, g) /\ g.hi[r] = u.top
    BY DEF Whole, Standing
  <2>2. DOMAIN t.pages = 1 .. n /\ t.free \in 2 .. n + 1 /\ r \in T /\ IsCover(u, g) /\ n \in Nat
        /\ lv[r] + 2 <= t.free /\ g.lo[r] = 0
    BY <2>1 DEF Frame, IsSpace
  <2>3. T \subseteq 1 .. n /\ \A p \in T : t.pages[p].kind \in {"leaf", "branch"}
    BY <2>2 DEF InTree
  <2>4. \A p \in 1 .. n : lv[p] \in Nat
    BY <2>2 DEF IsCover
  <2>5. \A p \in T : (lv[p] = 0 <=> t.pages[p].kind = "leaf")
    BY <2>1 DEF Frame
  <2>6. lv[r] + 2 <= n + 1 /\ n # 0
    <3>1. r \in 1 .. n /\ lv[r] \in Nat
      BY <2>2, <2>3, <2>4
    <3> DEFINE m == lv[r]
               f == t.free
    <3>2. n \in Nat /\ m \in Nat /\ f \in 2 .. n + 1 /\ m + 2 <= f
      BY <2>2, <3>1
    <3> HIDE DEF m, f, n
    <3>3. m + 2 <= n + 1 /\ n # 0
      BY <3>2
    <3> QED BY <3>3 DEF m, n
  <2> QED BY <2>1, <2>2, <2>3, <2>4, <2>5, <2>6
<1>2. s \in Seq(1 .. n) /\ IsWalk(link, s, r, n)
  <2> DEFINE S == 1 .. n
  <2>1. 0 \notin S /\ link \in [S -> S \cup {0}] /\ r \in S
    BY <1>1
  <2> HIDE DEF S, n, r
  <2>2. Follow(link, r, n) \in Seq(S) /\ IsWalk(link, Follow(link, r, n), r, n)
    BY <1>1, <2>1, FollowIs
  <2> QED BY <2>2 DEF S, n, r
<1>3. /\ Len(s) \in 1 .. n /\ s[1] = r
      /\ \A i \in 1 .. Len(s) - 1 : link[s[i]] # 0 /\ s[i + 1] = link[s[i]]
      /\ Len(s) = n \/ link[s[Len(s)]] = 0
  BY <1>2 DEF IsWalk
<1>4. \A p \in T : Reaches(g, p, z) /\ link[p] # 0 =>
          link[p] \in T /\ Reaches(g, link[p], z) /\ lv[link[p]] + 1 = lv[p]
  BY <1>1
<1>5. \A p \in T : Reaches(g, p, z) /\ link[p] = 0 => lv[p] = 0
  <2> SUFFICES ASSUME NEW p \in T, Reaches(g, p, z), link[p] = 0 PROVE lv[p] = 0
    OBVIOUS
  <2>1. p \in 1 .. n /\ 0 \notin T
    BY <1>1
  <2>2. t.pages[p].kind # "branch"
    BY <2>1
  <2> QED BY <1>1, <2>2
<1>6. Reaches(g, r, z)
  BY <1>1 DEF Reaches
<1> HIDE DEF s, T, r, lv
<1> DEFINE Good == {i \in 1 .. Len(s) : s[i] \in T /\ Reaches(g, s[i], z) /\ lv[s[i]] = lv[r] + 1 - i}
<1>7. 1 \in Good
  BY <1>1, <1>3, <1>6
<1>8. ASSUME NEW i \in 1 .. Len(s) - 1, i \in Good PROVE i + 1 \in Good
  <2>1. s[i] \in T /\ Reaches(g, s[i], z) /\ link[s[i]] # 0 /\ s[i + 1] = link[s[i]] /\ lv[s[i]] = lv[r] + 1 - i
    BY <1>3, <1>8
  <2>2. s[i + 1] \in T /\ Reaches(g, s[i + 1], z) /\ lv[s[i + 1]] + 1 = lv[s[i]]
    BY <1>4, <2>1
  <2>3. lv[s[i + 1]] = lv[r] + 1 - (i + 1) /\ i + 1 \in 1 .. Len(s)
    <3> DEFINE x == lv[s[i + 1]]
               y == lv[r]
    <3>1. x \in Nat /\ y \in Nat /\ x + 1 = y + 1 - i
      BY <1>1, <2>1, <2>2
    <3> HIDE DEF x, y
    <3>2. x = y + 1 - (i + 1)
      BY <3>1
    <3>3. i + 1 \in 1 .. Len(s)
      BY <1>3
    <3> QED BY <3>2, <3>3 DEF x, y
  <2> QED BY <2>2, <2>3
<1> HIDE DEF Good
<1>9. \A i \in 1 .. Len(s) : i \in Good
  <2>1. 1 \in Nat /\ Len(s) \in Nat
    BY <1>3
  <2> QED BY <1>7, <1>8, <2>1, Upwards
<1>10. \A i \in 1 .. Len(s) : s[i] \in T /\ Reaches(g, s[i], z) /\ lv[s[i]] = lv[r] + 1 - i
  BY <1>9 DEF Good
<1>11. Len(s) = lv[r] + 1
  <2> DEFINE m == Len(s)
  <2>0. m \in 1 .. n /\ m \in 1 .. Len(s)
    BY <1>3
  <2>1. m \in 1 .. n /\ s[m] \in T /\ Reaches(g, s[m], z) /\ lv[s[m]] = lv[r] + 1 - m /\ lv[s[m]] \in Nat
    <3> HIDE DEF m
    <3>1. s[m] \in T /\ Reaches(g, s[m], z) /\ lv[s[m]] = lv[r] + 1 - m
      BY <1>10, <2>0
    <3> QED BY <1>1, <2>0, <3>1
  <2>m. m = n \/ link[s[m]] = 0
    BY <1>3
  <2> HIDE DEF m
  <2> DEFINE x == lv[s[m]]
             y == lv[r]
  <2>x. x \in Nat /\ y \in Nat /\ x = y + 1 - m /\ y + 2 <= n + 1 /\ n \in Nat /\ m \in 1 .. n
    BY <1>1, <2>1
  <2> HIDE DEF x, y
  <2>2. CASE m = n
    <3>1. m = y + 1
      BY <2>x, <2>2
    <3> QED BY <3>1 DEF m, y
  <2>3. CASE link[s[m]] = 0
    <3>1. x = 0
      BY <1>5, <2>1, <2>3 DEF x
    <3>2. m = y + 1
      BY <2>x, <3>1
    <3> QED BY <3>2 DEF m, y
  <2> QED BY <2>2, <2>3, <2>m DEF m
<1>12. s \in Seq(T)
  BY <1>2, <1>10
<1>13. \A i \in 1 .. Len(s) : lv[s[i]] = Len(s) - i
  BY <1>1, <1>10, <1>11
<1>14. Steps(s, link)
  BY <1>3 DEF Steps
<1>15. Descent(t, g, s, z)
  BY <1>3, <1>10, <1>11, <1>12, <1>13 DEF Descent, s, T, r, lv
<1> QED BY <1>14, <1>15 DEF s

\* The chain of leaves L, each for the numbers a[p] .. b[p] - 1, linked from each
\* to the one that joins it: it shows every leaf from the first on, in order.
Joins(N, L, top, a, b, link) ==
    /\ N \in Nat \ {0} /\ L \in SUBSET (1 .. N) /\ top \in Nat
    /\ \A p \in L : a[p] \in Nat /\ b[p] \in Nat /\ a[p] < b[p] /\ b[p] <= top
    /\ \A p, q \in L : p # q => b[p] <= a[q] \/ b[q] <= a[p]
    /\ link \in [1 .. N -> 0 .. N]
    /\ \A p \in L : b[p] = top => link[p] = 0
    /\ \A p \in L : b[p] # top => link[p] \in L /\ a[link[p]] = b[p]
IsChain(L, top, a, b, first, s) ==
    /\ s \in Seq(L) /\ Len(s) \in Nat \ {0} /\ s[1] = first
    /\ \A i, j \in 1 .. Len(s) : i < j => b[s[i]] <= a[s[j]]
    /\ b[s[Len(s)]] = top
    /\ \A q \in L : a[first] <= a[q] => \E i \in 1 .. Len(s) : s[i] = q
LEMMA ChainIs ==
    ASSUME NEW N, NEW L, NEW top, NEW a, NEW b, NEW link, Joins(N, L, top, a, b, link), NEW first \in L
    PROVE  IsChain(L, top, a, b, first, Follow(link, first, N)) /\ Steps(Follow(link, first, N), link)
<1> /\ N \in Nat \ {0} /\ L \in SUBSET (1 .. N) /\ top \in Nat
    /\ \A p \in L : a[p] \in Nat /\ b[p] \in Nat /\ a[p] < b[p] /\ b[p] <= top
    /\ \A p, q \in L : p # q => b[p] <= a[q] \/ b[q] <= a[p]
    /\ link \in [1 .. N -> 0 .. N]
    /\ \A p \in L : b[p] = top => link[p] = 0
    /\ \A p \in L : b[p] # top => link[p] \in L /\ a[link[p]] = b[p]
  BY DEF Joins
<1> DEFINE s == Follow(link, first, N)
<1>1. s \in Seq(1 .. N) /\ IsWalk(link, s, first, N)
  <2> DEFINE S == 1 .. N
  <2>1. 0 \notin S /\ link \in [S -> S \cup {0}] /\ first \in S
    OBVIOUS
  <2> HIDE DEF S
  <2> QED BY <2>1, FollowIs DEF S
<1> HIDE DEF s
<1>2. /\ Len(s) \in 1 .. N /\ s[1] = first
      /\ \A i \in 1 .. Len(s) - 1 : link[s[i]] # 0 /\ s[i + 1] = link[s[i]]
      /\ Len(s) = N \/ link[s[Len(s)]] = 0
  BY <1>1 DEF IsWalk
<1>3. \A p \in L : link[p] # 0 => link[p] \in L /\ a[link[p]] = b[p]
  OBVIOUS
<1>4. \A i \in 1 .. Len(s) : s[i] \in L
  <2> DEFINE Good == {i \in 1 .. Len(s) : s[i] \in L}
  <2>1. 1 \in Good
    BY <1>2
  <2>2. ASSUME NEW i \in 1 .. Len(s) - 1, i \in Good PROVE i + 1 \in Good
    <3>0. s[i] \in L /\ link[s[i]] # 0 /\ s[i + 1] = link[s[i]]
      BY <1>2, <2>2
    <3>1. s[i + 1] \in L
      BY <1>3, <3>0
    <3>2. i + 1 \in 1 .. Len(s)
      BY <1>2
    <3> QED BY <3>1, <3>2
  <2> HIDE DEF Good
  <2>3. \A i \in 1 .. Len(s) : i \in Good
    <3>1. 1 \in Nat /\ Len(s) \in Nat
      BY <1>2
    <3> QED BY <2>1, <2>2, <3>1, Upwards
  <2> QED BY <2>3 DEF Good
<1>5. \A i \in 1 .. Len(s) - 1 : a[s[i + 1]] = b[s[i]]
  <2> TAKE i \in 1 .. Len(s) - 1
  <2>1. i \in 1 .. Len(s)
    BY <1>2
  <2> QED BY <1>2, <1>3, <1>4, <2>1
<1>6. \A i \in 1 .. Len(s) : a[s[i]] \in Nat /\ b[s[i]] \in Nat /\ a[s[i]] < b[s[i]]
  BY <1>4
<1>7. ASSUME NEW i \in 1 .. Len(s), NEW j \in 1 .. Len(s), i < j PROVE b[s[i]] <= a[s[j]]
  <2> DEFINE Good == {k \in i + 1 .. Len(s) : b[s[i]] <= a[s[k]]}
  <2>1. i + 1 \in Good
    <3>1. i \in 1 .. Len(s) - 1 /\ i + 1 \in i + 1 .. Len(s) /\ i + 1 \in 1 .. Len(s)
      BY <1>2, <1>7
    <3> QED BY <1>5, <1>6, <3>1
  <2>2. ASSUME NEW k \in i + 1 .. Len(s) - 1, k \in Good PROVE k + 1 \in Good
    <3>1. k \in 1 .. Len(s) - 1 /\ k \in 1 .. Len(s) /\ k + 1 \in 1 .. Len(s) /\ k + 1 \in i + 1 .. Len(s)
      BY <1>2
    <3>2. b[s[i]] <= a[s[k]] /\ a[s[k]] < b[s[k]] /\ a[s[k + 1]] = b[s[k]]
      BY <1>5, <1>6, <2>2, <3>1
    <3>3. b[s[i]] <= a[s[k + 1]]
      BY <1>6, <3>1, <3>2, SMTT(30)
    <3> QED BY <3>1, <3>3
  <2> HIDE DEF Good
  <2>3. \A k \in i + 1 .. Len(s) : k \in Good
    <3>1. i + 1 \in Nat /\ Len(s) \in Nat
      BY <1>2
    <3> QED BY <2>1, <2>2, <3>1, Upwards
  <2>4. j \in Good
    BY <1>2, <1>7, <2>3
  <2> QED BY <2>4 DEF Good
<1> DEFINE e == s[Len(s)]
<1>8. link[e] = 0
  <2> SUFFICES ASSUME link[e] # 0 PROVE FALSE
    OBVIOUS
  <2> DEFINE S == 1 .. N
             c == Append(s, link[e])
             m == Len(s)
  <2>1. m = N /\ e \in L /\ link[e] \in L /\ a[link[e]] = b[e] /\ m \in 1 .. m
    BY <1>2, <1>3, <1>4
  <2>2. c \in Seq(S) /\ Len(c) = m + 1 /\ c[m + 1] = link[e] /\ \A i \in 1 .. m : c[i] = s[i]
    BY <1>1, <2>1, SMTT(30)
  <2> HIDE DEF c, S, e
  <2>3. \A i \in 1 .. m : b[s[i]] <= b[e]
    <3> TAKE i \in 1 .. m
    <3>1. CASE i = m
      BY <1>6, <3>1 DEF e
    <3>2. CASE i # m
      <4>1. i < m
        BY <1>2, <3>2
      <4>2. b[s[i]] <= a[s[m]] /\ a[s[m]] < b[s[m]]
        BY <1>6, <1>7, <2>1, <4>1
      <4> QED BY <1>6, <2>1, <4>2 DEF e
    <3> QED BY <3>1, <3>2
  <2>4. \A i \in 1 .. m : s[i] # link[e]
    <3> TAKE i \in 1 .. m
    <3>1. a[s[i]] < b[s[i]] /\ b[s[i]] <= b[e] /\ b[e] = a[link[e]] /\ a[s[i]] \in Nat /\ b[s[i]] \in Nat
          /\ b[e] \in Nat
      BY <1>6, <2>1, <2>3
    <3> QED BY <3>1
  <2>5. \A i, j \in 1 .. m : i # j => s[i] # s[j]
    <3>1. \A i, j \in 1 .. m : i < j => s[i] # s[j]
      <4> SUFFICES ASSUME NEW i \in 1 .. m, NEW j \in 1 .. m, i < j PROVE s[i] # s[j]
        OBVIOUS
      <4>1. b[s[i]] <= a[s[j]] /\ a[s[i]] < b[s[i]]
        BY <1>6, <1>7
      <4> QED BY <1>6, <4>1
    <3> SUFFICES ASSUME NEW i \in 1 .. m, NEW j \in 1 .. m, i # j PROVE s[i] # s[j]
      OBVIOUS
    <3>2. i < j \/ j < i
      OBVIOUS
    <3> QED BY <3>1, <3>2
  <2>6. \A i, j \in 1 .. Len(c) : c[i] = c[j] => i = j
    <3> SUFFICES ASSUME NEW i \in 1 .. m + 1, NEW j \in 1 .. m + 1, i # j PROVE c[i] # c[j]
      BY <2>2
    <3>1. CASE i \in 1 .. m /\ j \in 1 .. m
      BY <2>2, <2>5, <3>1
    <3>2. CASE i = m + 1 /\ j \in 1 .. m
      <4>1. c[i] = link[e] /\ c[j] = s[j] /\ s[j] # link[e]
        BY <2>2, <2>4, <3>2
      <4> QED BY <4>1
    <3>3. CASE j = m + 1 /\ i \in 1 .. m
      <4>1. c[j] = link[e] /\ c[i] = s[i] /\ s[i] # link[e]
        BY <2>2, <2>4, <3>3
      <4> QED BY <4>1
    <3>4. m \in Nat
      BY <1>2
    <3> HIDE DEF m
    <3>5. (i \in 1 .. m \/ i = m + 1) /\ (j \in 1 .. m \/ j = m + 1)
      BY <3>4
    <3> QED BY <3>1, <3>2, <3>3, <3>5
  <2>7. IsFiniteSet(S) /\ Cardinality(S) = N
    BY FS_Interval DEF S
  <2>8. Len(c) <= N
    <3>1. Len(c) <= Cardinality(S)
      BY <2>2, <2>6, <2>7, Distinct
    <3> QED BY <2>7, <3>1
  <2> QED BY <2>1, <2>2, <2>8
<1>9. b[e] = top
  <2>1. e \in L /\ 0 \notin L
    BY <1>2, <1>4
  <2> QED BY <1>8, <2>1
<1>10. ASSUME NEW q \in L, a[first] <= a[q] PROVE \E i \in 1 .. Len(s) : s[i] = q
  <2> DEFINE I == {i \in 1 .. Len(s) : a[s[i]] <= a[q]}
  <2>1. I # {} /\ I \subseteq 0 .. N
    <3>1. 1 \in I
      BY <1>2, <1>10
    <3>2. I \subseteq 0 .. N
      BY <1>2
    <3> QED BY <3>1, <3>2
  <2>2. PICK i \in I : \A j \in I : j <= i
    BY <2>1, GreatestNat
  <2>3. i \in 1 .. Len(s) /\ a[s[i]] <= a[q] /\ s[i] \in L
    BY <1>4, <2>2
  <2>4. a[q] < b[s[i]]
    <3>1. CASE i = Len(s)
      <4>1. b[s[i]] = top /\ a[q] < b[q] /\ b[q] <= top /\ a[q] \in Nat /\ b[q] \in Nat
        BY <1>9, <3>1
      <4> QED BY <4>1
    <3>2. CASE i # Len(s)
      <4>1. i \in 1 .. Len(s) - 1 /\ i + 1 \in 1 .. Len(s)
        BY <1>2, <2>3, <3>2
      <4>2. i + 1 \notin I
        BY <2>2, <2>3
      <4>3. ~(a[s[i + 1]] <= a[q]) /\ a[s[i + 1]] = b[s[i]] /\ a[q] \in Nat
        BY <1>5, <4>1, <4>2
      <4> QED BY <1>6, <2>3, <4>3, SMTT(30)
    <3> QED BY <3>1, <3>2
  <2>5. s[i] = q
    <3> SUFFICES ASSUME s[i] # q PROVE FALSE
      OBVIOUS
    <3>1. b[s[i]] <= a[q] \/ b[q] <= a[s[i]]
      BY <2>3
    <3>2. a[q] \in Nat /\ b[q] \in Nat /\ a[q] < b[q] /\ a[s[i]] \in Nat /\ b[s[i]] \in Nat
      BY <2>3
    <3> QED BY <2>3, <2>4, <3>1, <3>2, SMTT(30)
  <2> QED BY <2>3, <2>5
<1>11. s \in Seq(L)
  <2>1. s \in [1 .. Len(s) -> 1 .. N] /\ Len(s) \in Nat
    BY <1>1
  <2>2. s \in [1 .. Len(s) -> L]
    BY <1>4, <2>1
  <2> QED BY <2>1, <2>2, FunctionIsSeq
<1>12. IsChain(L, top, a, b, first, s) /\ Steps(s, link)
  <2>1. /\ s \in Seq(L) /\ Len(s) \in Nat \ {0} /\ s[1] = first
        /\ \A i, j \in 1 .. Len(s) : i < j => b[s[i]] <= a[s[j]]
        /\ \A i \in 1 .. Len(s) - 1 : s[i + 1] = link[s[i]]
        /\ b[s[Len(s)]] = top
        /\ \A q \in L : a[first] <= a[q] => \E i \in 1 .. Len(s) : s[i] = q
    BY <1>2, <1>7, <1>9, <1>10, <1>11 DEF s
  <2> HIDE DEF s
  <2> QED BY <2>1 DEF IsChain, Steps
<1> QED BY <1>12 DEF s

-----------------------------------------------------------------------------
(* How a tree changes. *)

\* What Frame says, in parts.
LEMMA FrameIs ==
    ASSUME NEW u, IsSpace(u), NEW t, NEW g, Frame(u, t, g)
    PROVE  /\ DOMAIN t.pages = 1 .. u.n /\ t.free \in 2 .. u.n + 1 /\ u.n \in Nat /\ u.n # 0
           /\ InTree(t.pages) \subseteq 1 .. u.n
           /\ \A p \in 1 .. u.n : g.lo[p] \in Nat /\ g.hi[p] \in Nat /\ g.lv[p] \in Nat
           /\ \A p \in 1 .. u.n : p \in InTree(t.pages) <=> t.pages[p].kind \in {"leaf", "branch"}
           /\ \A p \in InTree(t.pages) : p < t.free
<1>1. DOMAIN t.pages = 1 .. u.n /\ t.free \in 2 .. u.n + 1 /\ u.n \in Nat /\ u.n # 0
  BY DEF Frame, IsSpace
<1>2. InTree(t.pages) \subseteq 1 .. u.n
  BY <1>1 DEF InTree
<1>3. \A p \in 1 .. u.n : g.lo[p] \in Nat /\ g.hi[p] \in Nat /\ g.lv[p] \in Nat
  BY DEF Frame, IsCover
<1>4. \A p \in 1 .. u.n : p \in InTree(t.pages) <=> t.pages[p].kind \in {"leaf", "branch"}
  BY <1>1 DEF InTree
<1>5. ASSUME NEW p \in InTree(t.pages) PROVE p < t.free
  <2>1. p \in 1 .. u.n /\ t.pages[p].kind # "unused"
    BY <1>2, <1>4
  <2>2. ~(p >= t.free)
    BY <2>1 DEF Frame
  <2> QED BY <1>1, <2>1, <2>2
<1> QED BY <1>1, <1>2, <1>3, <1>4, <1>5

IsRange(t, g, hi) == \A p \in InTree(t.pages) : hi[p] \in Nat /\ g.lo[p] < hi[p]

\* Child number i of branch page p is page k.
ChildAt(P, p, i, k) == P[p].kind = "branch" /\ i \in 1 .. Len(P[p].kids) /\ P[p].kids[i] = k

\* A page is the child of one branch page, once.
LEMMA OneParent ==
    ASSUME NEW u, IsSpace(u), NEW t, NEW g, Frame(u, t, g), NEW hi,
           IsRange(t, g, hi), Nodes(u, t, g, hi),
           NEW p \in 1 .. u.n, NEW q \in 1 .. u.n, NEW i, NEW j, NEW k,
           ChildAt(t.pages, p, i, k), ChildAt(t.pages, q, j, k)
    PROVE  p = q /\ i = j
<1> DEFINE T == InTree(t.pages)
           lo == g.lo
           lv == g.lv
<1>0. /\ t.pages[p].kind = "branch" /\ t.pages[q].kind = "branch"
      /\ i \in 1 .. Len(t.pages[p].kids) /\ j \in 1 .. Len(t.pages[q].kids)
      /\ k = t.pages[p].kids[i] /\ k = t.pages[q].kids[j]
  BY DEF ChildAt
<1>1. Node(u, T, t.pages[p], lo[p], g.hi[p], lv[p], lo, hi, lv)
      /\ Node(u, T, t.pages[q], lo[q], g.hi[q], lv[q], lo, hi, lv)
  BY <1>0 DEF Nodes
<1>2. /\ \A x \in 1 .. u.n : lo[x] \in Nat /\ g.hi[x] \in Nat /\ lv[x] \in Nat
      /\ T \subseteq 1 .. u.n /\ p \in T /\ q \in T
  BY <1>0, FrameIs
<1>k. t.pages[p].kids \in Seq(T)
  BY <1>1 DEF Node
<1>3. k \in T
  <2> DEFINE s == t.pages[p].kids
  <2>1. s \in Seq(T) /\ i \in 1 .. Len(s) /\ k = s[i]
    BY <1>0, <1>k
  <2> HIDE DEF s, T
  <2> QED BY <2>1
<1>4. \A x \in T : lo[x] \in Nat /\ hi[x] \in Nat /\ lo[x] < hi[x]
  BY <1>2 DEF IsRange
<1> DEFINE P == t.pages[p]
           Q == t.pages[q]
<1>5. /\ \A m, n \in 1 .. Len(P.kids) : m < n => hi[P.kids[m]] <= lo[P.kids[n]]
      /\ \A m \in 1 .. Len(P.kids) : lo[p] <= lo[P.kids[m]] /\ hi[P.kids[m]] <= g.hi[p]
  <2> HIDE DEF T, lo, lv, P
  <2> QED BY <1>1, <1>2, <1>4, NodeWithin DEF P
<1>6. \A m \in 1 .. Len(Q.kids) : lo[q] <= lo[Q.kids[m]] /\ hi[Q.kids[m]] <= g.hi[q]
  <2> HIDE DEF T, lo, lv, Q
  <2> QED BY <1>1, <1>2, <1>4, NodeWithin DEF Q
<1>7. lv[p] = lv[q]
  <2>1. lv[k] + 1 = lv[p] /\ lv[k] + 1 = lv[q]
    BY <1>0, <1>1 DEF Node
  <2> QED BY <2>1
<1>8. p = q
  <2> SUFFICES ASSUME p # q PROVE FALSE
    OBVIOUS
  <2>1. g.hi[p] <= lo[q] \/ g.hi[q] <= lo[p]
    BY <1>2, <1>7 DEF Frame
  <2>2. lo[p] <= lo[k] /\ hi[k] <= g.hi[p] /\ lo[q] <= lo[k] /\ hi[k] <= g.hi[q]
    BY <1>0, <1>5, <1>6
  <2>3. lo[k] < hi[k] /\ lo[k] \in Nat /\ hi[k] \in Nat
    BY <1>3, <1>4
  <2> DEFINE a == lo[k]
             b == hi[k]
             c == g.hi[p]
             d == g.hi[q]
  <2>4. /\ c \in Nat /\ d \in Nat /\ a \in Nat /\ b \in Nat /\ lo[p] \in Nat /\ lo[q] \in Nat
        /\ a < b
        /\ c <= lo[q] \/ d <= lo[p]
    BY <1>2, <2>1, <2>3
  <2>5. lo[p] <= a /\ b <= c /\ lo[q] <= a /\ b <= d
    BY <2>2
  <2> HIDE DEF a, b, c, d
  <2> QED BY <2>3, <2>4, <2>5
<1>9. i = j
  <2>1. \A m, n \in 1 .. Len(P.kids) : m < n => P.kids[m] # P.kids[n]
    <3> SUFFICES ASSUME NEW m \in 1 .. Len(P.kids), NEW n \in 1 .. Len(P.kids), m < n
                 PROVE  P.kids[m] # P.kids[n]
      OBVIOUS
    <3> DEFINE s == P.kids
               x == s[m]
               y == s[n]
    <3>1. s \in Seq(T) /\ m \in 1 .. Len(s)
      BY <1>k
    <3>2. x \in T
      <4> HIDE DEF s, T
      <4> QED BY <3>1
    <3>3. hi[x] <= lo[y]
      BY <1>5
    <3>4. lo[x] < hi[x] /\ lo[x] \in Nat /\ hi[x] \in Nat
      BY <1>4, <3>2
    <3> HIDE DEF x, y
    <3>5. x # y
      BY <3>3, <3>4
    <3> QED BY <3>5 DEF x, y
  <2>2. P.kids[i] = P.kids[j] /\ i \in 1 .. Len(P.kids) /\ j \in 1 .. Len(P.kids)
    BY <1>0, <1>8
  <2> HIDE DEF P
  <2>3. ~(i < j) /\ ~(j < i)
    BY <2>1, <2>2
  <2>4. i \in Int /\ j \in Int
    BY <2>2
  <2> QED BY <2>3, <2>4
<1> QED BY <1>8, <1>9

\* No page is the child of two branches, or the child of one in two slots.
Alone(u, t) ==
    \A p, q \in 1 .. u.n :
        t.pages[p].kind = "branch" /\ t.pages[q].kind = "branch" =>
            \A i \in 1 .. Len(t.pages[p].kids) : \A j \in 1 .. Len(t.pages[q].kids) :
                t.pages[p].kids[i] = t.pages[q].kids[j] => p = q /\ i = j

LEMMA AllAlone ==
    ASSUME NEW u, IsSpace(u), NEW t, NEW g, Frame(u, t, g), NEW hi,
           IsRange(t, g, hi), Nodes(u, t, g, hi)
    PROVE  Alone(u, t)
<1> SUFFICES ASSUME NEW p \in 1 .. u.n, NEW q \in 1 .. u.n,
                    t.pages[p].kind = "branch", t.pages[q].kind = "branch",
                    NEW i \in 1 .. Len(t.pages[p].kids), NEW j \in 1 .. Len(t.pages[q].kids),
                    t.pages[p].kids[i] = t.pages[q].kids[j]
             PROVE  p = q /\ i = j
  BY DEF Alone
<1> DEFINE k == t.pages[p].kids[i]
<1>1. ChildAt(t.pages, p, i, k) /\ ChildAt(t.pages, q, j, k)
  BY DEF ChildAt
<1> HIDE DEF k
<1> QED BY <1>1, OneParent

LEMMA OneSlot ==
    ASSUME NEW u, IsSpace(u), NEW t, NEW g, Frame(u, t, g), NEW hi,
           IsRange(t, g, hi), Nodes(u, t, g, hi),
           NEW p \in 1 .. u.n, NEW i, NEW j, NEW k,
           ChildAt(t.pages, p, i, k), ChildAt(t.pages, p, j, k)
    PROVE  i = j
BY OneParent

\* The tree keeps its pages and its chain; what the leaves hold may change, and
\* overflow pages may be added.
SameShape(P, Q) ==
    /\ DOMAIN Q = DOMAIN P
    /\ \A p \in DOMAIN P : /\ p \in InTree(P) <=> p \in InTree(Q)
                           /\ P[p].kind = "branch" => Q[p] = P[p]
                           /\ P[p].kind = "leaf" => /\ Q[p].kind = "leaf"
                                                    /\ Q[p].prev = P[p].prev /\ Q[p].next = P[p].next

LEMMA Reshaped ==
    ASSUME NEW u, IsSpace(u), NEW t, NEW g, Whole(u, t, g), NEW t2,
           t2 = [pages |-> t2.pages, free |-> t2.free, root |-> t.root],
           SameShape(t.pages, t2.pages),
           t2.free \in t.free .. u.n + 1,
           \A p \in 1 .. u.n : t2.pages[p] = Unused <=> p >= t2.free,
           \A p \in 1 .. u.n : t2.pages[p].kind = "unused" <=> p >= t2.free
    PROVE  Whole(u, t2, g)
<1> DEFINE P == t.pages
           Q == t2.pages
           T == InTree(P)
<1>1. Frame(u, t, g) /\ Linked(u, t, g) /\ Nodes(u, t, g, g.hi) /\ g.hi[t.root] = u.top
  BY DEF Whole, Standing
<1>2. t2.root = t.root
  OBVIOUS
<1>3. DOMAIN P = 1 .. u.n /\ DOMAIN Q = 1 .. u.n /\ u.n \in Nat
  BY <1>1 DEF Frame, SameShape, IsSpace
<1>4. InTree(Q) = T
  BY DEF InTree, SameShape
<1>5. /\ \A p \in 1 .. u.n : P[p].kind = "branch" => Q[p] = P[p]
      /\ \A p \in 1 .. u.n : P[p].kind = "leaf" => Q[p].kind = "leaf" /\ Q[p].prev = P[p].prev
                                                   /\ Q[p].next = P[p].next
  BY <1>3 DEF SameShape
<1>6. \A p \in 1 .. u.n : /\ Q[p].kind = "branch" => P[p].kind = "branch"
                          /\ Q[p].kind = "leaf" => P[p].kind = "leaf"
  <2> SUFFICES ASSUME NEW p \in 1 .. u.n
               PROVE  /\ Q[p].kind = "branch" => P[p].kind = "branch"
                      /\ Q[p].kind = "leaf" => P[p].kind = "leaf"
    OBVIOUS
  <2>1. P[p].kind \in {"leaf", "branch"} <=> Q[p].kind \in {"leaf", "branch"}
    BY <1>3, <1>4 DEF InTree
  <2> QED BY <1>5, <2>1
<1>7. Frame(u, t2, g)
  <2>1. /\ t.free \in 2 .. u.n + 1 /\ g.lv[t.root] + 2 <= t.free /\ IsCover(u, g)
        /\ t.root \in T /\ g.lo[t.root] = 0 /\ T \subseteq 1 .. u.n
    BY <1>1, <1>3, FrameIs DEF Frame
  <2>2. t2.free \in 2 .. u.n + 1 /\ g.lv[t2.root] + 2 <= t2.free
    <3>1. g.lv[t.root] \in Nat
      BY <2>1 DEF IsCover
    <3> QED BY <1>2, <1>3, <2>1, <3>1
  <2>3. \A p \in InTree(Q) : /\ g.lo[p] < g.hi[p] /\ g.hi[p] <= u.top
                             /\ g.lv[p] <= g.lv[t2.root]
                             /\ g.lv[p] = 0 <=> Q[p].kind = "leaf"
    <3> TAKE p \in InTree(Q)
    <3>1. p \in T /\ p \in 1 .. u.n
      BY <1>4, <2>1
    <3>2. P[p].kind = "leaf" <=> Q[p].kind = "leaf"
      BY <1>5, <1>6, <3>1
    <3> QED BY <1>1, <1>2, <3>1, <3>2 DEF Frame
  <2>4. \A p, q \in InTree(Q) : p # q /\ g.lv[p] = g.lv[q] => g.hi[p] <= g.lo[q] \/ g.hi[q] <= g.lo[p]
    BY <1>1, <1>4 DEF Frame
  <2>5. t2 = [pages |-> t2.pages, free |-> t2.free, root |-> t2.root]
    BY <1>2
  <2>6. t2.root \in InTree(t2.pages) /\ g.lo[t2.root] = 0
    BY <1>2, <1>4, <2>1
  <2> HIDE DEF P, Q, T
  <2> QED BY <1>3, <2>1, <2>2, <2>3, <2>4, <2>5, <2>6 DEF Frame, Q
<1>8. Linked(u, t2, g)
  <2> SUFFICES ASSUME NEW p \in 1 .. u.n, Q[p].kind = "leaf"
               PROVE  /\ g.hi[p] = u.top => Q[p].next = 0
                      /\ g.hi[p] # u.top => /\ Q[p].next \in 1 .. u.n
                                            /\ Q[Q[p].next].kind = "leaf"
                                            /\ g.lo[Q[p].next] = g.hi[p]
                      /\ g.lo[p] = 0 => Q[p].prev = 0
                      /\ g.lo[p] # 0 => /\ Q[p].prev \in 1 .. u.n
                                        /\ Q[Q[p].prev].kind = "leaf"
                                        /\ g.hi[Q[p].prev] = g.lo[p]
    BY DEF Linked
  <2>1. P[p].kind = "leaf" /\ Q[p].prev = P[p].prev /\ Q[p].next = P[p].next
    BY <1>5, <1>6
  <2>2. /\ g.hi[p] = u.top => P[p].next = 0
        /\ g.hi[p] # u.top => /\ P[p].next \in 1 .. u.n
                              /\ P[P[p].next].kind = "leaf"
                              /\ g.lo[P[p].next] = g.hi[p]
        /\ g.lo[p] = 0 => P[p].prev = 0
        /\ g.lo[p] # 0 => /\ P[p].prev \in 1 .. u.n
                          /\ P[P[p].prev].kind = "leaf"
                          /\ g.hi[P[p].prev] = g.lo[p]
    BY <1>1, <2>1 DEF Linked
  <2> HIDE DEF P, Q
  <2> QED BY <1>5, <2>1, <2>2
<1>9. Nodes(u, t2, g, g.hi)
  <2> SUFFICES ASSUME NEW p \in 1 .. u.n, Q[p].kind = "branch"
               PROVE  Node(u, InTree(Q), Q[p], g.lo[p], g.hi[p], g.lv[p], g.lo, g.hi, g.lv)
    BY DEF Nodes
  <2>1. P[p].kind = "branch" /\ Q[p] = P[p]
    BY <1>5, <1>6
  <2> QED BY <1>1, <1>4, <2>1 DEF Nodes
<1> QED BY <1>1, <1>2, <1>7, <1>8, <1>9 DEF Whole, Standing

\* Page c gives the places from m on to page q.
Halved(u, g, c, q, m) ==
    [lo |-> [p \in 1 .. u.n |-> IF p = q THEN m ELSE g.lo[p]],
     hi |-> [p \in 1 .. u.n |-> IF p = q THEN g.hi[c] ELSE IF p = c THEN m ELSE g.hi[p]],
     lv |-> [p \in 1 .. u.n |-> IF p = q THEN g.lv[c] ELSE g.lv[p]]]

LEMMA HalvedFrame ==
    ASSUME NEW u, IsSpace(u), NEW t, NEW g, Frame(u, t, g), NEW c \in InTree(t.pages),
           t.free <= u.n, NEW m \in Nat, g.lo[c] < m, m < g.hi[c], NEW t2,
           t2 = [pages |-> t2.pages, free |-> t.free + 1, root |-> t.root],
           DOMAIN t2.pages = 1 .. u.n,
           InTree(t2.pages) = InTree(t.pages) \cup {t.free},
           \A p \in InTree(t.pages) : t2.pages[p].kind = t.pages[p].kind,
           t2.pages[t.free].kind = t.pages[c].kind,
           \A p \in 1 .. u.n : t2.pages[p] = Unused <=> p >= t.free + 1,
           \A p \in 1 .. u.n : t2.pages[p].kind = "unused" <=> p >= t.free + 1
    PROVE  Frame(u, t2, Halved(u, g, c, t.free, m))
<1> DEFINE q == t.free
           T == InTree(t.pages)
           h == Halved(u, g, c, q, m)
<1>1. /\ u.n \in Nat /\ T \subseteq 1 .. u.n /\ q \in 1 .. u.n /\ q \in Nat /\ c \in 1 .. u.n /\ q \notin T
      /\ \A p \in 1 .. u.n : g.lo[p] \in Nat /\ g.hi[p] \in Nat /\ g.lv[p] \in Nat
  <2>1. \A p \in T : p < q
    BY FrameIs
  <2>2. T \subseteq 1 .. u.n /\ t.free \in 2 .. u.n + 1 /\ u.n \in Nat
        /\ \A p \in 1 .. u.n : g.lo[p] \in Nat /\ g.hi[p] \in Nat /\ g.lv[p] \in Nat
    BY FrameIs
  <2> QED BY <2>1, <2>2
<1>2. /\ \A p \in T : h.lo[p] = g.lo[p] /\ h.lv[p] = g.lv[p]
      /\ \A p \in T : p # c => h.hi[p] = g.hi[p]
      /\ h.hi[c] = m /\ h.lo[q] = m /\ h.hi[q] = g.hi[c] /\ h.lv[q] = g.lv[c]
  BY <1>1 DEF Halved
<1>3. IsCover(u, h)
  <2>1. /\ \A p \in 1 .. u.n : (IF p = q THEN m ELSE g.lo[p]) \in Nat
        /\ \A p \in 1 .. u.n : (IF p = q THEN g.hi[c] ELSE IF p = c THEN m ELSE g.hi[p]) \in Nat
        /\ \A p \in 1 .. u.n : (IF p = q THEN g.lv[c] ELSE g.lv[p]) \in Nat
    BY <1>1
  <2> QED BY <2>1 DEF IsCover, Halved
<1>4. /\ t.root \in T /\ g.lo[t.root] = 0 /\ g.lv[t.root] + 2 <= t.free
      /\ \A p \in T : /\ g.lo[p] < g.hi[p] /\ g.hi[p] <= u.top
                      /\ g.lv[p] <= g.lv[t.root]
                      /\ g.lv[p] = 0 <=> t.pages[p].kind = "leaf"
      /\ \A p, s \in T : p # s /\ g.lv[p] = g.lv[s] => g.hi[p] <= g.lo[s] \/ g.hi[s] <= g.lo[p]
  BY DEF Frame
<1>t. u.top \in Nat
  BY DEF IsSpace
<1> HIDE DEF h, q, T
<1>5. ASSUME NEW p \in T \cup {q}
      PROVE  /\ h.lo[p] < h.hi[p] /\ h.hi[p] <= u.top /\ h.lv[p] <= h.lv[t.root]
             /\ h.lv[p] = 0 <=> t2.pages[p].kind = "leaf"
  <2>1. CASE p = q
    <3>1. t2.pages[q].kind = t.pages[c].kind /\ c \in T
      BY DEF q, T
    <3> QED BY <1>1, <1>2, <1>4, <2>1, <3>1, SMTT(30)
  <2>2. CASE p = c
    <3>1. t2.pages[c].kind = t.pages[c].kind /\ c \in T
      BY DEF q, T
    <3>2. m < g.hi[c] /\ g.hi[c] <= u.top /\ g.hi[c] \in Nat
      BY <1>1, <1>4, <3>1
    <3>3. m <= u.top
      BY <1>t, <3>2
    <3> QED BY <1>1, <1>2, <1>4, <2>2, <3>1, <3>3, SMTT(30)
  <2>3. CASE p \in T /\ p # c
    <3>1. t2.pages[p].kind = t.pages[p].kind
      BY <2>3 DEF T
    <3> QED BY <1>1, <1>2, <1>4, <2>3, <3>1, SMTT(30)
  <2> QED BY <2>1, <2>2, <2>3
<1>6. ASSUME NEW p \in T \cup {q}, NEW s \in T \cup {q}, p # s, h.lv[p] = h.lv[s]
      PROVE  h.hi[p] <= h.lo[s] \/ h.hi[s] <= h.lo[p]
  <2>0. c \in T
    BY DEF T
  <2>1. ASSUME NEW a \in T, g.lv[a] = g.lv[c] PROVE h.hi[a] <= h.lo[q] \/ h.hi[q] <= h.lo[a]
    <3>1. CASE a = c
      BY <1>2, <2>0, <3>1
    <3>2. CASE a # c
      <4>1. g.hi[a] <= g.lo[c] \/ g.hi[c] <= g.lo[a]
        BY <1>4, <2>0, <2>1, <3>2
      <4>2. a \in 1 .. u.n /\ g.hi[a] \in Nat /\ g.lo[c] \in Nat
        BY <1>1
      <4> QED BY <1>2, <3>2, <4>1, <4>2
    <3> QED BY <3>1, <3>2
  <2>2. ASSUME NEW a \in T, NEW b \in T, a # b, g.lv[a] = g.lv[b]
        PROVE  h.hi[a] <= h.lo[b] \/ h.hi[b] <= h.lo[a]
    <3>1. g.hi[a] <= g.lo[b] \/ g.hi[b] <= g.lo[a]
      BY <1>4, <2>2
    <3>2. /\ a \in 1 .. u.n /\ b \in 1 .. u.n /\ g.hi[a] \in Nat /\ g.lo[a] \in Nat
          /\ g.hi[b] \in Nat /\ g.lo[b] \in Nat
      BY <1>1
    <3>3. h.lo[a] = g.lo[a] /\ h.lo[b] = g.lo[b]
      BY <1>2
    <3>4. CASE a = c
      BY <1>2, <2>2, <3>1, <3>2, <3>3, <3>4
    <3>5. CASE b = c
      BY <1>2, <2>2, <3>1, <3>2, <3>3, <3>5
    <3>6. CASE a # c /\ b # c
      BY <1>2, <3>1, <3>3, <3>6
    <3> QED BY <3>4, <3>5, <3>6
  <2>3. CASE p = q
    <3>1. s \in T /\ g.lv[s] = g.lv[c]
      BY <1>2, <1>6, <2>3
    <3> QED BY <2>1, <2>3, <3>1
  <2>4. CASE s = q
    <3>1. p \in T /\ g.lv[p] = g.lv[c]
      BY <1>2, <1>6, <2>4
    <3> QED BY <2>1, <2>4, <3>1
  <2>5. CASE p \in T /\ s \in T
    BY <1>2, <1>6, <2>2, <2>5
  <2> QED BY <2>3, <2>4, <2>5
<1>7. t2.root = t.root /\ t2.free = q + 1 /\ InTree(t2.pages) = T \cup {q}
  BY DEF q, T
<1>8. h.lv[t2.root] + 2 <= t2.free /\ h.lo[t2.root] = 0 /\ t2.root \in InTree(t2.pages)
  <2>1. t.root \in 1 .. u.n /\ g.lv[t.root] \in Nat /\ g.lv[t.root] + 2 <= q
    BY <1>1, <1>4 DEF q
  <2> QED BY <1>1, <1>2, <1>4, <1>7, <2>1, SMTT(30)
<1>9. t2.free \in 2 .. u.n + 1
  <2>1. t.free \in 2 .. u.n + 1 /\ t.free <= u.n
    BY FrameIs
  <2> QED BY <1>1, <1>7, <2>1 DEF q
<1>10. /\ \A p \in 1 .. u.n : t2.pages[p] = Unused <=> p >= t2.free
       /\ \A p \in 1 .. u.n : t2.pages[p].kind = "unused" <=> p >= t2.free
  BY <1>7 DEF q
<1>11. t2 = [pages |-> t2.pages, free |-> t2.free, root |-> t2.root]
  OBVIOUS
<1>12. Frame(u, t2, h)
  BY <1>3, <1>5, <1>6, <1>7, <1>8, <1>9, <1>10, <1>11 DEF Frame
<1> QED BY <1>12 DEF h, q

\* A branch page stays right when nothing changes for its children.
LEMMA NodeMoved ==
    ASSUME NEW u, NEW T, NEW b, NEW l, NEW h, NEW v, NEW lo, NEW hi, NEW lv,
           Node(u, T, b, l, h, v, lo, hi, lv),
           NEW T2, T \subseteq T2, NEW lo2, NEW hi2, NEW lv2,
           \A i \in 1 .. Len(b.kids) : /\ lo2[b.kids[i]] = lo[b.kids[i]] /\ hi2[b.kids[i]] = hi[b.kids[i]]
                                       /\ lv2[b.kids[i]] = lv[b.kids[i]]
    PROVE  Node(u, T2, b, l, h, v, lo2, hi2, lv2)
<1>1. /\ b.kids \in Seq(T) /\ b.keys \in Seq(u.keys) /\ Len(b.kids) = Len(b.keys) + 1
      /\ lo[b.kids[1]] = l /\ hi[b.kids[Len(b.kids)]] = h
      /\ \A i \in 1 .. Len(b.keys) : /\ hi[b.kids[i]] = u.rank[b.keys[i]]
                                     /\ lo[b.kids[i + 1]] = u.rank[b.keys[i]]
      /\ \A i \in 1 .. Len(b.kids) : lv[b.kids[i]] + 1 = v
  BY DEF Node
<1> DEFINE n == Len(b.keys)
           kids == b.kids
<1>2. n \in Nat /\ Len(kids) = n + 1
  BY <1>1
<1>3. kids \in Seq(T2)
  <2>1. kids \in Seq(T)
    BY <1>1
  <2> HIDE DEF kids
  <2> QED BY <2>1
<1>4. \A i \in 1 .. n + 1 : lo2[kids[i]] = lo[kids[i]] /\ hi2[kids[i]] = hi[kids[i]] /\ lv2[kids[i]] = lv[kids[i]]
  BY <1>2
<1>5. lo2[kids[1]] = l /\ hi2[kids[n + 1]] = h
  <2>1. 1 \in 1 .. n + 1 /\ n + 1 \in 1 .. n + 1
    BY <1>2
  <2> QED BY <1>1, <1>2, <1>4, <2>1
<1>6. \A i \in 1 .. n : hi2[kids[i]] = u.rank[b.keys[i]] /\ lo2[kids[i + 1]] = u.rank[b.keys[i]]
  <2> TAKE i \in 1 .. n
  <2>1. i \in 1 .. n + 1 /\ i + 1 \in 1 .. n + 1
    BY <1>2
  <2> QED BY <1>1, <1>4, <2>1
<1>7. \A i \in 1 .. n + 1 : lv2[kids[i]] + 1 = v
  BY <1>1, <1>2, <1>4
<1> QED BY <1>1, <1>2, <1>3, <1>5, <1>6, <1>7 DEF Node

\* A leaf is split: its parent does not know the new one yet.
LEMMA LeafSplits ==
    ASSUME NEW u, IsSpace(u), NEW t, NEW g, Whole(u, t, g), NEW p \in 1 .. u.n,
           t.pages[p].kind = "leaf", t.free <= u.n,
           NEW up, up.key \in u.keys, up.page = t.free,
           g.lo[p] < u.rank[up.key], u.rank[up.key] < g.hi[p], NEW t2,
           t2 = [pages |-> t2.pages, free |-> t.free + 1, root |-> t.root],
           DOMAIN t2.pages = 1 .. u.n,
           /\ t2.pages[p].kind = "leaf" /\ t2.pages[p].prev = t.pages[p].prev
           /\ t2.pages[p].next = t.free,
           /\ t2.pages[t.free].kind = "leaf" /\ t2.pages[t.free].prev = p
           /\ t2.pages[t.free].next = t.pages[p].next,
           \A x \in 1 .. u.n : x # p /\ x # t.free =>
               IF x = t.pages[p].next
               THEN t2.pages[x].kind = t.pages[x].kind /\ t2.pages[x].next = t.pages[x].next /\ t2.pages[x].prev = t.free
               ELSE t2.pages[x] = t.pages[x]
    PROVE  Pending(u, t2, Halved(u, g, p, t.free, u.rank[up.key]), p, up)
<1> DEFINE q == t.free
           T == InTree(t.pages)
           m == u.rank[up.key]
           h == Halved(u, g, p, q, m)
           P == t.pages
           Q == t2.pages
           nx == t.pages[p].next
<1>1. Frame(u, t, g) /\ Linked(u, t, g) /\ Nodes(u, t, g, g.hi) /\ g.hi[t.root] = u.top
  BY DEF Whole, Standing
<1>2. /\ u.n \in Nat /\ T \subseteq 1 .. u.n /\ q \in 1 .. u.n /\ q \in Nat /\ q \notin T /\ p \in T /\ p # q
      /\ \A x \in 1 .. u.n : g.lo[x] \in Nat /\ g.hi[x] \in Nat /\ g.lv[x] \in Nat
      /\ \A x \in 1 .. u.n : x \in T <=> P[x].kind \in {"leaf", "branch"}
      /\ m \in Nat /\ u.top \in Nat /\ g.lo[p] < m /\ m < g.hi[p]
  <2>1. /\ DOMAIN P = 1 .. u.n /\ t.free \in 2 .. u.n + 1 /\ u.n \in Nat /\ T \subseteq 1 .. u.n
        /\ \A x \in 1 .. u.n : g.lo[x] \in Nat /\ g.hi[x] \in Nat /\ g.lv[x] \in Nat
        /\ \A x \in 1 .. u.n : x \in T <=> P[x].kind \in {"leaf", "branch"}
        /\ \A x \in T : x < q
    BY <1>1, FrameIs
  <2>2. m \in Nat /\ u.top \in Nat
    BY DEF IsSpace
  <2> QED BY <2>1, <2>2, SMTT(30)
<1>3. /\ \A x \in 1 .. u.n : P[x] = Unused <=> x >= q
      /\ \A x \in 1 .. u.n : P[x].kind = "unused" <=> x >= q
      /\ \A x \in T : /\ g.lo[x] < g.hi[x] /\ g.hi[x] <= u.top
                      /\ g.lv[x] = 0 <=> P[x].kind = "leaf"
      /\ \A x, y \in T : x # y /\ g.lv[x] = g.lv[y] => g.hi[x] <= g.lo[y] \/ g.hi[y] <= g.lo[x]
      /\ t.root \in T
  BY <1>1 DEF Frame
<1>4. \A x \in 1 .. u.n : P[x].kind = "leaf" =>
        /\ g.hi[x] = u.top => P[x].next = 0
        /\ g.hi[x] # u.top => /\ P[x].next \in 1 .. u.n
                              /\ P[P[x].next].kind = "leaf"
                              /\ g.lo[P[x].next] = g.hi[x]
        /\ g.lo[x] = 0 => P[x].prev = 0
        /\ g.lo[x] # 0 => /\ P[x].prev \in 1 .. u.n
                          /\ P[P[x].prev].kind = "leaf"
                          /\ g.hi[P[x].prev] = g.lo[x]
  BY <1>1 DEF Linked
<1>5. P[p].kind = "leaf" /\ nx = P[p].next
  OBVIOUS
<1>6. /\ Q[p].kind = "leaf" /\ Q[p].prev = P[p].prev /\ Q[p].next = q
      /\ Q[q].kind = "leaf" /\ Q[q].prev = p /\ Q[q].next = nx
      /\ \A x \in 1 .. u.n : x # p /\ x # q /\ x # nx => Q[x] = P[x]
      /\ \A x \in 1 .. u.n : x # p /\ x # q /\ x = nx =>
            Q[x].kind = P[x].kind /\ Q[x].next = P[x].next /\ Q[x].prev = q
  OBVIOUS
<1>7. /\ \A x \in T : h.lo[x] = g.lo[x] /\ h.lv[x] = g.lv[x]
      /\ \A x \in T : x # p => h.hi[x] = g.hi[x]
      /\ h.hi[p] = m /\ h.lo[q] = m /\ h.hi[q] = g.hi[p] /\ h.lv[q] = g.lv[p]
  BY <1>2 DEF Halved
<1>8. t2.root = t.root /\ t2.free = q + 1 /\ DOMAIN Q = 1 .. u.n
      /\ t2 = [pages |-> t2.pages, free |-> t.free + 1, root |-> t.root]
  OBVIOUS
<1> HIDE DEF h, m, nx, T
<1> DEFINE PP == P
           QQ == Q
\* the new leaf is not in the old tree, and the right neighbour of p is another leaf
<1>9. /\ g.hi[p] # u.top => nx \in 1 .. u.n /\ P[nx].kind = "leaf" /\ g.lo[nx] = g.hi[p] /\ nx # p /\ nx \in T
      /\ g.hi[p] = u.top => nx = 0
  <2>1. /\ g.hi[p] # u.top => nx \in 1 .. u.n /\ P[nx].kind = "leaf" /\ g.lo[nx] = g.hi[p]
        /\ g.hi[p] = u.top => nx = 0
    BY <1>4, <1>5
  <2>2. g.hi[p] # u.top => nx # p /\ nx \in T
    BY <1>2, <1>3, <2>1
  <2> QED BY <2>1, <2>2
<1>10. \A x \in 1 .. u.n : x # q => Q[x].kind = P[x].kind
  <2> TAKE x \in 1 .. u.n
  <2>1. CASE x = p
    BY <1>5, <1>6, <2>1
  <2>2. CASE x # p
    BY <1>6, <2>2
  <2> QED BY <2>1, <2>2
<1>11. InTree(Q) = T \cup {q}
  <2>1. \A x \in 1 .. u.n : x \in InTree(Q) <=> Q[x].kind \in {"leaf", "branch"}
    BY <1>8 DEF InTree
  <2>2. \A x \in 1 .. u.n : x \in InTree(Q) <=> x \in T \cup {q}
    BY <1>2, <1>6, <1>10, <2>1
  <2>3. InTree(Q) \subseteq 1 .. u.n
    BY <1>8 DEF InTree
  <2> HIDE DEF Q
  <2> QED BY <1>2, <2>2, <2>3
<1>12. /\ \A x \in 1 .. u.n : Q[x] = Unused <=> x >= q + 1
       /\ \A x \in 1 .. u.n : Q[x].kind = "unused" <=> x >= q + 1
  <2>0. Unused.kind = "unused"
    BY DEF Unused
  <2>1. ASSUME NEW x \in 1 .. u.n PROVE (Q[x] = Unused <=> x >= q + 1) /\ (Q[x].kind = "unused" <=> x >= q + 1)
    <3>1. CASE x = q
      <4>1. Q[x] # Unused /\ Q[x].kind # "unused" /\ ~(x >= q + 1)
        BY <1>2, <1>6, <2>0, <3>1
      <4> QED BY <4>1
    <3>2. CASE x = p \/ x = nx
      <4>1. P[x].kind = "leaf"
        BY <1>5, <1>9, <3>2
      <4>2. x \in T /\ ~(x >= q) /\ x # q
        BY <1>2, <1>3, <4>1
      <4>3. Q[x].kind = "leaf"
        BY <1>10, <4>1, <4>2
      <4>4. Q[x] # Unused /\ Q[x].kind # "unused" /\ ~(x >= q + 1)
        BY <1>2, <2>0, <4>2, <4>3
      <4> QED BY <4>4
    <3>3. CASE x # q /\ x # p /\ x # nx
      <4>1. Q[x] = P[x]
        BY <1>6, <3>3
      <4>2. x >= q <=> x >= q + 1
        BY <1>2, <3>3
      <4> QED BY <1>3, <4>1, <4>2
    <3> QED BY <3>1, <3>2, <3>3
  <2> QED BY <2>1
<1>13. Frame(u, t2, h)
  <2>1. \A x \in T : Q[x].kind = P[x].kind
    BY <1>2, <1>10
  <2>2. Q[q].kind = P[p].kind
    BY <1>5, <1>6
  <2>3. Frame(u, t2, Halved(u, g, p, t.free, m))
    BY <1>1, <1>2, <1>8, <1>11, <1>12, <2>1, <2>2, HalvedFrame DEF T
  <2> QED BY <2>3 DEF h
<1>14. Linked(u, t2, h)
  <2> DEFINE Right(x) == /\ h.hi[x] = u.top => Q[x].next = 0
                         /\ h.hi[x] # u.top => /\ Q[x].next \in 1 .. u.n
                                               /\ Q[Q[x].next].kind = "leaf"
                                               /\ h.lo[Q[x].next] = h.hi[x]
             Left(x) == /\ h.lo[x] = 0 => Q[x].prev = 0
                        /\ h.lo[x] # 0 => /\ Q[x].prev \in 1 .. u.n
                                          /\ Q[Q[x].prev].kind = "leaf"
                                          /\ h.hi[Q[x].prev] = h.lo[x]
  <2>0. \A y \in 1 .. u.n : P[y].kind = "leaf" => y \in T /\ y # q /\ Q[y].kind = "leaf" /\ h.lo[y] = g.lo[y]
    BY <1>2, <1>7, <1>10
  <2>1. Right(p)
    <3>1. h.hi[p] # u.top /\ h.lo[q] = h.hi[p]
      BY <1>2, <1>3, <1>7
    <3> QED BY <1>2, <1>6, <3>1
  <2>2. Right(q)
    <3>1. CASE g.hi[p] = u.top
      <4>1. h.hi[q] = u.top /\ Q[q].next = 0
        BY <1>6, <1>7, <1>9, <3>1
      <4> QED BY <4>1
    <3>2. CASE g.hi[p] # u.top
      <4>1. nx \in 1 .. u.n /\ P[nx].kind = "leaf" /\ g.lo[nx] = g.hi[p]
        BY <1>9, <3>2
      <4>2. Q[nx].kind = "leaf" /\ h.lo[nx] = g.lo[nx]
        BY <2>0, <4>1
      <4>3. h.hi[q] = g.hi[p] /\ Q[q].next = nx
        BY <1>6, <1>7
      <4> QED BY <3>2, <4>1, <4>2, <4>3
    <3> QED BY <3>1, <3>2
  <2>3. ASSUME NEW x \in T, x # p, P[x].kind = "leaf" PROVE Right(x)
    <3>1. Q[x].next = P[x].next /\ h.hi[x] = g.hi[x]
      BY <1>2, <1>6, <1>7, <2>3
    <3>2. /\ g.hi[x] = u.top => P[x].next = 0
          /\ g.hi[x] # u.top => /\ P[x].next \in 1 .. u.n
                                /\ P[P[x].next].kind = "leaf"
                                /\ g.lo[P[x].next] = g.hi[x]
      BY <1>2, <1>4, <2>3
    <3> DEFINE y == P[x].next
    <3>3. g.hi[x] # u.top => y \in 1 .. u.n /\ Q[y].kind = "leaf" /\ h.lo[y] = g.hi[x]
      <4> HIDE DEF P, Q
      <4> QED BY <2>0, <3>2
    <3> QED BY <3>1, <3>2, <3>3
  <2>4. Left(p)
    <3>1. Q[p].prev = P[p].prev /\ h.lo[p] = g.lo[p]
      BY <1>2, <1>6, <1>7
    <3> DEFINE y == P[p].prev
    <3>2. /\ g.lo[p] = 0 => y = 0
          /\ g.lo[p] # 0 => y \in 1 .. u.n /\ P[y].kind = "leaf" /\ g.hi[y] = g.lo[p]
      BY <1>4, <1>5
    <3>3. g.lo[p] # 0 => y # p /\ y \in T /\ Q[y].kind = "leaf" /\ h.hi[y] = g.lo[p]
      <4> HIDE DEF P, Q, y
      <4>1. g.lo[p] # 0 => y # p
        <5>1. g.lo[p] \in Nat /\ g.lo[p] < g.hi[p]
          BY <1>2, <1>3
        <5>2. g.hi[p] # g.lo[p]
          BY <5>1
        <5> QED BY <3>2, <5>2
      <4> QED BY <1>7, <2>0, <3>2, <4>1
    <3> QED BY <3>1, <3>2, <3>3
  <2>5. Left(q)
    <3>1. h.lo[q] # 0 /\ h.hi[p] = h.lo[q]
      BY <1>2, <1>7
    <3> QED BY <1>6, <3>1
  <2>6. ASSUME NEW x \in T, x # p, P[x].kind = "leaf" PROVE Left(x)
    <3>1. CASE x = nx
      <4>1. g.hi[p] # u.top
        BY <1>2, <1>9, <3>1
      <4>2. g.lo[x] = g.hi[p] /\ h.lo[x] = g.lo[x] /\ h.hi[q] = g.hi[p] /\ Q[x].prev = q
        BY <1>2, <1>6, <1>7, <1>9, <2>6, <3>1, <4>1
      <4>3. h.lo[x] # 0
        BY <1>2, <4>2
      <4> QED BY <1>2, <1>6, <4>2, <4>3
    <3>2. CASE x # nx
      <4> DEFINE y == P[x].prev
      <4>1. Q[x].prev = y /\ h.lo[x] = g.lo[x]
        BY <1>2, <1>6, <1>7, <2>6, <3>2
      <4>2. /\ g.lo[x] = 0 => y = 0
            /\ g.lo[x] # 0 => y \in 1 .. u.n /\ P[y].kind = "leaf" /\ g.hi[y] = g.lo[x]
        BY <1>2, <1>4, <2>6
      <4>3. g.lo[x] # 0 => y # p
        <5> SUFFICES ASSUME g.lo[x] # 0, y = p PROVE FALSE
          OBVIOUS
        <5>1. g.hi[p] = g.lo[x] /\ g.lo[x] < g.hi[x] /\ g.hi[x] <= u.top
          BY <1>3, <4>2
        <5>2. g.lo[x] \in Nat /\ g.hi[x] \in Nat
          BY <1>2
        <5>3. g.hi[p] # u.top
          BY <1>2, <5>1, <5>2
        <5>4. nx \in T /\ g.lo[nx] = g.lo[x] /\ P[nx].kind = "leaf" /\ nx \in 1 .. u.n
          BY <1>9, <5>1, <5>3
        <5>5. g.lv[nx] = 0 /\ g.lv[x] = 0
          BY <1>3, <2>6, <5>4
        <5>6. g.hi[x] <= g.lo[nx] \/ g.hi[nx] <= g.lo[x]
          BY <1>3, <3>2, <5>4, <5>5
        <5>7. g.lo[nx] < g.hi[nx] /\ g.hi[nx] \in Nat
          BY <1>2, <1>3, <5>4
        <5> QED BY <5>1, <5>2, <5>4, <5>6, <5>7
      <4>4. g.lo[x] # 0 => y \in 1 .. u.n /\ Q[y].kind = "leaf" /\ h.hi[y] = g.lo[x]
        <5> HIDE DEF P, Q, y
        <5> QED BY <1>7, <2>0, <4>2, <4>3
      <4> QED BY <4>1, <4>2, <4>4
    <3> QED BY <3>1, <3>2
  <2>7. \A x \in 1 .. u.n : Q[x].kind = "leaf" => x = p \/ x = q \/ (x \in T /\ x # p /\ P[x].kind = "leaf")
    BY <1>2, <1>10
  <2>8. ASSUME NEW x \in 1 .. u.n, Q[x].kind = "leaf" PROVE Right(x) /\ Left(x)
    <3> HIDE DEF Right, Left, P, Q
    <3> QED BY <2>1, <2>2, <2>3, <2>4, <2>5, <2>6, <2>7, <2>8
  <2> QED BY <2>8 DEF Linked
<1>15. Nodes(u, t2, h, Covering(u, h, p, q))
  <2> DEFINE H == Covering(u, h, p, q)
  <2>1. \A x \in T : H[x] = g.hi[x]
    BY <1>2, <1>7 DEF Covering
  <2> HIDE DEF H
  <2> SUFFICES ASSUME NEW x \in 1 .. u.n, Q[x].kind = "branch"
               PROVE  Node(u, T \cup {q}, Q[x], h.lo[x], h.hi[x], h.lv[x], h.lo, H, h.lv)
    BY <1>11 DEF Nodes, H
  <2>2. x # p /\ x # q /\ P[x].kind = "branch" /\ x \in T
    BY <1>2, <1>6, <1>10
  <2>3. x # nx
    BY <1>9, <2>2
  <2>4. Q[x] = P[x] /\ h.lo[x] = g.lo[x] /\ h.hi[x] = g.hi[x] /\ h.lv[x] = g.lv[x]
    BY <1>6, <1>7, <2>2, <2>3
  <2>5. Node(u, T, P[x], g.lo[x], g.hi[x], g.lv[x], g.lo, g.hi, g.lv)
    BY <1>1, <2>2 DEF Nodes, T
  <2> DEFINE b == P[x]
             T2 == T \cup {q}
  <2>6. b.kids \in Seq(T)
    BY <2>5 DEF Node
  <2> HIDE DEF b, T2
  <2>7. \A i \in 1 .. Len(b.kids) : b.kids[i] \in T
    BY <2>6
  <2>8. \A i \in 1 .. Len(b.kids) : /\ h.lo[b.kids[i]] = g.lo[b.kids[i]] /\ H[b.kids[i]] = g.hi[b.kids[i]]
                                    /\ h.lv[b.kids[i]] = g.lv[b.kids[i]]
    BY <1>7, <2>1, <2>7
  <2>9. T \subseteq T2 /\ Node(u, T, b, g.lo[x], g.hi[x], g.lv[x], g.lo, g.hi, g.lv)
    BY <2>5 DEF b, T2
  <2>10. Node(u, T2, b, g.lo[x], g.hi[x], g.lv[x], h.lo, H, h.lv)
    BY <2>8, <2>9, NodeMoved
  <2> QED BY <2>4, <2>10 DEF b, T2
<1>16. Covering(u, h, p, q)[t2.root] = u.top
  <2>1. t.root \in T /\ t.root \in 1 .. u.n /\ g.hi[t.root] = u.top
    BY <1>1, <1>2, <1>3
  <2> QED BY <1>2, <1>7, <1>8, <2>1 DEF Covering
<1>17. /\ p \in InTree(Q) /\ q \in InTree(Q) /\ p # q /\ h.lv[q] = h.lv[p] /\ up.key \in u.keys
       /\ h.hi[p] = u.rank[up.key] /\ h.lo[q] = u.rank[up.key] /\ up.page = q
  BY <1>2, <1>7, <1>11 DEF m
<1>18. Pending(u, t2, h, p, up)
  BY <1>13, <1>14, <1>15, <1>16, <1>17 DEF Pending, Standing
<1> QED BY <1>18 DEF h, m

\* The branch p of child c takes up the page that split off c: it is a node with
\* the new child after c, and every other branch is one as it was.
Absorbs(u, t, g, c, up, p, i) ==
    /\ Node(u, InTree(t.pages),
            BranchPage(InsertAt(t.pages[p].kids, i + 1, up.page), InsertAt(t.pages[p].keys, i, up.key)),
            g.lo[p], g.hi[p], g.lv[p], g.lo, g.hi, g.lv)
    /\ Len(InsertAt(t.pages[p].keys, i, up.key)) = Len(t.pages[p].keys) + 1
    /\ \A x \in 1 .. u.n : x # p /\ t.pages[x].kind = "branch" =>
          Node(u, InTree(t.pages), t.pages[x], g.lo[x], g.hi[x], g.lv[x], g.lo, g.hi, g.lv)
    /\ g.hi[t.root] = u.top
    /\ g.lv[p] = g.lv[c] + 1

\* A page was split: once its parent p has the new page, every branch page is
\* right again.
LEMMA Absorbed ==
    ASSUME NEW u, IsSpace(u), NEW t, NEW g, NEW c, NEW up, Pending(u, t, g, c, up),
           NEW p \in 1 .. u.n, NEW i, ChildAt(t.pages, p, i, c)
    PROVE  Absorbs(u, t, g, c, up, p, i)
<1> DEFINE q == up.page
           T == InTree(t.pages)
           H == Covering(u, g, c, q)
           lo == g.lo
           lv == g.lv
           b == t.pages[p]
<1>0. t.pages[p].kind = "branch" /\ i \in 1 .. Len(b.kids) /\ b.kids[i] = c
  BY DEF ChildAt
<1>1. /\ Frame(u, t, g) /\ Nodes(u, t, g, H) /\ H[t.root] = u.top
      /\ c \in T /\ q \in T /\ c # q /\ lv[q] = lv[c]
      /\ up.key \in u.keys /\ g.hi[c] = u.rank[up.key] /\ lo[q] = u.rank[up.key]
  BY DEF Pending, Standing
<1>2. /\ T \subseteq 1 .. u.n /\ \A x \in 1 .. u.n : lo[x] \in Nat /\ g.hi[x] \in Nat /\ lv[x] \in Nat
      /\ \A x \in T : lo[x] < g.hi[x] /\ lv[x] <= lv[t.root] /\ t.root \in T /\ p \in T
  <2>1. T \subseteq 1 .. u.n /\ p \in T /\ \A x \in 1 .. u.n : lo[x] \in Nat /\ g.hi[x] \in Nat /\ lv[x] \in Nat
    BY <1>0, <1>1, FrameIs
  <2>2. \A x \in T : lo[x] < g.hi[x] /\ lv[x] <= lv[t.root] /\ t.root \in T
    BY <1>1 DEF Frame
  <2> QED BY <2>1, <2>2
<1>3. H[c] = g.hi[q] /\ \A x \in T : x # c => H[x] = g.hi[x]
  BY <1>1, <1>2 DEF Covering
<1> HIDE DEF H
<1>4. \A x \in T : H[x] \in Nat /\ lo[x] < H[x]
  <2> TAKE x \in T
  <2>1. CASE x = c
    <3>1. /\ lo[c] < g.hi[c] /\ g.hi[c] = lo[q] /\ lo[q] < g.hi[q]
          /\ lo[c] \in Nat /\ g.hi[c] \in Nat /\ g.hi[q] \in Nat
      BY <1>1, <1>2
    <3> QED BY <1>3, <2>1, <3>1
  <2>2. CASE x # c
    BY <1>2, <1>3, <2>2
  <2> QED BY <2>1, <2>2
<1>5. Node(u, T, b, lo[p], g.hi[p], lv[p], lo, H, lv)
  BY <1>0, <1>1 DEF Nodes
<1>6. \A x \in 1 .. u.n : \A j \in 1 .. Len(t.pages[x].kids) :
          t.pages[x].kind = "branch" /\ t.pages[x].kids[j] = c => x = p /\ j = i
  <2> SUFFICES ASSUME NEW x \in 1 .. u.n, NEW j \in 1 .. Len(t.pages[x].kids),
                      t.pages[x].kind = "branch", t.pages[x].kids[j] = c
               PROVE  x = p /\ j = i
    OBVIOUS
  <2>1. IsRange(t, g, H)
    BY <1>4 DEF IsRange
  <2>2. Frame(u, t, g) /\ Nodes(u, t, g, H)
    BY <1>1
  <2>3. Alone(u, t)
    <3> HIDE DEF T, lo, lv, b, q
    <3> QED BY <2>1, <2>2, AllAlone
  <2>4. t.pages[p].kids[i] = t.pages[x].kids[j] /\ t.pages[p].kind = "branch"
        /\ i \in 1 .. Len(t.pages[p].kids)
    BY <1>0
  <2> HIDE DEF T, lo, lv, b, q
  <2> QED BY <2>3, <2>4 DEF Alone
<1>7. lv[p] = lv[c] + 1
  <2>1. lv[b.kids[i]] + 1 = lv[p]
    BY <1>0, <1>5 DEF Node
  <2> QED BY <1>0, <2>1
<1>8. /\ Node(u, T, BranchPage(InsertAt(b.kids, i + 1, q), InsertAt(b.keys, i, up.key)),
              lo[p], g.hi[p], lv[p], lo, g.hi, lv)
      /\ Len(InsertAt(b.keys, i, up.key)) = Len(b.keys) + 1
  <2>0. b.kids \in Seq(T)
    BY <1>5 DEF Node
  <2>1. \A j \in 1 .. Len(b.kids) : b.kids[j] \in T
    <3> DEFINE s == b.kids
    <3>1. s \in Seq(T)
      BY <2>0
    <3> HIDE DEF s, T
    <3>2. \A j \in 1 .. Len(s) : s[j] \in T
      BY <3>1
    <3> QED BY <3>2 DEF s
  <2>2. \A j \in 1 .. Len(b.kids) : j # i => H[b.kids[j]] = g.hi[b.kids[j]]
    <3> TAKE j \in 1 .. Len(b.kids)
    <3>1. j # i => b.kids[j] # c
      BY <1>0, <1>6
    <3>2. b.kids[j] \in T
      BY <2>1
    <3> QED BY <1>3, <3>1, <3>2
  <2>3. H[b.kids[i]] = g.hi[q] /\ g.hi[b.kids[i]] = u.rank[up.key] /\ lo[q] = u.rank[up.key] /\ lv[q] = lv[b.kids[i]]
    BY <1>0, <1>1, <1>3
  <2>4. lo[p] \in Nat /\ g.hi[p] \in Nat /\ i \in 1 .. Len(b.kids)
    BY <1>0, <1>2
  <2> DEFINE key == up.key
             hi == g.hi
             l == lo[p]
             h == hi[p]
             v == lv[p]
  <2>5. q \in T /\ key \in u.keys
    BY <1>1
  <2> HIDE DEF T, lo, lv, b, q, key, hi, l, h, v
  <2>6. Node(u, T, b, l, h, v, lo, H, lv) /\ l \in Nat /\ h \in Nat
    BY <1>5, <2>4 DEF l, h, v, hi
  <2>7. \A j \in 1 .. Len(b.kids) : j # i => H[b.kids[j]] = hi[b.kids[j]]
    BY <2>2 DEF hi
  <2>8. H[b.kids[i]] = hi[q] /\ hi[b.kids[i]] = u.rank[key] /\ lo[q] = u.rank[key] /\ lv[q] = lv[b.kids[i]]
    BY <2>3 DEF hi, key
  <2>m. Misses(u, T, b, i, q, key, lo, H, hi, lv)
    BY <2>4, <2>5, <2>7, <2>8 DEF Misses
  <2>9. /\ Node(u, T, BranchPage(InsertAt(b.kids, i + 1, q), InsertAt(b.keys, i, key)), l, h, v, lo, hi, lv)
        /\ Len(InsertAt(b.keys, i, key)) = Len(b.keys) + 1
    BY <2>6, <2>m, NodeInsert
  <2> QED BY <2>9 DEF key, hi, l, h, v
<1>9. ASSUME NEW x \in 1 .. u.n, x # p, t.pages[x].kind = "branch"
      PROVE  Node(u, T, t.pages[x], lo[x], g.hi[x], lv[x], lo, g.hi, lv)
  <2> DEFINE a == t.pages[x]
             hi == g.hi
             l == lo[x]
             h == hi[x]
             v == lv[x]
  <2>1. Node(u, T, a, l, h, v, lo, H, lv)
    BY <1>1, <1>9 DEF Nodes
  <2>2. a.kids \in Seq(T)
    BY <2>1 DEF Node
  <2>3. \A j \in 1 .. Len(a.kids) : a.kids[j] # c
    BY <1>6, <1>9
  <2> HIDE DEF a, T, hi, l, h, v, lo, lv
  <2>4. \A j \in 1 .. Len(a.kids) : H[a.kids[j]] = hi[a.kids[j]]
    BY <1>3, <2>2, <2>3 DEF hi
  <2>5. Node(u, T, a, l, h, v, lo, hi, lv)
    BY <2>1, <2>4, NodeMoved
  <2> QED BY <2>5 DEF a, hi, l, h, v
<1>10. g.hi[t.root] = u.top
  <2>1. lv[p] <= lv[t.root] /\ lv[p] \in Nat /\ lv[c] \in Nat /\ lv[t.root] \in Nat
    BY <1>1, <1>2
  <2>2. t.root # c
    BY <1>7, <2>1
  <2> QED BY <1>1, <1>2, <1>3, <2>2
<1> QED BY <1>7, <1>8, <1>9, <1>10 DEF Absorbs

\* A change of branch pages alone leaves the leaf chain as it is.
LEMMA LinksKept ==
    ASSUME NEW u, NEW t, NEW g, Linked(u, t, g), NEW t2, NEW g2,
           \A x \in 1 .. u.n : /\ t.pages[x].kind = "leaf" => /\ t2.pages[x] = t.pages[x]
                                                              /\ g2.lo[x] = g.lo[x] /\ g2.hi[x] = g.hi[x]
                               /\ t2.pages[x].kind = "leaf" => t.pages[x].kind = "leaf"
    PROVE  Linked(u, t2, g2)
<1> DEFINE P == t.pages
           Q == t2.pages
<1>1. /\ \A x \in 1 .. u.n : P[x].kind = "leaf" => Q[x] = P[x] /\ g2.lo[x] = g.lo[x] /\ g2.hi[x] = g.hi[x]
      /\ \A x \in 1 .. u.n : Q[x].kind = "leaf" => P[x].kind = "leaf"
  OBVIOUS
<1> SUFFICES ASSUME NEW p \in 1 .. u.n, Q[p].kind = "leaf"
             PROVE  /\ g2.hi[p] = u.top => Q[p].next = 0
                    /\ g2.hi[p] # u.top => /\ Q[p].next \in 1 .. u.n
                                           /\ Q[Q[p].next].kind = "leaf"
                                           /\ g2.lo[Q[p].next] = g2.hi[p]
                    /\ g2.lo[p] = 0 => Q[p].prev = 0
                    /\ g2.lo[p] # 0 => /\ Q[p].prev \in 1 .. u.n
                                       /\ Q[Q[p].prev].kind = "leaf"
                                       /\ g2.hi[Q[p].prev] = g2.lo[p]
  BY DEF Linked
<1>2. P[p].kind = "leaf"
  BY <1>1
<1>3. /\ g.hi[p] = u.top => P[p].next = 0
      /\ g.hi[p] # u.top => /\ P[p].next \in 1 .. u.n
                            /\ P[P[p].next].kind = "leaf"
                            /\ g.lo[P[p].next] = g.hi[p]
      /\ g.lo[p] = 0 => P[p].prev = 0
      /\ g.lo[p] # 0 => /\ P[p].prev \in 1 .. u.n
                        /\ P[P[p].prev].kind = "leaf"
                        /\ g.hi[P[p].prev] = g.lo[p]
  BY <1>2 DEF Linked
<1> HIDE DEF P, Q
<1> QED BY <1>1, <1>2, <1>3

\* The parent has room for one more child.
LEMMA BranchFits ==
    ASSUME NEW u, IsSpace(u), NEW t, NEW g, NEW c, NEW up, Pending(u, t, g, c, up),
           NEW p \in 1 .. u.n, NEW i, ChildAt(t.pages, p, i, c),
           NEW t2, t2 = [pages |-> t2.pages, free |-> t.free, root |-> t.root],
           DOMAIN t2.pages = 1 .. u.n,
           t2.pages[p] = BranchPage(InsertAt(t.pages[p].kids, i + 1, up.page),
                                    InsertAt(t.pages[p].keys, i, up.key)),
           \A x \in 1 .. u.n : x # p => t2.pages[x] = t.pages[x]
    PROVE  Whole(u, t2, g)
<1> DEFINE T == InTree(t.pages)
           P == t.pages
           Q == t2.pages
<1>1. Frame(u, t, g) /\ Linked(u, t, g)
  BY DEF Pending, Standing
<1>2. /\ Node(u, T, Q[p], g.lo[p], g.hi[p], g.lv[p], g.lo, g.hi, g.lv)
      /\ \A x \in 1 .. u.n : x # p /\ P[x].kind = "branch" =>
            Node(u, T, P[x], g.lo[x], g.hi[x], g.lv[x], g.lo, g.hi, g.lv)
      /\ g.hi[t.root] = u.top
  <2>1. Absorbs(u, t, g, c, up, p, i)
    BY Absorbed
  <2> QED BY <2>1 DEF Absorbs
<1>3. Q[p].kind = "branch" /\ P[p].kind = "branch" /\ Q[p] # Unused
  BY DEF BranchPage, Unused, ChildAt
<1>4. DOMAIN P = 1 .. u.n /\ DOMAIN Q = 1 .. u.n /\ \A x \in 1 .. u.n : x # p => Q[x] = P[x]
  BY <1>1 DEF Frame
<1>5. t2.root = t.root /\ t2.free = t.free
  OBVIOUS
<1>6. t2 = [pages |-> t2.pages, free |-> t2.free, root |-> t2.root]
  BY <1>5
<1> HIDE DEF P, Q, T
<1>7. \A x \in 1 .. u.n : Q[x].kind = P[x].kind
  BY <1>3, <1>4
<1>8. InTree(Q) = T
  BY <1>4, <1>7 DEF InTree, T, P
<1>9. Linked(u, t2, g)
  <2>1. \A x \in 1 .. u.n : /\ P[x].kind = "leaf" => Q[x] = P[x]
                            /\ Q[x].kind = "leaf" => P[x].kind = "leaf"
    BY <1>3, <1>4, <1>7
  <2> QED BY <1>1, <2>1, LinksKept DEF P, Q
<1>10. Nodes(u, t2, g, g.hi)
  <2>1. ASSUME NEW x \in 1 .. u.n, Q[x].kind = "branch"
        PROVE  Node(u, InTree(Q), Q[x], g.lo[x], g.hi[x], g.lv[x], g.lo, g.hi, g.lv)
    <3>1. CASE x = p
      BY <1>2, <1>8, <3>1
    <3>2. CASE x # p
      BY <1>2, <1>4, <1>7, <1>8, <2>1, <3>2
    <3> QED BY <3>1, <3>2
  <2> QED BY <2>1 DEF Nodes, Q
<1>11. Frame(u, t2, g)
  <2>1. /\ t.free \in 2 .. u.n + 1
        /\ \A x \in 1 .. u.n : P[x] = Unused <=> x >= t.free
        /\ \A x \in 1 .. u.n : P[x].kind = "unused" <=> x >= t.free
        /\ IsCover(u, g)
        /\ t.root \in T /\ g.lo[t.root] = 0 /\ g.lv[t.root] + 2 <= t.free
        /\ \A x \in T : /\ g.lo[x] < g.hi[x] /\ g.hi[x] <= u.top
                        /\ g.lv[x] <= g.lv[t.root]
                        /\ g.lv[x] = 0 <=> P[x].kind = "leaf"
        /\ \A x, y \in T : x # y /\ g.lv[x] = g.lv[y] => g.hi[x] <= g.lo[y] \/ g.hi[y] <= g.lo[x]
    BY <1>1 DEF Frame, P, T
  <2>2. T \subseteq 1 .. u.n
    BY <1>4 DEF T, InTree, P
  <2>3. \A x \in 1 .. u.n : Q[x] = Unused <=> x >= t.free
    <3> TAKE x \in 1 .. u.n
    <3>1. CASE x = p
      <4>1. ~(x >= t.free)
        BY <1>3, <2>1, <3>1
      <4> QED BY <1>3, <3>1, <4>1
    <3>2. CASE x # p
      BY <1>4, <2>1, <3>2
    <3> QED BY <3>1, <3>2
  <2> QED BY <1>4, <1>5, <1>6, <1>7, <1>8, <2>1, <2>2, <2>3 DEF Frame, Q
<1> QED BY <1>2, <1>5, <1>9, <1>10, <1>11 DEF Whole, Standing

\* t2 is t with page p, its child number i split, cut in two itself.
Joined(P, p, i, up, cs, ks) == /\ cs = InsertAt(P[p].kids, i + 1, up.page)
                               /\ ks = InsertAt(P[p].keys, i, up.key)
CutAt(u, t, p, cs, ks, mid, t2, up2) ==
    /\ t2 = [pages |-> t2.pages, free |-> t.free + 1, root |-> t.root]
    /\ DOMAIN t2.pages = 1 .. u.n
    /\ t2.pages[p] = BranchPage(SubSeq(cs, 1, mid), SubSeq(ks, 1, mid - 1))
    /\ t2.pages[t.free] = BranchPage(SubSeq(cs, mid + 1, Len(cs)), SubSeq(ks, mid + 1, Len(ks)))
    /\ \A x \in 1 .. u.n : x # p /\ x # t.free => t2.pages[x] = t.pages[x]
    /\ up2.key = ks[mid] /\ up2.page = t.free

\* The parent is full: it is split in turn.
LEMMA BranchSplits ==
    ASSUME NEW u, IsSpace(u), NEW t, NEW g, NEW c, NEW up, Pending(u, t, g, c, up),
           NEW p \in 1 .. u.n, NEW i, ChildAt(t.pages, p, i, c), t.free <= u.n,
           NEW cs, NEW ks, Joined(t.pages, p, i, up, cs, ks),
           NEW mid \in 1 .. Len(ks), NEW t2, NEW up2, CutAt(u, t, p, cs, ks, mid, t2, up2)
    PROVE  Pending(u, t2, Halved(u, g, p, t.free, u.rank[up2.key]), p, up2)
<1> /\ t2 = [pages |-> t2.pages, free |-> t.free + 1, root |-> t.root]
    /\ DOMAIN t2.pages = 1 .. u.n
    /\ t2.pages[p] = BranchPage(SubSeq(cs, 1, mid), SubSeq(ks, 1, mid - 1))
    /\ t2.pages[t.free] = BranchPage(SubSeq(cs, mid + 1, Len(cs)), SubSeq(ks, mid + 1, Len(ks)))
    /\ \A x \in 1 .. u.n : x # p /\ x # t.free => t2.pages[x] = t.pages[x]
    /\ up2.key = ks[mid] /\ up2.page = t.free
  BY DEF CutAt
<1> DEFINE w == t.free
           T == InTree(t.pages)
           T2 == T \cup {w}
           m == u.rank[ks[mid]]
           h == Halved(u, g, p, w, m)
           P == t.pages
           Q == t2.pages
           a == BranchPage(SubSeq(cs, 1, mid), SubSeq(ks, 1, mid - 1))
           z == BranchPage(SubSeq(cs, mid + 1, Len(cs)), SubSeq(ks, mid + 1, Len(ks)))
           H == Covering(u, h, p, w)
           lo == g.lo
           hi == g.hi
           lv == g.lv
<1>0. P[p].kind = "branch" /\ i \in 1 .. Len(P[p].kids) /\ P[p].kids[i] = c
  BY DEF ChildAt
<1>1. Frame(u, t, g) /\ Linked(u, t, g)
  BY DEF Pending, Standing
<1>2. /\ u.n \in Nat /\ T \subseteq 1 .. u.n /\ w \in 1 .. u.n /\ w \in Nat /\ w \notin T /\ p \in T /\ p # w
      /\ \A x \in 1 .. u.n : lo[x] \in Nat /\ hi[x] \in Nat /\ lv[x] \in Nat
      /\ \A x \in 1 .. u.n : x \in T <=> P[x].kind \in {"leaf", "branch"}
      /\ DOMAIN P = 1 .. u.n /\ DOMAIN Q = 1 .. u.n
  <2>1. /\ DOMAIN P = 1 .. u.n /\ t.free \in 2 .. u.n + 1 /\ u.n \in Nat /\ T \subseteq 1 .. u.n
        /\ \A x \in 1 .. u.n : lo[x] \in Nat /\ hi[x] \in Nat /\ lv[x] \in Nat
        /\ \A x \in 1 .. u.n : x \in T <=> P[x].kind \in {"leaf", "branch"}
        /\ \A x \in T : x < w
    BY <1>1, FrameIs
  <2>2. w \in 1 .. u.n /\ w \in Nat /\ DOMAIN Q = 1 .. u.n
    BY <2>1
  <2>3. p \in T
    BY <1>0, <2>1
  <2>4. w \notin T /\ p # w
    <3>1. \A x \in T : x < w
      BY <2>1
    <3> HIDE DEF T, w
    <3> QED BY <2>2, <2>3, <3>1
  <2> QED BY <2>1, <2>2, <2>3, <2>4
<1>3. /\ \A x \in 1 .. u.n : P[x] = Unused <=> x >= w
      /\ \A x \in 1 .. u.n : P[x].kind = "unused" <=> x >= w
      /\ \A x \in T : lo[x] < hi[x] /\ hi[x] <= u.top
      /\ t.root \in T
  BY <1>1 DEF Frame
<1>4. /\ Node(u, T, BranchPage(cs, ks), lo[p], hi[p], lv[p], lo, hi, lv)
      /\ \A x \in 1 .. u.n : x # p /\ P[x].kind = "branch" => Node(u, T, P[x], lo[x], hi[x], lv[x], lo, hi, lv)
      /\ hi[t.root] = u.top
  <2>1. /\ Node(u, InTree(t.pages),
                BranchPage(InsertAt(t.pages[p].kids, i + 1, up.page), InsertAt(t.pages[p].keys, i, up.key)),
                g.lo[p], g.hi[p], g.lv[p], g.lo, g.hi, g.lv)
        /\ \A x \in 1 .. u.n : x # p /\ t.pages[x].kind = "branch" =>
              Node(u, InTree(t.pages), t.pages[x], g.lo[x], g.hi[x], g.lv[x], g.lo, g.hi, g.lv)
        /\ g.hi[t.root] = u.top
    <3>1. Absorbs(u, t, g, c, up, p, i)
      BY Absorbed
    <3> QED BY <3>1 DEF Absorbs
  <2>2. cs = InsertAt(t.pages[p].kids, i + 1, up.page) /\ ks = InsertAt(t.pages[p].keys, i, up.key)
    BY DEF Joined
  <2> QED BY <2>1, <2>2
<1>5. BranchPage(cs, ks).kids = cs /\ BranchPage(cs, ks).keys = ks
  BY DEF BranchPage
<1>6. /\ cs \in Seq(T) /\ ks \in Seq(u.keys) /\ Len(cs) = Len(ks) + 1 /\ Len(ks) \in Nat
      /\ \A j \in 1 .. Len(ks) : hi[cs[j]] = u.rank[ks[j]] /\ lo[cs[j + 1]] = u.rank[ks[j]]
  <2> DEFINE b == BranchPage(cs, ks)
  <2>1. Node(u, T, b, lo[p], hi[p], lv[p], lo, hi, lv)
    BY <1>4
  <2>2. b.kids = cs /\ b.keys = ks
    BY <1>5
  <2> HIDE DEF b, T, lo, hi, lv
  <2>3. /\ b.kids \in Seq(T) /\ b.keys \in Seq(u.keys) /\ Len(b.kids) = Len(b.keys) + 1
        /\ \A j \in 1 .. Len(b.keys) : /\ hi[b.kids[j]] = u.rank[b.keys[j]]
                                       /\ lo[b.kids[j + 1]] = u.rank[b.keys[j]]
    BY <2>1 DEF Node
  <2>4. Len(ks) \in Nat
    <3> DEFINE K == u.keys
    <3>1. ks \in Seq(K)
      BY <2>2, <2>3
    <3> HIDE DEF K
    <3> QED BY <3>1
  <2> QED BY <2>2, <2>3, <2>4
<1>7. ks[mid] \in u.keys /\ m \in Nat
  <2>1. ks[mid] \in u.keys
    BY <1>6
  <2> QED BY <2>1 DEF IsSpace
<1>8. lo[p] < m /\ m < hi[p]
  <2> DEFINE b == BranchPage(cs, ks)
             l == lo[p]
             hh == hi[p]
             v == lv[p]
  <2>1. Node(u, T, b, l, hh, v, lo, hi, lv) /\ l \in Nat /\ hh \in Nat /\ b.kids = cs
    BY <1>2, <1>4, <1>5
  <2>2. \A x \in T : lo[x] \in Nat /\ hi[x] \in Nat /\ lo[x] < hi[x]
    BY <1>2, <1>3
  <2>3. mid \in 1 .. Len(cs) /\ mid + 1 \in 1 .. Len(cs) /\ cs[mid] \in T /\ cs[mid + 1] \in T
    <3>1. mid \in 1 .. Len(cs) /\ mid + 1 \in 1 .. Len(cs)
      BY <1>6
    <3> HIDE DEF T
    <3> QED BY <1>6, <3>1
  <2> HIDE DEF T, b, l, hh, v, lo, hi, lv
  <2>4. \A j \in 1 .. Len(b.kids) : l <= lo[b.kids[j]] /\ hi[b.kids[j]] <= hh
    BY <2>1, <2>2, NodeWithin
  <2>5. l <= lo[cs[mid]] /\ hi[cs[mid + 1]] <= hh
    BY <2>1, <2>3, <2>4
  <2>6. hi[cs[mid]] = m /\ lo[cs[mid + 1]] = m
    BY <1>6 DEF lo, hi
  <2>7. lo[cs[mid]] < hi[cs[mid]] /\ lo[cs[mid + 1]] < hi[cs[mid + 1]]
    BY <2>2, <2>3
  <2>8. lo[cs[mid]] \in Nat /\ hi[cs[mid + 1]] \in Nat
    BY <2>2, <2>3
  <2> DEFINE e == lo[cs[mid]]
             f == hi[cs[mid + 1]]
  <2>9. l <= e /\ e < m /\ m < f /\ f <= hh /\ e \in Nat /\ f \in Nat /\ l \in Nat /\ hh \in Nat /\ m \in Nat
    BY <1>7, <2>1, <2>5, <2>6, <2>7, <2>8
  <2> HIDE DEF e, f, m
  <2>10. l < m /\ m < hh
    BY <2>9
  <2> QED BY <2>10 DEF l, hh, lo, hi
<1>9. /\ Node(u, T, a, lo[p], m, lv[p], lo, hi, lv)
      /\ Node(u, T, z, m, hi[p], lv[p], lo, hi, lv)
  <2> DEFINE b == BranchPage(cs, ks)
             l == lo[p]
             hh == hi[p]
             v == lv[p]
  <2>1. Node(u, T, b, l, hh, v, lo, hi, lv) /\ mid \in 1 .. Len(b.keys)
    BY <1>4, <1>5
  <2> HIDE DEF T, b, l, hh, v, lo, hi, lv
  <2>2. /\ Node(u, T, BranchPage(SubSeq(b.kids, 1, mid), SubSeq(b.keys, 1, mid - 1)),
                l, u.rank[b.keys[mid]], v, lo, hi, lv)
        /\ Node(u, T, BranchPage(SubSeq(b.kids, mid + 1, Len(b.kids)), SubSeq(b.keys, mid + 1, Len(b.keys))),
                u.rank[b.keys[mid]], hh, v, lo, hi, lv)
    BY <2>1, NodeCut
  <2>3. b.kids = cs /\ b.keys = ks
    BY <1>5 DEF b
  <2> QED BY <2>2, <2>3 DEF l, hh, v
<1>10. /\ Q[p] = a /\ Q[w] = z /\ \A x \in 1 .. u.n : x # p /\ x # w => Q[x] = P[x]
       /\ t2.root = t.root /\ t2.free = w + 1
  OBVIOUS
<1>11. a.kind = "branch" /\ z.kind = "branch" /\ a # Unused /\ z # Unused
  BY DEF BranchPage, Unused
<1>12. /\ \A x \in T : h.lo[x] = lo[x] /\ h.lv[x] = lv[x]
       /\ \A x \in T : x # p => h.hi[x] = hi[x]
       /\ h.hi[p] = m /\ h.lo[w] = m /\ h.hi[w] = hi[p] /\ h.lv[w] = lv[p]
  BY <1>2 DEF Halved
<1>13. \A x \in T : H[x] = hi[x]
  BY <1>2, <1>12 DEF Covering
<1>t. /\ t2 = [pages |-> t2.pages, free |-> t.free + 1, root |-> t.root]
      /\ t.free <= u.n
  OBVIOUS
<1>u. up2.key = ks[mid] /\ up2.page = w
  OBVIOUS
<1>r. h = Halved(u, g, p, t.free, m) /\ T = InTree(t.pages) /\ m = u.rank[ks[mid]] /\ w = t.free /\ T2 = T \cup {w}
  OBVIOUS
<1> HIDE DEF h, H, a, z, m, T, lo, hi, lv, w
<1>14. \A x \in 1 .. u.n : x # w => Q[x].kind = P[x].kind
  <2> TAKE x \in 1 .. u.n
  <2>1. CASE x = p
    BY <1>0, <1>10, <1>11, <2>1
  <2>2. CASE x # p
    BY <1>10, <2>2
  <2> QED BY <2>1, <2>2
<1>15. InTree(Q) = T2
  <2>1. \A x \in 1 .. u.n : x \in InTree(Q) <=> Q[x].kind \in {"leaf", "branch"}
    BY <1>2 DEF InTree
  <2>2. \A x \in 1 .. u.n : x \in InTree(Q) <=> x \in T2
    <3> TAKE x \in 1 .. u.n
    <3>1. CASE x = w
      BY <1>10, <1>11, <2>1, <3>1
    <3>2. CASE x # w
      BY <1>2, <1>14, <2>1, <3>2
    <3> QED BY <3>1, <3>2
  <2>3. InTree(Q) \subseteq 1 .. u.n
    BY <1>2 DEF InTree
  <2> HIDE DEF Q
  <2> QED BY <1>2, <2>2, <2>3
<1>16. /\ \A x \in 1 .. u.n : Q[x] = Unused <=> x >= w + 1
       /\ \A x \in 1 .. u.n : Q[x].kind = "unused" <=> x >= w + 1
  <2>1. ASSUME NEW x \in 1 .. u.n PROVE (Q[x] = Unused <=> x >= w + 1) /\ (Q[x].kind = "unused" <=> x >= w + 1)
    <3>1. CASE x = w
      <4>1. Q[x] # Unused /\ Q[x].kind # "unused" /\ ~(x >= w + 1)
        BY <1>2, <1>10, <1>11, <3>1
      <4> QED BY <4>1
    <3>2. CASE x = p
      <4>1. Q[x] # Unused /\ Q[x].kind # "unused" /\ P[x].kind # "unused"
        BY <1>0, <1>10, <1>11, <3>2
      <4>2. ~(x >= w)
        BY <1>3, <4>1
      <4>3. ~(x >= w + 1)
        BY <1>2, <4>2
      <4> QED BY <4>1, <4>3
    <3>3. CASE x # w /\ x # p
      <4>1. Q[x] = P[x]
        BY <1>10, <3>3
      <4>2. x >= w <=> x >= w + 1
        BY <1>2, <3>3
      <4> QED BY <1>3, <4>1, <4>2
    <3> QED BY <3>1, <3>2, <3>3
  <2> QED BY <2>1
<1>17. Frame(u, t2, h)
  <2>1. \A x \in InTree(t.pages) : Q[x].kind = P[x].kind
    BY <1>2, <1>14, <1>r
  <2>2. Q[t.free].kind = P[p].kind
    BY <1>0, <1>10, <1>11, <1>r
  <2>3. InTree(Q) = InTree(t.pages) \cup {t.free} /\ p \in InTree(t.pages)
    BY <1>2, <1>15, <1>r
  <2>4. g.lo[p] < m /\ m < g.hi[p]
    BY <1>8 DEF lo, hi
  <2>5. /\ \A x \in 1 .. u.n : Q[x] = Unused <=> x >= t.free + 1
        /\ \A x \in 1 .. u.n : Q[x].kind = "unused" <=> x >= t.free + 1
    BY <1>16, <1>r
  <2>6. Frame(u, t2, Halved(u, g, p, t.free, m))
    BY <1>1, <1>2, <1>7, <1>t, <2>1, <2>2, <2>3, <2>4, <2>5, HalvedFrame
  <2> QED BY <1>r, <2>6
<1>18. Linked(u, t2, h)
  <2>1. ASSUME NEW x \in 1 .. u.n
        PROVE  /\ P[x].kind = "leaf" => Q[x] = P[x] /\ h.lo[x] = g.lo[x] /\ h.hi[x] = g.hi[x]
               /\ Q[x].kind = "leaf" => P[x].kind = "leaf"
    <3>1. P[x].kind = "leaf" => x \in T /\ x # p /\ x # w
      BY <1>0, <1>2
    <3>2. Q[x].kind = "leaf" => x # w
      BY <1>10, <1>11
    <3> QED BY <1>10, <1>12, <1>14, <3>1, <3>2 DEF lo, hi
  <2> QED BY <1>1, <2>1, LinksKept
<1>19. Nodes(u, t2, h, H)
  <2>0. T \subseteq T2
    BY DEF T2
  <2> HIDE DEF T2
  <2>1. ASSUME NEW b, NEW l, NEW r, NEW v, Node(u, T, b, l, r, v, lo, hi, lv)
        PROVE  Node(u, T2, b, l, r, v, h.lo, H, h.lv)
    <3>1. b.kids \in Seq(T)
      BY <2>1 DEF Node
    <3>2. \A j \in 1 .. Len(b.kids) : b.kids[j] \in T
      <4> DEFINE s == b.kids
      <4>1. s \in Seq(T)
        BY <3>1
      <4> HIDE DEF s
      <4>2. \A j \in 1 .. Len(s) : s[j] \in T
        BY <4>1
      <4> QED BY <4>2 DEF s
    <3>3. \A j \in 1 .. Len(b.kids) : /\ h.lo[b.kids[j]] = lo[b.kids[j]] /\ H[b.kids[j]] = hi[b.kids[j]]
                                      /\ h.lv[b.kids[j]] = lv[b.kids[j]]
      BY <1>12, <1>13, <3>2
    <3> QED BY <2>0, <2>1, <3>3, NodeMoved
  <2>2. ASSUME NEW x \in 1 .. u.n, Q[x].kind = "branch"
        PROVE  Node(u, T2, Q[x], h.lo[x], h.hi[x], h.lv[x], h.lo, H, h.lv)
    <3>1. CASE x = p
      <4>1. Node(u, T2, a, lo[p], m, lv[p], h.lo, H, h.lv)
        BY <1>9, <2>1
      <4>2. Q[x] = a /\ h.lo[x] = lo[p] /\ h.hi[x] = m /\ h.lv[x] = lv[p]
        BY <1>2, <1>10, <1>12, <3>1
      <4> QED BY <4>1, <4>2
    <3>2. CASE x = w
      <4>1. Node(u, T2, z, m, hi[p], lv[p], h.lo, H, h.lv)
        BY <1>9, <2>1
      <4>2. Q[x] = z /\ h.lo[x] = m /\ h.hi[x] = hi[p] /\ h.lv[x] = lv[p]
        BY <1>10, <1>12, <3>2
      <4> QED BY <4>1, <4>2
    <3>3. CASE x # p /\ x # w
      <4>1. Q[x] = P[x] /\ P[x].kind = "branch" /\ x \in T
        BY <1>2, <1>10, <1>14, <2>2, <3>3
      <4>2. Node(u, T2, P[x], lo[x], hi[x], lv[x], h.lo, H, h.lv)
        BY <1>4, <2>1, <3>3, <4>1
      <4>3. h.lo[x] = lo[x] /\ h.hi[x] = hi[x] /\ h.lv[x] = lv[x]
        BY <1>12, <3>3, <4>1
      <4> QED BY <4>1, <4>2, <4>3
    <3> QED BY <3>1, <3>2, <3>3
  <2> QED BY <1>15, <2>2 DEF Nodes, Q
<1>20. H[t2.root] = u.top
  BY <1>3, <1>4, <1>10, <1>13
<1>21. /\ p \in InTree(Q) /\ up2.page \in InTree(Q) /\ p # up2.page /\ h.lv[up2.page] = h.lv[p]
       /\ up2.key \in u.keys /\ h.hi[p] = u.rank[up2.key] /\ h.lo[up2.page] = u.rank[up2.key]
  <2>1. p \in T2 /\ w \in T2
    BY <1>2
  <2> QED BY <1>2, <1>7, <1>12, <1>15, <1>u, <1>r, <2>1
<1>22. Pending(u, t2, h, p, up2)
  <2>1. H = Covering(u, h, p, up2.page)
    BY <1>u DEF H
  <2> QED BY <1>17, <1>18, <1>19, <1>20, <1>21, <2>1 DEF Pending, Standing
<1> QED BY <1>22, <1>u, <1>r

\* The cover of a tree whose root r gets a parent w.
Raised(u, g, r, w) == [lo |-> [p \in 1 .. u.n |-> IF p = w THEN 0 ELSE g.lo[p]],
                       hi |-> [p \in 1 .. u.n |-> IF p = w THEN u.top ELSE g.hi[p]],
                       lv |-> [p \in 1 .. u.n |-> IF p = w THEN g.lv[r] + 1 ELSE g.lv[p]]]

\* The root was split: a new root over its halves.
LEMMA RootSplits ==
    ASSUME NEW u, IsSpace(u), NEW t, NEW g, NEW up, Pending(u, t, g, t.root, up), t.free <= u.n,
           NEW t2, t2 = [pages |-> t2.pages, free |-> t.free + 1, root |-> t.free],
           DOMAIN t2.pages = 1 .. u.n,
           t2.pages[t.free] = BranchPage(<<t.root, up.page>>, <<up.key>>),
           \A x \in 1 .. u.n : x # t.free => t2.pages[x] = t.pages[x]
    PROVE  Whole(u, t2, Raised(u, g, t.root, t.free))
<1> DEFINE w == t.free
           c == t.root
           q == up.page
           T == InTree(t.pages)
           T2 == T \cup {w}
           h == Raised(u, g, c, w)
           P == t.pages
           Q == t2.pages
           b == BranchPage(<<c, q>>, <<up.key>>)
           G == Covering(u, g, c, q)
           lo == g.lo
           hi == g.hi
           lv == g.lv
<1>1. Frame(u, t, g) /\ Linked(u, t, g) /\ Nodes(u, t, g, G) /\ G[c] = u.top
  BY DEF Pending, Standing
<1>2. /\ u.n \in Nat /\ T \subseteq 1 .. u.n /\ w \in 1 .. u.n /\ w \in 2 .. u.n + 1 /\ w \notin T
      /\ \A x \in 1 .. u.n : lo[x] \in Nat /\ hi[x] \in Nat /\ lv[x] \in Nat
      /\ \A x \in 1 .. u.n : x \in T <=> P[x].kind \in {"leaf", "branch"}
      /\ DOMAIN P = 1 .. u.n /\ DOMAIN Q = 1 .. u.n
  <2>1. /\ DOMAIN P = 1 .. u.n /\ t.free \in 2 .. u.n + 1 /\ u.n \in Nat /\ T \subseteq 1 .. u.n
        /\ \A x \in 1 .. u.n : lo[x] \in Nat /\ hi[x] \in Nat /\ lv[x] \in Nat
        /\ \A x \in 1 .. u.n : x \in T <=> P[x].kind \in {"leaf", "branch"}
        /\ \A x \in T : x < w
    BY <1>1, FrameIs
  <2> QED BY <2>1
<1>3. /\ \A x \in 1 .. u.n : P[x] = Unused <=> x >= w
      /\ \A x \in 1 .. u.n : P[x].kind = "unused" <=> x >= w
      /\ \A x \in T : /\ lo[x] < hi[x] /\ hi[x] <= u.top /\ lv[x] <= lv[c]
                      /\ lv[x] = 0 <=> P[x].kind = "leaf"
      /\ \A x, y \in T : x # y /\ lv[x] = lv[y] => hi[x] <= lo[y] \/ hi[y] <= lo[x]
      /\ c \in T /\ lo[c] = 0 /\ lv[c] + 2 <= w
  BY <1>1 DEF Frame
<1>4. /\ q \in T /\ c # q /\ lv[q] = lv[c]
      /\ up.key \in u.keys /\ hi[c] = u.rank[up.key] /\ lo[q] = u.rank[up.key]
  BY DEF Pending
<1>5. hi[q] = u.top /\ \A x \in T : x # c => G[x] = hi[x]
  BY <1>1, <1>2, <1>3 DEF Covering
<1>6. /\ Q[w] = b /\ \A x \in 1 .. u.n : x # w => Q[x] = P[x]
      /\ t2.root = w /\ t2.free = w + 1 /\ t2 = [pages |-> t2.pages, free |-> t2.free, root |-> t2.root]
  <2>1. t2.root = w /\ t2.free = w + 1
    OBVIOUS
  <2> QED BY <2>1
<1>7. b.kind = "branch" /\ b # Unused /\ b.kids = <<c, q>> /\ b.keys = <<up.key>>
  BY DEF BranchPage, Unused
<1>8. /\ \A x \in T : h.lo[x] = lo[x] /\ h.hi[x] = hi[x] /\ h.lv[x] = lv[x]
      /\ h.lo[w] = 0 /\ h.hi[w] = u.top /\ h.lv[w] = lv[c] + 1
  BY <1>2 DEF Raised
<1>9. IsCover(u, h)
  <2>1. u.top \in Nat /\ c \in 1 .. u.n /\ lv[c] \in Nat
    BY <1>2, <1>3 DEF IsSpace
  <2>2. /\ \A p \in 1 .. u.n : (IF p = w THEN 0 ELSE g.lo[p]) \in Nat
        /\ \A p \in 1 .. u.n : (IF p = w THEN u.top ELSE g.hi[p]) \in Nat
        /\ \A p \in 1 .. u.n : (IF p = w THEN g.lv[c] + 1 ELSE g.lv[p]) \in Nat
    BY <1>2, <2>1, SMTT(30)
  <2> QED BY <2>2 DEF IsCover, Raised
<1>r. T = InTree(t.pages) /\ T2 = T \cup {w} /\ w = t.free /\ h = Raised(u, g, t.root, t.free)
  OBVIOUS
<1>top. u.top \in Nat \ {0}
  BY DEF IsSpace
<1> HIDE DEF h, b, T, lo, hi, lv, w, G, c, q
<1>10. InTree(Q) = T2
  <2>1. \A x \in 1 .. u.n : x \in InTree(Q) <=> Q[x].kind \in {"leaf", "branch"}
    BY <1>2 DEF InTree
  <2>2. \A x \in 1 .. u.n : x \in InTree(Q) <=> x \in T2
    <3> TAKE x \in 1 .. u.n
    <3>1. CASE x = w
      BY <1>6, <1>7, <2>1, <3>1
    <3>2. CASE x # w
      BY <1>2, <1>6, <2>1, <3>2
    <3> QED BY <3>1, <3>2
  <2>3. InTree(Q) \subseteq 1 .. u.n
    BY <1>2 DEF InTree
  <2> HIDE DEF Q
  <2> QED BY <1>2, <2>2, <2>3
<1>11. /\ \A x \in 1 .. u.n : Q[x] = Unused <=> x >= w + 1
       /\ \A x \in 1 .. u.n : Q[x].kind = "unused" <=> x >= w + 1
  <2>1. ASSUME NEW x \in 1 .. u.n PROVE (Q[x] = Unused <=> x >= w + 1) /\ (Q[x].kind = "unused" <=> x >= w + 1)
    <3>1. CASE x = w
      <4>1. Q[x] # Unused /\ Q[x].kind # "unused" /\ ~(x >= w + 1)
        BY <1>2, <1>6, <1>7, <3>1
      <4> QED BY <4>1
    <3>2. CASE x # w
      <4>1. Q[x] = P[x]
        BY <1>6, <3>2
      <4>2. x >= w <=> x >= w + 1
        BY <1>2, <3>2
      <4> QED BY <1>3, <4>1, <4>2
    <3> QED BY <3>1, <3>2
  <2> QED BY <2>1
<1>12. Frame(u, t2, h)
  <2>1. ASSUME NEW x \in T2
        PROVE  /\ h.lo[x] < h.hi[x] /\ h.hi[x] <= u.top /\ h.lv[x] <= h.lv[w]
               /\ h.lv[x] = 0 <=> Q[x].kind = "leaf"
    <3>0. c \in 1 .. u.n /\ lv[c] \in Nat
      BY <1>2, <1>3
    <3>1. CASE x = w
      BY <1>6, <1>7, <1>8, <1>top, <3>0, <3>1
    <3>2. CASE x # w
      <4>1. x \in T /\ x \in 1 .. u.n /\ Q[x] = P[x] /\ lv[x] \in Nat
        BY <1>2, <1>6, <2>1, <3>2
      <4> QED BY <1>3, <1>8, <3>0, <4>1
    <3> QED BY <3>1, <3>2
  <2>2. ASSUME NEW x \in T2, NEW y \in T2, x # y, h.lv[x] = h.lv[y]
        PROVE  h.hi[x] <= h.lo[y] \/ h.hi[y] <= h.lo[x]
    <3>0. c \in 1 .. u.n /\ lv[c] \in Nat
      BY <1>2, <1>3
    <3>1. \A v \in T : lv[v] # lv[c] + 1
      <4> TAKE v \in T
      <4>1. v \in 1 .. u.n /\ lv[v] \in Nat /\ lv[v] <= lv[c]
        BY <1>2, <1>3
      <4> QED BY <3>0, <4>1
    <3>2. x \in T /\ y \in T
      BY <1>8, <2>2, <3>1
    <3> QED BY <1>3, <1>8, <2>2, <3>2
  <2>3. h.lo[w] = 0 /\ h.lv[w] + 2 <= w + 1 /\ w + 1 \in 2 .. u.n + 1 /\ w \in T2
    <3>0. c \in 1 .. u.n /\ lv[c] \in Nat
      BY <1>2, <1>3
    <3> QED BY <1>2, <1>3, <1>8, <3>0
  <2> HIDE DEF T2
  <2> QED BY <1>2, <1>6, <1>9, <1>10, <1>11, <2>1, <2>2, <2>3 DEF Frame, Q
<1>13. Linked(u, t2, h)
  <2>1. ASSUME NEW x \in 1 .. u.n
        PROVE  /\ P[x].kind = "leaf" => Q[x] = P[x] /\ h.lo[x] = g.lo[x] /\ h.hi[x] = g.hi[x]
               /\ Q[x].kind = "leaf" => P[x].kind = "leaf"
    <3>1. P[x].kind = "leaf" => x \in T /\ x # w
      BY <1>2
    <3>2. Q[x].kind = "leaf" => x # w
      BY <1>6, <1>7
    <3> QED BY <1>6, <1>8, <3>1, <3>2 DEF lo, hi
  <2> QED BY <1>1, <2>1, LinksKept
<1>14. Nodes(u, t2, h, h.hi)
  <2>0. T \subseteq T2
    BY DEF T2
  <2> HIDE DEF T2
  <2>1. ASSUME NEW x \in T, P[x].kind = "branch"
        PROVE  Node(u, T2, P[x], lo[x], hi[x], lv[x], h.lo, h.hi, h.lv)
    <3> DEFINE a == P[x]
               l == lo[x]
               r == hi[x]
               v == lv[x]
    <3>1. Node(u, T, a, l, r, v, lo, G, lv)
      <4>1. x \in 1 .. u.n
        BY <1>2
      <4> QED BY <1>1, <2>1, <4>1, <1>r DEF Nodes, lo, hi, lv
    <3>2. v \in Nat /\ lv[c] \in Nat /\ v <= lv[c]
      BY <1>2, <1>3
    <3>3. a.kids \in Seq(T) /\ \A j \in 1 .. Len(a.kids) : lv[a.kids[j]] + 1 = v
      BY <3>1 DEF Node
    <3>4. \A j \in 1 .. Len(a.kids) : a.kids[j] # c
      <4> HIDE DEF a, v
      <4> TAKE j \in 1 .. Len(a.kids)
      <4>1. lv[a.kids[j]] + 1 = v
        BY <3>3
      <4>2. lv[c] + 1 # v
        BY <3>2
      <4> QED BY <4>1, <4>2
    <3>5. \A j \in 1 .. Len(a.kids) : a.kids[j] \in T
      <4> DEFINE s == a.kids
      <4>1. s \in Seq(T)
        BY <3>3
      <4> HIDE DEF s
      <4>2. \A j \in 1 .. Len(s) : s[j] \in T
        BY <4>1
      <4> QED BY <4>2 DEF s
    <3> HIDE DEF a, l, r, v
    <3>6. \A j \in 1 .. Len(a.kids) : /\ h.lo[a.kids[j]] = lo[a.kids[j]] /\ h.hi[a.kids[j]] = G[a.kids[j]]
                                      /\ h.lv[a.kids[j]] = lv[a.kids[j]]
      BY <1>5, <1>8, <3>4, <3>5
    <3>7. Node(u, T2, a, l, r, v, h.lo, h.hi, h.lv)
      BY <2>0, <3>1, <3>6, NodeMoved
    <3> QED BY <3>7 DEF a, l, r, v
  <2>2. Node(u, T2, b, 0, u.top, lv[c] + 1, h.lo, h.hi, h.lv)
    <3>1. b.kids \in Seq(T2) /\ b.keys \in Seq(u.keys) /\ Len(b.kids) = 2 /\ Len(b.keys) = 1
          /\ b.kids[1] = c /\ b.kids[2] = q /\ b.keys[1] = up.key
      <4>1. c \in T2 /\ q \in T2 /\ up.key \in u.keys
        BY <1>3, <1>4, <2>0
      <4>2. <<c, q>> \in Seq(T2) /\ Len(<<c, q>>) = 2 /\ <<c, q>>[1] = c /\ <<c, q>>[2] = q
        BY <4>1
      <4>3. <<up.key>> \in Seq(u.keys) /\ Len(<<up.key>>) = 1 /\ <<up.key>>[1] = up.key
        <5> DEFINE k == up.key
                   K == u.keys
        <5>1. k \in K
          BY <4>1
        <5> HIDE DEF k, K
        <5>2. <<k>> \in Seq(K) /\ Len(<<k>>) = 1 /\ <<k>>[1] = k
          BY <5>1
        <5> QED BY <5>2 DEF k, K
      <4> HIDE DEF T2
      <4> QED BY <1>7, <4>2, <4>3
    <3>2. /\ h.lo[c] = 0 /\ h.hi[q] = u.top /\ h.hi[c] = u.rank[up.key] /\ h.lo[q] = u.rank[up.key]
          /\ h.lv[c] = lv[c] /\ h.lv[q] = lv[c]
      BY <1>3, <1>4, <1>5, <1>8
    <3>3. \A j \in 1 .. 1 : h.hi[b.kids[j]] = u.rank[b.keys[j]] /\ h.lo[b.kids[j + 1]] = u.rank[b.keys[j]]
      <4> TAKE j \in 1 .. 1
      <4>1. j = 1 /\ j + 1 = 2
        OBVIOUS
      <4> QED BY <3>1, <3>2, <4>1
    <3>4. \A j \in 1 .. 2 : h.lv[b.kids[j]] + 1 = lv[c] + 1
      <4> TAKE j \in 1 .. 2
      <4>1. j = 1 \/ j = 2
        OBVIOUS
      <4> QED BY <3>1, <3>2, <4>1
    <3>5. Len(b.kids) = Len(b.keys) + 1
      BY <3>1
    <3> QED BY <3>1, <3>2, <3>3, <3>4, <3>5 DEF Node
  <2>3. ASSUME NEW x \in 1 .. u.n, Q[x].kind = "branch"
        PROVE  Node(u, T2, Q[x], h.lo[x], h.hi[x], h.lv[x], h.lo, h.hi, h.lv)
    <3>1. CASE x = w
      BY <1>6, <1>8, <2>2, <3>1
    <3>2. CASE x # w
      <4>1. Q[x] = P[x] /\ x \in T /\ P[x].kind = "branch"
        BY <1>2, <1>6, <2>3, <3>2
      <4> QED BY <1>8, <2>1, <4>1
    <3> QED BY <3>1, <3>2
  <2> QED BY <1>10, <2>3 DEF Nodes, Q
<1>15. Whole(u, t2, h)
  BY <1>6, <1>8, <1>12, <1>13, <1>14 DEF Whole, Standing
<1> QED BY <1>15, <1>r

-----------------------------------------------------------------------------
(* The way back up from a split leaf. *)

\* The pages the way up leaves alone: leaves and overflow pages.
Plain(u, P) == {x \in 1 .. u.n : P[x].kind # "branch" /\ P[x].kind # "unused"}

\* t2 has more branch pages than t, and all else as it was.
Grew(u, t, g, t2, g2) ==
    /\ t2 = [pages |-> t2.pages, free |-> t2.free, root |-> t2.root]
    /\ t2.free \in Nat /\ t.free <= t2.free
    /\ Plain(u, t2.pages) = Plain(u, t.pages)
    /\ \A x \in Plain(u, t.pages) : /\ t2.pages[x] = t.pages[x]
                                    /\ g2.lo[x] = g.lo[x] /\ g2.hi[x] = g.hi[x]

LEMMA GrewTwice ==
    ASSUME NEW u, NEW t1, NEW g1, NEW t2, NEW g2, NEW t3, NEW g3, t1.free \in Nat,
           Grew(u, t1, g1, t2, g2), Grew(u, t2, g2, t3, g3)
    PROVE  Grew(u, t1, g1, t3, g3)
<1>1. /\ t3 = [pages |-> t3.pages, free |-> t3.free, root |-> t3.root]
      /\ t3.free \in Nat /\ t2.free \in Nat /\ t1.free <= t2.free /\ t2.free <= t3.free
      /\ Plain(u, t2.pages) = Plain(u, t1.pages) /\ Plain(u, t3.pages) = Plain(u, t2.pages)
      /\ \A x \in Plain(u, t1.pages) : t2.pages[x] = t1.pages[x] /\ g2.lo[x] = g1.lo[x] /\ g2.hi[x] = g1.hi[x]
      /\ \A x \in Plain(u, t2.pages) : t3.pages[x] = t2.pages[x] /\ g3.lo[x] = g2.lo[x] /\ g3.hi[x] = g2.hi[x]
  BY DEF Grew
<1>2. t1.free <= t3.free
  BY <1>1
<1>3. \A x \in Plain(u, t1.pages) : t3.pages[x] = t1.pages[x] /\ g3.lo[x] = g1.lo[x] /\ g3.hi[x] = g1.hi[x]
  BY <1>1
<1> QED BY <1>1, <1>2, <1>3 DEF Grew

\* The trees the way up goes through: a record that never gives pages back.
IsTree(t) == t = [pages |-> t.pages, free |-> t.free, root |-> t.root] /\ t.free \in Nat

\* A change of fields leaves the fields a tree has.
HasFields(v) == v = [k \in {"pages", "free", "root"} |-> v[k]]

LEMMA FieldsGive ==
    ASSUME NEW v, HasFields(v)
    PROVE  v = [pages |-> v.pages, free |-> v.free, root |-> v.root]
BY DEF HasFields

LEMMA FieldsKept ==
    ASSUME NEW v, HasFields(v), NEW k, NEW e
    PROVE  HasFields([v EXCEPT ![k] = e])
BY DEF HasFields

LEMMA TwoPagesWritten ==
    ASSUME NEW P, NEW f \in Nat, NEW o, NEW p, NEW b1, NEW b2, NEW t,
           t = [pages |-> P, free |-> f, root |-> o]
    PROVE  [t EXCEPT !.pages[p] = b1, !.pages[f] = b2, !.free = @ + 1]
               = [pages |-> [P EXCEPT ![p] = b1, ![f] = b2], free |-> f + 1, root |-> o]
<1> DEFINE t1 == [t EXCEPT !.pages[p] = b1]
           t2 == [t1 EXCEPT !.pages[f] = b2]
           t3 == [t2 EXCEPT !.free = @ + 1]
           s == [t EXCEPT !.pages[p] = b1, !.pages[f] = b2, !.free = @ + 1]
<1>1. s.pages = [P EXCEPT ![p] = b1, ![f] = b2] /\ s.free = f + 1 /\ s.root = o
  OBVIOUS
<1>2. s = t3
  OBVIOUS
<1>3. /\ t1 = [t EXCEPT !["pages"] = [t.pages EXCEPT ![p] = b1]]
      /\ t2 = [t1 EXCEPT !["pages"] = [t1.pages EXCEPT ![f] = b2]]
      /\ t3 = [t2 EXCEPT !["free"] = t2.free + 1]
  OBVIOUS
<1>4. HasFields(t)
  BY DEF HasFields
<1> HIDE DEF t1, t2, t3, s
<1>5. HasFields(s)
  BY <1>2, <1>3, <1>4, FieldsKept
<1>6. s = [pages |-> s.pages, free |-> s.free, root |-> s.root]
  BY <1>5, FieldsGive
<1>7. s = [pages |-> [P EXCEPT ![p] = b1, ![f] = b2], free |-> f + 1, root |-> o]
  BY <1>1, <1>6
<1> QED BY <1>7 DEF s

\* What IntoBranch writes, case by case.
Writes(t, s, p, max, cs, ks, mid) ==
    /\ IsTree(s.t) /\ s.t.root = t.root
    /\ Len(ks) <= max =>
          /\ s.up = <<>> /\ s.t.free = t.free
          /\ s.t.pages = [t.pages EXCEPT ![p] = BranchPage(cs, ks)]
    /\ ~(Len(ks) <= max) =>
          /\ s.up = <<[key |-> ks[mid], page |-> t.free]>> /\ s.t.free = t.free + 1
          /\ s.t.pages = [t.pages EXCEPT
                            ![p] = BranchPage(SubSeq(cs, 1, mid), SubSeq(ks, 1, mid - 1)),
                            ![t.free] = BranchPage(SubSeq(cs, mid + 1, Len(cs)),
                                                   SubSeq(ks, mid + 1, Len(ks)))]

LEMMA IntoBranchIs ==
    ASSUME NEW r, IsTree(r.t), NEW p, NEW i, NEW max,
           NEW cs, NEW ks, Joined(r.t.pages, p, i, r.up[1], cs, ks), NEW mid, mid = Len(ks) \div 2 + 1
    PROVE  Writes(r.t, IntoBranch(r, p, i, max), p, max, cs, ks, mid)
<1> DEFINE s == IntoBranch(r, p, i, max)
<1> /\ ks = InsertAt(r.t.pages[p].keys, i, r.up[1].key)
    /\ cs = InsertAt(r.t.pages[p].kids, i + 1, r.up[1].page)
  BY DEF Joined
<1> DEFINE P == r.t.pages
           f == r.t.free
           o == r.t.root
           b == BranchPage(cs, ks)
           b1 == BranchPage(SubSeq(cs, 1, mid), SubSeq(ks, 1, mid - 1))
           b2 == BranchPage(SubSeq(cs, mid + 1, Len(cs)), SubSeq(ks, mid + 1, Len(ks)))
<1>1. r.t = [pages |-> P, free |-> f, root |-> o] /\ f \in Nat
  BY DEF IsTree
<1>2. s = IF Len(ks) <= max
          THEN [t |-> [r.t EXCEPT !.pages[p] = b], up |-> <<>>]
          ELSE [t |-> [r.t EXCEPT !.pages[p] = b1, !.pages[f] = b2, !.free = @ + 1],
                up |-> <<[key |-> ks[mid], page |-> f]>>]
  BY DEF IntoBranch
<1> HIDE DEF b, b1, b2, s
<1>3. ASSUME Len(ks) <= max
      PROVE  IsTree(s.t) /\ s.t.root = o /\ s.up = <<>> /\ s.t.free = f /\ s.t.pages = [P EXCEPT ![p] = b]
  <2>1. s = [t |-> [r.t EXCEPT !.pages[p] = b], up |-> <<>>]
    BY <1>2, <1>3
  <2>2. s.t = [pages |-> [P EXCEPT ![p] = b], free |-> f, root |-> o] /\ s.up = <<>>
    <3> HIDE DEF P, f, o
    <3> QED BY <1>1, <2>1
  <2>3. s.t.pages = [P EXCEPT ![p] = b] /\ s.t.free = f /\ s.t.root = o
    BY <2>2
  <2>4. IsTree(s.t)
    BY <1>1, <2>2, <2>3 DEF IsTree
  <2> QED BY <2>2, <2>3, <2>4
<1>4. ASSUME ~(Len(ks) <= max)
      PROVE  /\ IsTree(s.t) /\ s.t.root = o
             /\ s.up = <<[key |-> ks[mid], page |-> f]>> /\ s.t.free = f + 1
             /\ s.t.pages = [P EXCEPT ![p] = b1, ![f] = b2]
  <2>1. s = [t |-> [r.t EXCEPT !.pages[p] = b1, !.pages[f] = b2, !.free = @ + 1],
             up |-> <<[key |-> ks[mid], page |-> f]>>]
    BY <1>2, <1>4
  <2>2. /\ s.t = [pages |-> [P EXCEPT ![p] = b1, ![f] = b2], free |-> f + 1, root |-> o]
        /\ s.up = <<[key |-> ks[mid], page |-> f]>>
    <3> HIDE DEF P, f, o
    <3> DEFINE t == r.t
    <3>1. t = [pages |-> P, free |-> f, root |-> o] /\ f \in Nat
      BY <1>1
    <3>2. s.t = [t EXCEPT !.pages[p] = b1, !.pages[f] = b2, !.free = @ + 1]
          /\ s.up = <<[key |-> ks[mid], page |-> f]>>
      BY <2>1
    <3> HIDE DEF t
    <3> QED BY <3>1, <3>2, TwoPagesWritten
  <2>3. s.t.pages = [P EXCEPT ![p] = b1, ![f] = b2] /\ s.t.free = f + 1 /\ s.t.root = o
    BY <2>2
  <2>4. IsTree(s.t)
    BY <1>1, <2>2, <2>3 DEF IsTree
  <2> QED BY <2>2, <2>3, <2>4
<1>5. IsTree(s.t) /\ s.t.root = o
  BY <1>3, <1>4
<1> QED BY <1>3, <1>4, <1>5 DEF Writes, s, b, b1, b2

\* Page p of t has taken in the new page, or was split in turn: that gave s.
TakesIn(u, t, g, s, p, g2) == /\ Grew(u, t, g, s.t, g2)
                              /\ \/ s.up = <<>> /\ Whole(u, s.t, g2)
                                 \/ s.up # <<>> /\ Pending(u, s.t, g2, p, s.up[1])
TookIn(u, t, g, s, p) == \E g2 : TakesIn(u, t, g, s, p, g2)

\* Page c is child number i of p and was split, with the result r; s is p's turn.
Turn(u, g, r, c, p, i, max, s) ==
    /\ Pending(u, r.t, g, c, r.up[1])
    /\ p \in 1 .. u.n /\ ChildAt(r.t.pages, p, i, c) /\ max \in Nat \ {0}
    /\ s = IntoBranch(r, p, i, max) /\ s.t.free <= u.n + 1

LEMMA IntoBranchKeeps ==
    ASSUME NEW u, IsSpace(u), NEW g, NEW r, NEW c, NEW p, NEW i, NEW max, NEW s,
           Turn(u, g, r, c, p, i, max, s)
    PROVE  /\ TookIn(u, r.t, g, s, p)
           /\ s.t.root = r.t.root
           /\ \A x \in 1 .. u.n : x # p /\ x # r.t.free => s.t.pages[x] = r.t.pages[x]
<1> /\ Pending(u, r.t, g, c, r.up[1])
    /\ p \in 1 .. u.n /\ ChildAt(r.t.pages, p, i, c) /\ max \in Nat \ {0}
    /\ s = IntoBranch(r, p, i, max) /\ s.t.free <= u.n + 1
  BY DEF Turn
<1> DEFINE t == r.t
           up == r.up[1]
           P == t.pages
           Q == s.t.pages
           f == t.free
           ks == InsertAt(P[p].keys, i, up.key)
           cs == InsertAt(P[p].kids, i + 1, up.page)
           mid == Len(ks) \div 2 + 1
           b == BranchPage(cs, ks)
           b1 == BranchPage(SubSeq(cs, 1, mid), SubSeq(ks, 1, mid - 1))
           b2 == BranchPage(SubSeq(cs, mid + 1, Len(cs)), SubSeq(ks, mid + 1, Len(ks)))
<1>1. Frame(u, t, g)
  BY DEF Pending, Standing
<1>2. /\ DOMAIN P = 1 .. u.n /\ f \in 2 .. u.n + 1 /\ u.n \in Nat /\ f \in Nat
      /\ t = [pages |-> P, free |-> f, root |-> t.root]
      /\ \A x \in 1 .. u.n : P[x].kind = "unused" <=> x >= f
  BY <1>1, FrameIs DEF Frame
<1>3. IsTree(t)
  BY <1>2 DEF IsTree
<1>4. P[p].kind = "branch"
  BY DEF ChildAt
<1>5. /\ IsTree(s.t) /\ s.t.root = t.root
      /\ Len(ks) <= max => s.up = <<>> /\ s.t.free = f /\ Q = [P EXCEPT ![p] = b]
      /\ ~(Len(ks) <= max) => /\ s.up = <<[key |-> ks[mid], page |-> f]>> /\ s.t.free = f + 1
                              /\ Q = [P EXCEPT ![p] = b1, ![f] = b2]
  <2>1. Joined(r.t.pages, p, i, r.up[1], cs, ks) /\ mid = Len(ks) \div 2 + 1 /\ IsTree(r.t)
    BY <1>3 DEF Joined
  <2> HIDE DEF ks, cs, mid, t, P, Q, f
  <2>2. Writes(r.t, s, p, max, cs, ks, mid)
    BY <2>1, IntoBranchIs
  <2> QED BY <2>2 DEF t, P, Q, f, Writes
<1>6. b.kind = "branch" /\ b1.kind = "branch" /\ b2.kind = "branch"
  BY DEF BranchPage
<1>7. s.t = [pages |-> Q, free |-> s.t.free, root |-> t.root]
  BY <1>5 DEF IsTree
<1>8. Len(ks) \in Nat
  <2>1. Node(u, InTree(P), BranchPage(cs, ks), g.lo[p], g.hi[p], g.lv[p], g.lo, g.hi, g.lv)
    <3>1. Absorbs(u, t, g, c, up, p, i)
      BY Absorbed
    <3> QED BY <3>1 DEF Absorbs
  <2>2. BranchPage(cs, ks).keys = ks
    BY DEF BranchPage
  <2> DEFINE K == u.keys
  <2>3. ks \in Seq(K)
    BY <2>1, <2>2 DEF Node
  <2> HIDE DEF K, ks
  <2> QED BY <2>3
<1> DEFINE Goal(g2) == TakesIn(u, t, g, s, p, g2)
<1>9. CASE Len(ks) <= max
  <2>1. s.up = <<>> /\ s.t.free = f /\ Q = [P EXCEPT ![p] = b]
    BY <1>5, <1>9
  <2>2. DOMAIN Q = 1 .. u.n /\ Q[p] = b /\ \A x \in 1 .. u.n : x # p => Q[x] = P[x]
    BY <1>2, <2>1
  <2>3. s.t = [pages |-> Q, free |-> f, root |-> t.root]
    BY <1>7, <2>1
  <2>4. Whole(u, s.t, g)
    BY <2>2, <2>3, BranchFits
  <2>5. Plain(u, Q) = Plain(u, P) /\ \A x \in Plain(u, P) : Q[x] = P[x]
    <3> HIDE DEF P, Q, b
    <3>1. \A x \in 1 .. u.n : Q[x].kind = P[x].kind
      BY <1>4, <1>6, <2>2
    <3> QED BY <1>4, <2>2, <3>1 DEF Plain
  <2>6. Grew(u, t, g, s.t, g)
    <3>1. s.t.free \in Nat /\ t.free <= s.t.free
      BY <1>2, <2>1
    <3>2. /\ Plain(u, s.t.pages) = Plain(u, t.pages)
          /\ \A x \in Plain(u, t.pages) : s.t.pages[x] = t.pages[x] /\ g.lo[x] = g.lo[x] /\ g.hi[x] = g.hi[x]
      BY <2>5
    <3>3. s.t = [pages |-> s.t.pages, free |-> s.t.free, root |-> s.t.root]
      BY <1>5 DEF IsTree
    <3> HIDE DEF t, P, Q, f
    <3> QED BY <3>1, <3>2, <3>3 DEF Grew
  <2>7. Goal(g)
    BY <2>1, <2>4, <2>6 DEF TakesIn
  <2> QED BY <1>5, <2>2, <2>7 DEF TookIn
<1>10. CASE ~(Len(ks) <= max)
  <2>1. s.up = <<[key |-> ks[mid], page |-> f]>> /\ s.t.free = f + 1 /\ Q = [P EXCEPT ![p] = b1, ![f] = b2]
    BY <1>5, <1>10
  <2>2. f <= u.n /\ f \in 1 .. u.n /\ p # f
    <3>1. f <= u.n
      BY <1>2, <2>1
    <3>2. f \in 1 .. u.n
      BY <1>2, <3>1
    <3>3. P[f].kind = "unused"
      BY <1>2, <3>2
    <3> QED BY <1>4, <3>1, <3>2, <3>3
  <2>3. mid \in 1 .. Len(ks)
    <3> DEFINE n == Len(ks)
    <3>1. n \in Nat /\ n >= 2
      BY <1>8, <1>10
    <3> HIDE DEF n
    <3>2. n \div 2 + 1 \in 1 .. n
      BY <3>1
    <3> QED BY <3>2 DEF n
  <2>4. DOMAIN Q = 1 .. u.n /\ Q[p] = b1 /\ Q[f] = b2 /\ \A x \in 1 .. u.n : x # p /\ x # f => Q[x] = P[x]
    <3> HIDE DEF P, Q, b1, b2, f
    <3> QED BY <1>2, <2>1, <2>2
  <2>5. s.t = [pages |-> Q, free |-> f + 1, root |-> t.root]
    BY <1>7, <2>1
  <2> DEFINE up2 == s.up[1]
             m == u.rank[up2.key]
             h == Halved(u, g, p, f, m)
  <2>6. up2.key = ks[mid] /\ up2.page = f
    BY <2>1
  <2>7. Pending(u, s.t, h, p, up2)
    <3>1. Joined(t.pages, p, i, up, cs, ks) /\ Pending(u, t, g, c, up) /\ ChildAt(t.pages, p, i, c)
          /\ t.free <= u.n /\ h = Halved(u, g, p, t.free, u.rank[up2.key])
      BY <2>2 DEF Joined
    <3>s. s.t = [pages |-> s.t.pages, free |-> t.free + 1, root |-> t.root] /\ up2.key = ks[mid] /\ up2.page = t.free
      BY <2>5, <2>6
    <3>c. CutAt(u, t, p, cs, ks, mid, s.t, up2)
      <4> HIDE DEF up2, mid, ks, cs, t, up
      <4> QED BY <2>4, <3>s DEF CutAt
    <3> HIDE DEF up2, mid, ks, cs, t, P, Q, h, up, f
    <3>2. Pending(u, s.t, Halved(u, g, p, t.free, u.rank[up2.key]), p, up2)
      BY <2>3, <3>1, <3>c, BranchSplits
    <3> QED BY <3>1, <3>2
  <2>8. Plain(u, Q) = Plain(u, P) /\ \A x \in Plain(u, P) : Q[x] = P[x]
    <3> HIDE DEF P, Q, b1, b2, f
    <3>0. P[f].kind = "unused"
      BY <1>2, <2>2, SMTT(30)
    <3>1. \A x \in 1 .. u.n : (Q[x].kind = "branch" \/ Q[x].kind = "unused")
                               <=> (P[x].kind = "branch" \/ P[x].kind = "unused")
      BY <1>4, <1>6, <2>4, <3>0
    <3> QED BY <1>4, <2>4, <3>0, <3>1 DEF Plain
  <2>9. \A x \in Plain(u, P) : h.lo[x] = g.lo[x] /\ h.hi[x] = g.hi[x]
    <3> TAKE x \in Plain(u, P)
    <3>1. x \in 1 .. u.n /\ x # p /\ x # f
      <4> HIDE DEF P, f
      <4>1. P[f].kind = "unused"
        BY <1>2, <2>2, SMTT(30)
      <4> QED BY <1>4, <4>1 DEF Plain
    <3> QED BY <3>1 DEF Halved
  <2>10. Grew(u, t, g, s.t, h)
    <3>1. s.t.free \in Nat /\ t.free <= s.t.free
      BY <1>2, <2>1
    <3>2. /\ Plain(u, s.t.pages) = Plain(u, t.pages)
          /\ \A x \in Plain(u, t.pages) : s.t.pages[x] = t.pages[x] /\ h.lo[x] = g.lo[x] /\ h.hi[x] = g.hi[x]
      BY <2>8, <2>9
    <3>3. s.t = [pages |-> s.t.pages, free |-> s.t.free, root |-> s.t.root]
      BY <1>5 DEF IsTree
    <3> HIDE DEF t, P, Q, f, h
    <3> QED BY <3>1, <3>2, <3>3 DEF Grew
  <2>11. s.up # <<>>
    BY <2>1
  <2>12. Goal(h)
    <3> HIDE DEF h
    <3> QED BY <2>7, <2>10, <2>11 DEF TakesIn
  <2> HIDE DEF h
  <2> QED BY <1>5, <2>4, <2>12 DEF TookIn
<1> QED BY <1>9, <1>10

ClimbStep(leaf, path, slot, max, f, h) ==
    IF h = 0 THEN leaf
    ELSE IF f[h - 1].up = <<>> THEN f[h - 1]
    ELSE IntoBranch(f[h - 1], path[Len(path) - h], slot[Len(path) - h], max)
IsClimber(leaf, path, slot, max, f, m) == f = [h \in 0 .. m |-> ClimbStep(leaf, path, slot, max, f, h)]

LEMMA Climber ==
    ASSUME NEW leaf, NEW path, NEW slot, NEW max, NEW n \in Nat
    PROVE  IsClimber(leaf, path, slot, max, CHOOSE f : IsClimber(leaf, path, slot, max, f, n), n)
<1> DEFINE Step(f, h) == ClimbStep(leaf, path, slot, max, f, h)
           Is(f, m) == IsClimber(leaf, path, slot, max, f, m)
           Known == {m \in 0 .. n : \E f : Is(f, m)}
<1>1. 0 \in Known
  <2> DEFINE f == [h \in 0 .. 0 |-> leaf]
  <2>1. \A h \in 0 .. 0 : f[h] = Step(f, h)
    BY DEF ClimbStep
  <2>2. f = [h \in 0 .. 0 |-> f[h]]
    OBVIOUS
  <2> HIDE DEF f
  <2>3. Is(f, 0)
    BY <2>1, <2>2 DEF IsClimber
  <2> QED BY <2>3
<1>2. ASSUME NEW m \in 0 .. n - 1, m \in Known PROVE m + 1 \in Known
  <2>1. PICK f : Is(f, m)
    BY <1>2
  <2> DEFINE g == [h \in 0 .. m + 1 |-> IF h = m + 1 THEN Step(f, h) ELSE f[h]]
  <2>2. g = [h \in 0 .. m + 1 |-> g[h]] /\ \A h \in 0 .. m + 1 : g[h] = Step(f, h)
    BY <2>1 DEF IsClimber
  <2>3. \A h \in 0 .. m : g[h] = f[h]
    OBVIOUS
  <2> HIDE DEF g
  <2>4. \A h \in 0 .. m + 1 : Step(g, h) = Step(f, h)
    <3> TAKE h \in 0 .. m + 1
    <3>1. CASE h = 0
      BY <3>1 DEF ClimbStep
    <3>2. CASE h # 0
      <4>1. g[h - 1] = f[h - 1]
        BY <2>3, <3>2
      <4> QED BY <3>2, <4>1 DEF ClimbStep
    <3> QED BY <3>1, <3>2
  <2>5. Is(g, m + 1)
    <3> HIDE DEF Step
    <3>1. g = [h \in 0 .. m + 1 |-> Step(g, h)]
      BY <2>2, <2>4
    <3> QED BY <3>1 DEF IsClimber, Step
  <2> QED BY <2>5
<1> HIDE DEF Known
<1>3. n \in Known
  BY <1>1, <1>2, Upwards
<1> QED BY <1>3 DEF Known

\* On the way up the tree only grows.
LEMMA ClimbGrows ==
    ASSUME NEW leaf, IsTree(leaf.t), NEW path, NEW slot, NEW max, NEW n \in Nat,
           NEW f, IsClimber(leaf, path, slot, max, f, n)
    PROVE  \A h \in 0 .. n : /\ IsTree(f[h].t)
                             /\ leaf.t.free <= f[h].t.free /\ f[h].t.free <= f[n].t.free
<1>1. \A h \in 0 .. n : f[h] = ClimbStep(leaf, path, slot, max, f, h)
  BY DEF IsClimber
<1>2. f[0] = leaf
  BY <1>1 DEF ClimbStep
<1>3. ASSUME NEW h \in 0 .. n - 1, IsTree(f[h].t)
      PROVE  IsTree(f[h + 1].t) /\ f[h].t.free <= f[h + 1].t.free
  <2> DEFINE r == f[h]
             s == f[h + 1]
  <2>1. s = ClimbStep(leaf, path, slot, max, f, h + 1) /\ h + 1 # 0 /\ (h + 1) - 1 = h
    BY <1>1
  <2> HIDE DEF s
  <2>2. CASE r.up = <<>>
    <3>1. s = r
      BY <2>1, <2>2 DEF ClimbStep
    <3> QED BY <1>3, <3>1 DEF s, IsTree
  <2>3. CASE r.up # <<>>
    <3> DEFINE p == path[Len(path) - (h + 1)]
               i == slot[Len(path) - (h + 1)]
               cs == InsertAt(r.t.pages[p].kids, i + 1, r.up[1].page)
               ks == InsertAt(r.t.pages[p].keys, i, r.up[1].key)
               mid == Len(ks) \div 2 + 1
    <3>1. s = IntoBranch(r, p, i, max)
      BY <2>1, <2>3 DEF ClimbStep
    <3>2. Joined(r.t.pages, p, i, r.up[1], cs, ks) /\ mid = Len(ks) \div 2 + 1 /\ IsTree(r.t)
      BY <1>3 DEF Joined
    <3> HIDE DEF cs, ks, mid, p, i, r
    <3>3. Writes(r.t, s, p, max, cs, ks, mid)
      BY <3>1, <3>2, IntoBranchIs
    <3>4. IsTree(s.t) /\ (s.t.free = r.t.free \/ s.t.free = r.t.free + 1)
      BY <3>3 DEF Writes
    <3>5. r.t.free \in Nat
      BY <3>2 DEF IsTree
    <3>6. r.t.free <= s.t.free
      BY <3>4, <3>5
    <3> QED BY <3>4, <3>6 DEF r, s
  <2> QED BY <2>2, <2>3
<1> DEFINE Good == {h \in 0 .. n : IsTree(f[h].t)}
<1>4. \A h \in 0 .. n : h \in Good
  <2>1. 0 \in Good
    BY <1>2
  <2>2. ASSUME NEW h \in 0 .. n - 1, h \in Good PROVE h + 1 \in Good
    BY <1>3, <2>2
  <2> HIDE DEF Good
  <2> QED BY <2>1, <2>2, Upwards
<1>5. \A h \in 0 .. n : IsTree(f[h].t) /\ f[h].t.free \in Nat
  BY <1>4 DEF IsTree
<1> HIDE DEF Good
<1>6. ASSUME NEW a \in 0 .. n PROVE \A h \in a .. n : f[a].t.free <= f[h].t.free
  <2> DEFINE Above == {h \in a .. n : f[a].t.free <= f[h].t.free}
  <2>1. a \in Above
    BY <1>5
  <2>2. ASSUME NEW h \in a .. n - 1, h \in Above PROVE h + 1 \in Above
    <3>1. h \in 0 .. n - 1 /\ h \in 0 .. n /\ h + 1 \in 0 .. n /\ h + 1 \in a .. n
      OBVIOUS
    <3>2. f[h].t.free <= f[h + 1].t.free /\ f[a].t.free <= f[h].t.free
      BY <1>3, <1>5, <2>2, <3>1
    <3>3. f[a].t.free <= f[h + 1].t.free
      BY <1>5, <3>1, <3>2
    <3> QED BY <3>1, <3>3
  <2> HIDE DEF Above
  <2>3. \A h \in a .. n : h \in Above
    BY <2>1, <2>2, Upwards
  <2> QED BY <2>3 DEF Above
<1>7. \A h \in 0 .. n : leaf.t.free <= f[h].t.free /\ f[h].t.free <= f[n].t.free
  <2> TAKE h \in 0 .. n
  <2>1. 0 \in 0 .. n /\ h \in 0 .. n /\ n \in h .. n
    OBVIOUS
  <2> QED BY <1>2, <1>6, <2>1
<1> QED BY <1>5, <1>7

LEMMA NewRootIs ==
    ASSUME NEW t, IsTree(t), NEW up
    PROVE  /\ IsTree(NewRoot(t, up))
           /\ NewRoot(t, up) = [pages |-> [t.pages EXCEPT ![t.free] = BranchPage(<<t.root, up.page>>, <<up.key>>)],
                                free |-> t.free + 1, root |-> t.free]
           /\ NewRoot(t, up).free = t.free + 1
<1> DEFINE P == t.pages
           f == t.free
           o == t.root
           b == BranchPage(<<t.root, up.page>>, <<up.key>>)
           s == [t EXCEPT !.pages[f] = b, !.root = f, !.free = @ + 1]
<1>1. t = [pages |-> P, free |-> f, root |-> o] /\ f \in Nat
  BY DEF IsTree
<1>2. NewRoot(t, up) = s
  BY DEF NewRoot
<1> HIDE DEF P, f, o, b
<1>3. s.pages = [P EXCEPT ![f] = b] /\ s.free = f + 1 /\ s.root = f
  BY <1>1
<1>4. HasFields(s)
  <2> DEFINE t1 == [t EXCEPT !.pages[f] = b]
             t2 == [t1 EXCEPT !.root = f]
             t3 == [t2 EXCEPT !.free = @ + 1]
  <2>1. s = t3
    OBVIOUS
  <2>2. /\ t1 = [t EXCEPT !["pages"] = [t.pages EXCEPT ![f] = b]]
        /\ t2 = [t1 EXCEPT !["root"] = f]
        /\ t3 = [t2 EXCEPT !["free"] = t2.free + 1]
    OBVIOUS
  <2>3. HasFields(t)
    BY <1>1 DEF HasFields
  <2> HIDE DEF t1, t2, t3, s
  <2> QED BY <2>1, <2>2, <2>3, FieldsKept
<1> HIDE DEF s
<1>5. s = [pages |-> s.pages, free |-> s.free, root |-> s.root]
  BY <1>4, FieldsGive
<1>6. s = [pages |-> [P EXCEPT ![f] = b], free |-> f + 1, root |-> f]
  BY <1>3, <1>5
<1>7. IsTree(s)
  BY <1>1, <1>3, <1>5 DEF IsTree
<1> QED BY <1>2, <1>3, <1>6, <1>7 DEF P, f, b

\* Grown with its way up spelt out.
TopOf(leaf, path, slot, max, f) ==
    IF f[Len(path) - 1].up = <<>> THEN f[Len(path) - 1].t ELSE NewRoot(f[Len(path) - 1].t, f[Len(path) - 1].up[1])

LEMMA GrownIs ==
    ASSUME NEW leaf, NEW path, NEW slot, NEW max, Len(path) \in Nat \ {0}
    PROVE  \E f : /\ IsClimber(leaf, path, slot, max, f, Len(path) - 1)
                  /\ Grown(leaf, path, slot, max) = TopOf(leaf, path, slot, max, f)
<1> DEFINE n == Len(path) - 1
           f == CHOOSE f : IsClimber(leaf, path, slot, max, f, n)
<1>1. n \in Nat
  OBVIOUS
<1>2. IsClimber(leaf, path, slot, max, f, n)
  <2> HIDE DEF n
  <2> QED BY <1>1, Climber
<1>3. Climb(leaf, path, slot, max) = f[n]
  BY DEF Climb, IsClimber, ClimbStep
<1>4. Grown(leaf, path, slot, max) = TopOf(leaf, path, slot, max, f)
  <2> HIDE DEF f
  <2> QED BY <1>3 DEF Grown, TopOf
<1> HIDE DEF f
<1> QED BY <1>2, <1>4

LEMMA GrownGrows ==
    ASSUME NEW leaf, IsTree(leaf.t), NEW path, NEW slot, NEW max, Len(path) \in Nat \ {0}
    PROVE  /\ IsTree(Grown(leaf, path, slot, max))
           /\ leaf.t.free <= Grown(leaf, path, slot, max).free
<1> DEFINE n == Len(path) - 1
<1>1. PICK f : /\ IsClimber(leaf, path, slot, max, f, n)
               /\ Grown(leaf, path, slot, max) = TopOf(leaf, path, slot, max, f)
  BY GrownIs
<1>2. n \in Nat /\ n = Len(path) - 1
  OBVIOUS
<1> HIDE DEF n
<1>3. IsTree(f[n].t) /\ leaf.t.free <= f[n].t.free
  BY <1>1, <1>2, ClimbGrows
<1> DEFINE t == f[n].t
           up == f[n].up[1]
<1>4. CASE f[n].up = <<>>
  BY <1>1, <1>2, <1>3, <1>4 DEF TopOf
<1>5. CASE f[n].up # <<>>
  <2>1. Grown(leaf, path, slot, max) = NewRoot(t, up)
    BY <1>1, <1>2, <1>5 DEF TopOf
  <2>2. IsTree(t) /\ leaf.t.free <= t.free /\ t.free \in Nat /\ leaf.t.free \in Nat
    BY <1>3 DEF IsTree
  <2> HIDE DEF t, up
  <2>3. IsTree(NewRoot(t, up)) /\ NewRoot(t, up).free = t.free + 1
    BY <2>2, NewRootIs
  <2> QED BY <2>1, <2>2, <2>3
<1> QED BY <1>4, <1>5

\* A leaf that was not split.
LEMMA GrownPlain ==
    ASSUME NEW leaf, IsTree(leaf.t), leaf.up = <<>>, NEW path, NEW slot, NEW max, Len(path) \in Nat \ {0}
    PROVE  Grown(leaf, path, slot, max) = leaf.t
<1> DEFINE n == Len(path) - 1
<1>1. PICK f : /\ IsClimber(leaf, path, slot, max, f, n)
               /\ Grown(leaf, path, slot, max) = TopOf(leaf, path, slot, max, f)
  BY GrownIs
<1>2. n \in Nat /\ n = Len(path) - 1
  OBVIOUS
<1> HIDE DEF n
<1>3. \A h \in 0 .. n : f[h] = ClimbStep(leaf, path, slot, max, f, h)
  BY <1>1 DEF IsClimber
<1> DEFINE Good == {h \in 0 .. n : f[h] = leaf}
<1>4. 0 \in Good
  BY <1>2, <1>3 DEF ClimbStep
<1>5. ASSUME NEW h \in 0 .. n - 1, h \in Good PROVE h + 1 \in Good
  <2>1. h + 1 \in 0 .. n /\ h + 1 # 0 /\ (h + 1) - 1 = h /\ f[h + 1] = ClimbStep(leaf, path, slot, max, f, h + 1)
    BY <1>2, <1>3
  <2>2. f[h + 1] = f[h]
    BY <1>5, <2>1 DEF ClimbStep
  <2> QED BY <1>5, <2>1, <2>2
<1> HIDE DEF Good
<1>6. \A h \in 0 .. n : h \in Good
  BY <1>2, <1>4, <1>5, Upwards
<1>7. n \in 0 .. n
  BY <1>2
<1>8. f[n] = leaf
  BY <1>6, <1>7 DEF Good
<1> QED BY <1>1, <1>2, <1>8 DEF TopOf

\* The search took child number slot[i] of the branch page path[i].
Route(u, t, path, slot) ==
    /\ path \in Seq(1 .. u.n) /\ Len(path) \in Nat \ {0} /\ path[1] = t.root
    /\ \A i, j \in 1 .. Len(path) : path[i] = path[j] => i = j
    /\ \A i \in 1 .. Len(path) - 1 : ChildAt(t.pages, path[i], slot[i], path[i + 1])

\* The way up from a split leaf ends in a whole tree.
LEMMA GrownSplit ==
    ASSUME NEW u, IsSpace(u), NEW g, NEW leaf, NEW path, NEW slot, NEW max \in Nat \ {0},
           Route(u, leaf.t, path, slot), leaf.up # <<>>,
           Pending(u, leaf.t, g, path[Len(path)], leaf.up[1]),
           Grown(leaf, path, slot, max).free <= u.n + 1
    PROVE  \E g2 : /\ Whole(u, Grown(leaf, path, slot, max), g2)
                   /\ Grew(u, leaf.t, g, Grown(leaf, path, slot, max), g2)
<1> DEFINE L == Len(path)
           n == L - 1
           G == Grown(leaf, path, slot, max)
<1>1. PICK f : IsClimber(leaf, path, slot, max, f, n) /\ G = TopOf(leaf, path, slot, max, f)
  <2>1. Len(path) \in Nat \ {0}
    BY DEF Route
  <2> QED BY <2>1, GrownIs
<1>2. /\ L \in Nat /\ n \in Nat /\ n = L - 1 /\ L = Len(path)
      /\ path \in Seq(1 .. u.n) /\ path[1] = leaf.t.root
      /\ \A i \in 1 .. L : path[i] \in 1 .. u.n
      /\ \A i, j \in 1 .. L : path[i] = path[j] => i = j
      /\ \A i \in 1 .. L - 1 : ChildAt(leaf.t.pages, path[i], slot[i], path[i + 1])
  <2>1. /\ path \in Seq(1 .. u.n) /\ Len(path) \in Nat \ {0} /\ path[1] = leaf.t.root
        /\ \A i, j \in 1 .. Len(path) : path[i] = path[j] => i = j
        /\ \A i \in 1 .. Len(path) - 1 : ChildAt(leaf.t.pages, path[i], slot[i], path[i + 1])
    BY DEF Route
  <2>2. \A i \in 1 .. Len(path) : path[i] \in 1 .. u.n
    <3> DEFINE S == 1 .. u.n
    <3>1. path \in Seq(S)
      BY <2>1
    <3> HIDE DEF S
    <3>2. \A i \in 1 .. Len(path) : path[i] \in S
      BY <3>1
    <3> QED BY <3>2 DEF S
  <2>3. L = Len(path) /\ n = L - 1
    OBVIOUS
  <2> HIDE DEF L, n
  <2>4. L \in Nat /\ n \in Nat
    BY <2>1, <2>3
  <2> QED BY <2>1, <2>2, <2>3, <2>4
<1> HIDE DEF L, n, G
<1>3. \A h \in 0 .. n : f[h] = ClimbStep(leaf, path, slot, max, f, h)
  BY <1>1 DEF IsClimber
<1>4. IsTree(leaf.t)
  <2>1. Frame(u, leaf.t, g)
    BY DEF Pending, Standing
  <2>2. leaf.t.free \in Nat
    BY <2>1, FrameIs
  <2> QED BY <2>1, <2>2 DEF Frame, IsTree
<1>5. /\ \A h \in 0 .. n : IsTree(f[h].t) /\ f[h].t.free \in Nat /\ f[h].t.free <= u.n + 1
      /\ f[n].up # <<>> => f[n].t.free <= u.n
  <2>1. \A h \in 0 .. n : IsTree(f[h].t) /\ f[h].t.free <= f[n].t.free
    BY <1>1, <1>2, <1>4, ClimbGrows
  <2>2. \A h \in 0 .. n : f[h].t.free \in Nat
    BY <2>1 DEF IsTree
  <2>3. n \in 0 .. n /\ u.n \in Nat
    BY <1>2 DEF IsSpace
  <2>4. G.free <= u.n + 1
    BY DEF G
  <2>5. CASE f[n].up = <<>>
    <3>1. G = f[n].t
      BY <1>1, <1>2, <2>5 DEF TopOf
    <3>2. f[n].t.free <= u.n + 1
      BY <2>4, <3>1
    <3> DEFINE a == f[n].t.free
    <3>3. a \in Nat /\ a <= u.n + 1 /\ \A h \in 0 .. n : f[h].t.free <= a
      BY <2>1, <2>2, <2>3, <3>2
    <3> HIDE DEF a
    <3>4. \A h \in 0 .. n : f[h].t.free <= u.n + 1
      BY <2>2, <2>3, <3>3
    <3> QED BY <2>1, <2>2, <2>5, <3>4
  <2>6. CASE f[n].up # <<>>
    <3> DEFINE t == f[n].t
               up == f[n].up[1]
               a == t.free
    <3>1. G = NewRoot(t, up)
      BY <1>1, <1>2, <2>6 DEF TopOf
    <3>2. IsTree(t) /\ a \in Nat
      BY <2>1, <2>2, <2>3
    <3>3. NewRoot(t, up).free = a + 1
      <4> HIDE DEF t, up
      <4> QED BY <3>2, NewRootIs DEF a
    <3>4. \A h \in 0 .. n : f[h].t.free <= a
      BY <2>1
    <3> HIDE DEF a
    <3>5. a <= u.n
      BY <2>3, <2>4, <3>1, <3>2, <3>3
    <3>6. \A h \in 0 .. n : f[h].t.free <= u.n + 1
      BY <2>2, <2>3, <3>2, <3>4, <3>5
    <3> QED BY <2>1, <2>2, <3>5, <3>6 DEF a
  <2> QED BY <2>5, <2>6
<1> DEFINE Kept(h) == \A i \in 1 .. n - h : f[h].t.pages[path[i]] = leaf.t.pages[path[i]]
           Fine(h, g2) == /\ Grew(u, leaf.t, g, f[h].t, g2)
                          /\ \/ f[h].up = <<>> /\ Whole(u, f[h].t, g2)
                             \/ f[h].up # <<>> /\ Pending(u, f[h].t, g2, path[L - h], f[h].up[1])
           Good == {h \in 0 .. n : f[h].t.root = leaf.t.root /\ Kept(h) /\ \E g2 : Fine(h, g2)}
<1>6. 0 \in Good
  <2>1. f[0] = leaf
    BY <1>2, <1>3 DEF ClimbStep
  <2>2. Grew(u, leaf.t, g, leaf.t, g)
    BY <1>4 DEF Grew, IsTree
  <2>3. Fine(0, g)
    BY <1>2, <2>1, <2>2 DEF L
  <2>4. Kept(0) /\ f[0].t.root = leaf.t.root /\ 0 \in 0 .. n
    BY <1>2, <2>1
  <2> HIDE DEF Fine, Kept
  <2> QED BY <2>3, <2>4
<1>7. ASSUME NEW h \in 0 .. n - 1, h \in Good PROVE h + 1 \in Good
  <2> DEFINE r == f[h]
             s == f[h + 1]
             k == L - (h + 1)
             p == path[k]
             i == slot[k]
  <2>1. s = ClimbStep(leaf, path, slot, max, f, h + 1) /\ h + 1 # 0 /\ (h + 1) - 1 = h /\ h + 1 \in 0 .. n /\ h \in 0 .. n
    BY <1>2, <1>3
  <2>2. PICK g2 : Fine(h, g2)
    BY <1>7
  <2>3. r.t.root = leaf.t.root /\ Kept(h)
    BY <1>7
  <2>k. k \in 1 .. n /\ k = n - h /\ k \in 1 .. n - h /\ k \in 1 .. L /\ k \in 1 .. L - 1 /\ k + 1 = L - h
    BY <1>2
  <2> HIDE DEF Good
  <2>4. CASE r.up = <<>>
    <3>1. s = r
      BY <2>1, <2>4 DEF ClimbStep
    <3>2. Fine(h + 1, g2)
      BY <2>2, <2>4, <3>1
    <3>3. Kept(h + 1)
      <4> SUFFICES ASSUME NEW j \in 1 .. n - (h + 1) PROVE s.t.pages[path[j]] = leaf.t.pages[path[j]]
        OBVIOUS
      <4>1. j \in 1 .. n - h
        BY <1>2
      <4> QED BY <2>3, <3>1, <4>1
    <3>4. s.t.root = leaf.t.root
      BY <2>3, <3>1
    <3> HIDE DEF Fine, Kept
    <3> QED BY <2>1, <3>2, <3>3, <3>4 DEF Good
  <2>5. CASE r.up # <<>>
    <3> DEFINE up == r.up[1]
               c == path[L - h]
    <3>1. s = IntoBranch(r, p, i, max)
      <4>1. s = IntoBranch(f[h], path[Len(path) - (h + 1)], slot[Len(path) - (h + 1)], max)
        BY <2>1, <2>5 DEF ClimbStep
      <4> QED BY <4>1 DEF L
    <3>2. Pending(u, r.t, g2, c, up) /\ Grew(u, leaf.t, g, r.t, g2)
      BY <2>2, <2>5
    <3>3. p \in 1 .. u.n /\ ChildAt(leaf.t.pages, p, i, path[k + 1]) /\ r.t.pages[p] = leaf.t.pages[p]
      <4>1. r.t.pages[path[k]] = leaf.t.pages[path[k]]
        BY <2>3, <2>k
      <4>2. path[k] \in 1 .. u.n /\ ChildAt(leaf.t.pages, path[k], slot[k], path[k + 1])
        BY <1>2, <2>k
      <4> QED BY <4>1, <4>2
    <3>4. ChildAt(r.t.pages, p, i, c)
      <4> HIDE DEF p, i
      <4> QED BY <2>k, <3>3 DEF ChildAt, c
    <3>5. s.t.free <= u.n + 1 /\ IsTree(s.t)
      BY <1>5, <2>1
    <3>6. /\ TookIn(u, r.t, g2, s, p)
          /\ s.t.root = r.t.root
          /\ \A x \in 1 .. u.n : x # p /\ x # r.t.free => s.t.pages[x] = r.t.pages[x]
      <4>1. Pending(u, r.t, g2, c, r.up[1]) /\ p \in 1 .. u.n /\ ChildAt(r.t.pages, p, i, c)
            /\ s = IntoBranch(r, p, i, max) /\ s.t.free <= u.n + 1
        BY <3>1, <3>2, <3>3, <3>4, <3>5
      <4> HIDE DEF r, s, p, i, c
      <4>2. Turn(u, g2, r, c, p, i, max, s)
        BY <4>1 DEF Turn
      <4> QED BY <4>2, IntoBranchKeeps
    <3>7. PICK g3 : TakesIn(u, r.t, g2, s, p, g3)
      BY <3>6 DEF TookIn
    <3>8. Grew(u, leaf.t, g, s.t, g3)
      <4>1. leaf.t.free \in Nat
        BY <1>4 DEF IsTree
      <4> QED BY <3>2, <3>7, <4>1, GrewTwice DEF TakesIn
    <3>9. Fine(h + 1, g3)
      BY <3>7, <3>8 DEF TakesIn
    <3>10. Kept(h + 1)
      <4> SUFFICES ASSUME NEW j \in 1 .. n - (h + 1) PROVE s.t.pages[path[j]] = leaf.t.pages[path[j]]
        OBVIOUS
      <4>1. j \in 1 .. n - h /\ j \in 1 .. L /\ j \in 1 .. L - 1 /\ j # k
        BY <1>2
      <4>2. path[j] \in 1 .. u.n /\ path[j] # p /\ ChildAt(leaf.t.pages, path[j], slot[j], path[j + 1])
        BY <1>2, <2>k, <4>1
      <4>3. r.t.pages[path[j]] = leaf.t.pages[path[j]]
        BY <2>3, <4>1
      <4>4. path[j] # r.t.free
        <5>1. Frame(u, r.t, g2)
          BY <3>2 DEF Pending, Standing
        <5>2. r.t.pages[path[j]].kind = "branch"
          BY <4>2, <4>3 DEF ChildAt
        <5>3. r.t.pages[path[j]].kind = "unused" <=> path[j] >= r.t.free
          BY <4>2, <5>1 DEF Frame
        <5>4. ~(path[j] >= r.t.free) /\ r.t.free \in Nat
          BY <1>5, <2>1, <5>2, <5>3
        <5> QED BY <4>2, <5>4
      <4> QED BY <3>6, <4>2, <4>3, <4>4
    <3>11. s.t.root = leaf.t.root
      BY <2>3, <3>6
    <3> HIDE DEF Fine, Kept
    <3> QED BY <2>1, <3>9, <3>10, <3>11 DEF Good
  <2> QED BY <2>4, <2>5
<1> HIDE DEF Good
<1>8. n \in Good
  <2>1. \A h \in 0 .. n : h \in Good
    BY <1>2, <1>6, <1>7, Upwards
  <2> QED BY <1>2, <2>1
<1>9. PICK g2 : Fine(n, g2)
  BY <1>8 DEF Good
<1>10. f[n].t.root = leaf.t.root
  BY <1>8 DEF Good
<1> DEFINE t == f[n].t
           up == f[n].up[1]
<1>11. CASE f[n].up = <<>>
  <2>1. G = t
    BY <1>1, <1>2, <1>11 DEF TopOf
  <2>2. Whole(u, G, g2) /\ Grew(u, leaf.t, g, G, g2)
    BY <1>9, <1>11, <2>1
  <2> QED BY <2>2 DEF G
<1>12. CASE f[n].up # <<>>
  <2>1. G = NewRoot(t, up)
    BY <1>1, <1>2, <1>12 DEF TopOf
  <2>2. Grew(u, leaf.t, g, t, g2) /\ Pending(u, t, g2, t.root, up)
    <3>1. path[L - n] = leaf.t.root
      BY <1>2
    <3> QED BY <1>9, <1>10, <1>12, <3>1
  <2>3. t.free <= u.n /\ IsTree(t) /\ t.free \in Nat
    BY <1>2, <1>5, <1>12
  <2> HIDE DEF t, up
  <2>4. IsTree(G) /\ G = [pages |-> [t.pages EXCEPT ![t.free] = BranchPage(<<t.root, up.page>>, <<up.key>>)],
                          free |-> t.free + 1, root |-> t.free]
    BY <2>1, <2>3, NewRootIs
  <2>5. Frame(u, t, g2)
    BY <2>2 DEF Pending, Standing
  <2>6. DOMAIN t.pages = 1 .. u.n /\ t.free \in 1 .. u.n
    <3>1. DOMAIN t.pages = 1 .. u.n /\ t.free \in 2 .. u.n + 1 /\ u.n \in Nat
      BY <2>5, FrameIs
    <3> QED BY <2>3, <3>1
  <2>7. /\ DOMAIN G.pages = 1 .. u.n
        /\ G.pages[t.free] = BranchPage(<<t.root, up.page>>, <<up.key>>)
        /\ \A x \in 1 .. u.n : x # t.free => G.pages[x] = t.pages[x]
        /\ G.free = t.free + 1 /\ G.root = t.free
    BY <2>4, <2>6
  <2>8. G = [pages |-> G.pages, free |-> t.free + 1, root |-> t.free]
    BY <2>4, <2>7 DEF IsTree
  <2>9. Whole(u, G, Raised(u, g2, t.root, t.free))
    BY <2>2, <2>3, <2>7, <2>8, RootSplits
  <2> DEFINE g3 == Raised(u, g2, t.root, t.free)
  <2>10. Grew(u, t, g2, G, g3)
    <3>0. t.pages[t.free].kind = "unused" /\ G.pages[t.free].kind = "branch"
      <4>1. t.pages[t.free].kind = "unused" <=> t.free >= t.free
        BY <2>5, <2>6 DEF Frame
      <4> QED BY <2>3, <2>7, <4>1 DEF BranchPage
    <3>1. Plain(u, G.pages) = Plain(u, t.pages)
      BY <2>6, <2>7, <3>0 DEF Plain
    <3>2. \A x \in Plain(u, t.pages) : G.pages[x] = t.pages[x] /\ g3.lo[x] = g2.lo[x] /\ g3.hi[x] = g2.hi[x]
      BY <2>7, <3>0 DEF Plain, Raised
    <3>3. G.free \in Nat /\ t.free <= G.free
      BY <2>3, <2>7
    <3>4. G = [pages |-> G.pages, free |-> G.free, root |-> G.root]
      BY <2>4 DEF IsTree
    <3> HIDE DEF g3
    <3> QED BY <3>1, <3>2, <3>3, <3>4 DEF Grew
  <2> HIDE DEF g3
  <2>11. Grew(u, leaf.t, g, G, g3)
    <3>1. leaf.t.free \in Nat
      BY <1>4 DEF IsTree
    <3> QED BY <2>2, <2>10, <3>1, GrewTwice
  <2> QED BY <2>9, <2>11 DEF G, g3
<1> QED BY <1>11, <1>12

-----------------------------------------------------------------------------
(* Sorted lists of a set. *)

\* s has the members of S, each once, by their rank.
Ranked(S, rank) == \A x \in S : rank[x] \in Int
Rising(s, rank) == \A i, j \in 1 .. Len(s) : i < j => rank[s[i]] < rank[s[j]]
Lists(s, S, rank) == s \in Seq(S) /\ Rising(s, rank) /\ \A x \in S : \E i \in 1 .. Len(s) : s[i] = x

LEMMA SeqInto ==
    ASSUME NEW S, NEW T, NEW s, s \in Seq(S), \A i \in 1 .. Len(s) : s[i] \in T
    PROVE  s \in Seq(T)
<1>1. s \in [1 .. Len(s) -> T] /\ Len(s) \in Nat
  BY SeqIsFunction
<1> QED BY <1>1, FunctionIsSeq

\* There is one such list.
LEMMA SamePart ==
    ASSUME NEW S, NEW rank, Ranked(S, rank), NEW s, Lists(s, S, rank), NEW t, Lists(t, S, rank)
    PROVE  \A i \in 1 .. Len(s) : i \in 1 .. Len(t) /\ s[i] = t[i]
<1>1. /\ s \in Seq(S) /\ \A i, j \in 1 .. Len(s) : i < j => rank[s[i]] < rank[s[j]]
      /\ \A x \in S : \E i \in 1 .. Len(s) : s[i] = x
      /\ t \in Seq(S) /\ \A i, j \in 1 .. Len(t) : i < j => rank[t[i]] < rank[t[j]]
      /\ \A x \in S : \E i \in 1 .. Len(t) : t[i] = x
  BY DEF Lists, Rising
<1>2. /\ Len(s) \in Nat /\ Len(t) \in Nat
      /\ \A i \in 1 .. Len(s) : s[i] \in S /\ rank[s[i]] \in Int
      /\ \A i \in 1 .. Len(t) : t[i] \in S /\ rank[t[i]] \in Int
  BY <1>1, SeqIsFunction DEF Ranked
<1> DEFINE Good == {n \in 0 .. Len(s) : n = 0 \/ (n \in 1 .. Len(t) /\ s[n] = t[n])}
<1>3. ASSUME NEW n \in 0 .. Len(s), \A m \in 0 .. n - 1 : m \in Good PROVE n \in Good
  <2>1. CASE n = 0
    BY <2>1
  <2>2. CASE n # 0
    <3>0. n \in 1 .. Len(s) /\ \A m \in 1 .. n - 1 : m \in 1 .. Len(s) /\ m \in 1 .. Len(t) /\ s[m] = t[m]
      BY <1>2, <1>3, <2>2
    <3>1. PICK k \in 1 .. Len(t) : t[k] = s[n]
      BY <1>1, <1>2, <3>0
    <3>2. ~(k < n)
      <4>1. ASSUME k < n PROVE FALSE
        <5>1. k \in 1 .. n - 1
          BY <1>2, <3>0, <4>1
        <5>2. s[k] = s[n] /\ k \in 1 .. Len(s)
          BY <3>0, <3>1, <5>1
        <5>3. rank[s[k]] < rank[s[n]]
          BY <1>1, <3>0, <4>1, <5>2
        <5> QED BY <1>2, <3>0, <5>2, <5>3
      <4> QED BY <4>1
    <3>3. n \in 1 .. Len(t)
      BY <1>2, <3>0, <3>2
    <3>4. ~(n < k)
      <4>1. ASSUME n < k PROVE FALSE
        <5>1. rank[t[n]] < rank[t[k]]
          BY <1>1, <3>3, <4>1
        <5>2. PICK m \in 1 .. Len(s) : s[m] = t[n]
          BY <1>1, <1>2, <3>3
        <5>3. rank[s[m]] < rank[s[n]]
          BY <3>1, <5>1, <5>2
        <5>a. rank[s[m]] \in Int /\ rank[s[n]] \in Int
          BY <1>2, <3>0
        <5>b. ~(n < m)
          <6>1. n < m => rank[s[n]] < rank[s[m]]
            BY <1>1, <3>0
          <6> QED BY <5>3, <5>a, <6>1
        <5>4. ~(n < m) /\ m # n
          BY <5>3, <5>a, <5>b
        <5>5. m \in 1 .. n - 1
          BY <1>2, <3>0, <5>4
        <5>6. t[m] = t[n] /\ m \in 1 .. Len(t) /\ m < n
          BY <3>0, <5>2, <5>5
        <5>7. rank[t[m]] < rank[t[n]]
          BY <1>1, <3>3, <5>6
        <5> QED BY <1>2, <3>3, <5>6, <5>7
      <4> QED BY <4>1
    <3> QED BY <1>2, <3>0, <3>1, <3>2, <3>3, <3>4
  <2> QED BY <2>1, <2>2
<1> HIDE DEF Good
<1>4. \A n \in 0 .. Len(s) : n \in Good
  BY <1>2, <1>3, FromSmaller
<1>5. \A i \in 1 .. Len(s) : i \in 0 .. Len(s) /\ i # 0
  BY <1>2
<1> QED BY <1>4, <1>5 DEF Good

LEMMA SameLists ==
    ASSUME NEW S, NEW rank, Ranked(S, rank), NEW s, Lists(s, S, rank), NEW t, Lists(t, S, rank)
    PROVE  s = t
<1>1. /\ \A i \in 1 .. Len(s) : i \in 1 .. Len(t) /\ s[i] = t[i]
      /\ \A i \in 1 .. Len(t) : i \in 1 .. Len(s) /\ t[i] = s[i]
  BY SamePart
<1>2. s \in Seq(S) /\ t \in Seq(S)
  BY DEF Lists
<1>3. Len(s) = Len(t)
  <2>1. Len(s) \in Nat /\ Len(t) \in Nat
    BY <1>2, SeqIsFunction
  <2> QED BY <1>1, <2>1
<1>4. s = [i \in 1 .. Len(s) |-> s[i]] /\ t = [i \in 1 .. Len(t) |-> t[i]]
  BY <1>2
<1> QED BY <1>1, <1>3, <1>4

\* The members in T.
LEMMA PickedLists ==
    ASSUME NEW s, NEW S, NEW rank, Lists(s, S, rank), NEW I, NEW T,
           \A i \in 1 .. Len(s) : i \in I <=> s[i] \in T
    PROVE  Lists(Picked(s, I), S \cap T, rank)
<1> DEFINE d == Picked(s, I)
<1>1. /\ s \in Seq(S) /\ \A i, j \in 1 .. Len(s) : i < j => rank[s[i]] < rank[s[j]]
      /\ \A x \in S : \E i \in 1 .. Len(s) : s[i] = x
      /\ \A i \in 1 .. Len(s) : s[i] \in S
  BY SeqIsFunction DEF Lists, Rising
<1>2. PICK at : d \in Seq(S) /\ PicksAt(d, s, I, at)
  BY <1>1, PickedIs
<1> HIDE DEF d
<1>3. /\ \A k \in 1 .. Len(d) : at[k] \in 1 .. Len(s) /\ at[k] \in I /\ d[k] = s[at[k]]
      /\ \A j, k \in 1 .. Len(d) : j < k => at[j] < at[k]
      /\ \A i \in 1 .. Len(s) : i \in I => \E k \in 1 .. Len(d) : at[k] = i
  BY <1>2 DEF PicksAt
<1>4. d \in Seq(S \cap T)
  <2>1. \A k \in 1 .. Len(d) : d[k] \in S \cap T
    BY <1>1, <1>3
  <2> QED BY <1>2, <2>1, SeqInto
<1>5. Rising(d, rank)
  <2> SUFFICES ASSUME NEW j \in 1 .. Len(d), NEW k \in 1 .. Len(d), j < k PROVE rank[d[j]] < rank[d[k]]
    BY DEF Rising
  <2>1. at[j] < at[k] /\ at[j] \in 1 .. Len(s) /\ at[k] \in 1 .. Len(s)
    BY <1>3
  <2>2. rank[s[at[j]]] < rank[s[at[k]]]
    BY <1>1, <2>1
  <2> QED BY <1>3, <2>2
<1>6. ASSUME NEW x \in S \cap T PROVE \E k \in 1 .. Len(d) : d[k] = x
  <2>1. PICK i \in 1 .. Len(s) : s[i] = x
    BY <1>1
  <2>2. PICK k \in 1 .. Len(d) : at[k] = i
    BY <1>3, <2>1
  <2> QED BY <1>3, <2>1, <2>2
<1>7. Lists(d, S \cap T, rank)
  BY <1>4, <1>5, <1>6 DEF Lists
<1> QED BY <1>7 DEF d

\* The other way round.
Against(S, rank, back) == \A x, y \in S : rank[x] < rank[y] => back[y] < back[x]
LEMMA ReverseIs ==
    ASSUME NEW S, NEW s, s \in Seq(S)
    PROVE  /\ Reverse(s) \in Seq(S) /\ Len(Reverse(s)) = Len(s)
           /\ \A i \in 1 .. Len(s) : Len(s) - i + 1 \in 1 .. Len(s) /\ Reverse(s)[i] = s[Len(s) - i + 1]
<1>1. Len(s) \in Nat /\ \A i \in 1 .. Len(s) : s[i] \in S
  BY SeqIsFunction
<1>2. Reverse(s) = [i \in 1 .. Len(s) |-> s[(Len(s) - i) + 1]]
  BY DEF Reverse
<1>3. \A i \in 1 .. Len(s) : (Len(s) - i) + 1 \in 1 .. Len(s)
  BY <1>1
<1>4. \A i \in 1 .. Len(s) : Reverse(s)[i] = s[(Len(s) - i) + 1] /\ Reverse(s)[i] \in S
  BY <1>1, <1>2, <1>3
<1>5. Reverse(s) \in [1 .. Len(s) -> S]
  BY <1>1, <1>2, <1>3
<1>6. Reverse(s) \in Seq(S)
  BY <1>1, <1>5, FunctionIsSeq
<1>7. Len(Reverse(s)) = Len(s)
  BY <1>1, <1>5, <1>6
<1> QED BY <1>3, <1>4, <1>6, <1>7

LEMMA ReversedLists ==
    ASSUME NEW s, NEW S, NEW rank, Lists(s, S, rank), NEW back, Against(S, rank, back)
    PROVE  Lists(Reverse(s), S, back)
<1> DEFINE d == Reverse(s)
           n == Len(s)
<1>1. /\ s \in Seq(S) /\ \A i, j \in 1 .. n : i < j => rank[s[i]] < rank[s[j]]
      /\ \A x \in S : \E i \in 1 .. n : s[i] = x
      /\ \A i \in 1 .. n : s[i] \in S
      /\ n \in Nat
  BY SeqIsFunction DEF Lists, Rising
<1>2. /\ d \in Seq(S) /\ Len(d) = n
      /\ \A i \in 1 .. n : n - i + 1 \in 1 .. n /\ d[i] = s[n - i + 1]
  BY <1>1, ReverseIs
<1> HIDE DEF d, n
<1>3. Rising(d, back)
  <2>1. SUFFICES ASSUME NEW i \in 1 .. n, NEW j \in 1 .. n, i < j PROVE back[d[i]] < back[d[j]]
    BY <1>2 DEF Rising
  <2>2. n - j + 1 < n - i + 1
    BY <1>1, <2>1
  <2>3. rank[s[n - j + 1]] < rank[s[n - i + 1]]
    BY <1>1, <1>2, <2>2
  <2> QED BY <1>1, <1>2, <2>3 DEF Against
<1>4. ASSUME NEW x \in S PROVE \E i \in 1 .. Len(d) : d[i] = x
  <2>1. PICK i \in 1 .. n : s[i] = x
    BY <1>1
  <2>2. n - i + 1 \in 1 .. n /\ n - (n - i + 1) + 1 = i
    BY <1>1
  <2> QED BY <1>2, <2>1, <2>2
<1>5. Lists(d, S, back)
  BY <1>2, <1>3, <1>4 DEF Lists
<1> QED BY <1>5 DEF d

\* The first n of a list: the members left out come after all of them.
Heads(b, S, rank) ==
    /\ b \in Seq(S) /\ Rising(b, rank)
    /\ \A x \in S : (\E i \in 1 .. Len(b) : b[i] = x) \/ (\A i \in 1 .. Len(b) : rank[b[i]] < rank[x])

LEMMA HeadsOf ==
    ASSUME NEW s, NEW S, NEW rank, Lists(s, S, rank), NEW n, n \in 0 .. Len(s)
    PROVE  /\ Heads(SubSeq(s, 1, n), S, rank) /\ Len(SubSeq(s, 1, n)) = n
           /\ \A i \in 1 .. n : SubSeq(s, 1, n)[i] = s[i]
<1> DEFINE b == SubSeq(s, 1, n)
<1>1. /\ s \in Seq(S) /\ \A i, j \in 1 .. Len(s) : i < j => rank[s[i]] < rank[s[j]]
      /\ \A x \in S : \E i \in 1 .. Len(s) : s[i] = x
      /\ Len(s) \in Nat
  BY SeqIsFunction DEF Lists, Rising
<1>2. b \in Seq(S) /\ Len(b) = n /\ \A i \in 1 .. n : b[i] = s[i] /\ i \in 1 .. Len(s)
  <2>1. 1 \in Nat /\ n \in Nat /\ 1 <= n + 1 /\ n <= Len(s) /\ n - 1 + 1 = n
    BY <1>1
  <2>2. /\ SubSeq(s, 1, n) \in Seq(S) /\ Len(SubSeq(s, 1, n)) = n - 1 + 1
        /\ \A i \in 1 .. n - 1 + 1 : SubSeq(s, 1, n)[i] = s[1 + i - 1]
    BY <1>1, <2>1, PartIs
  <2>3. \A i \in 1 .. n : 1 + i - 1 = i /\ i \in 1 .. Len(s)
    BY <1>1
  <2> QED BY <2>1, <2>2, <2>3
<1> HIDE DEF b
<1>3. Rising(b, rank)
  BY <1>1, <1>2 DEF Rising
<1>4. ASSUME NEW x \in S
      PROVE  (\E i \in 1 .. Len(b) : b[i] = x) \/ (\A i \in 1 .. Len(b) : rank[b[i]] < rank[x])
  <2>1. PICK k \in 1 .. Len(s) : s[k] = x
    BY <1>1
  <2>2. CASE k <= n
    BY <1>2, <2>1, <2>2
  <2>3. CASE ~(k <= n)
    <3>1. \A i \in 1 .. n : i < k
      BY <1>1, <2>3
    <3> QED BY <1>1, <1>2, <2>1, <3>1
  <2> QED BY <2>2, <2>3
<1>5. Heads(b, S, rank)
  BY <1>2, <1>3, <1>4 DEF Heads
<1> QED BY <1>2, <1>5 DEF b

\* What the leaves of a chain hold, met one after the other: everything the
\* leaves from the first on hold, once, by rank.
Shelved(L, a, b, E, S, rank) ==
    \A q \in L : /\ E[q] \in Seq(S) /\ Rising(E[q], rank)
                 /\ \A i \in 1 .. Len(E[q]) : /\ rank[E[q][i]] \in Int
                                              /\ a[q] <= rank[E[q][i]] /\ rank[E[q][i]] < b[q]
Met(L, a, E, S, first) == {e \in S : \E q \in L : a[first] <= a[q] /\ \E i \in 1 .. Len(E[q]) : E[q][i] = e}
MeetsAll(L, a, b, E, S, rank, first, s) ==
    Lists(FlattenSeq([i \in DOMAIN s |-> E[s[i]]]), Met(L, a, E, S, first), rank)

LEMMA ChainMeets ==
    ASSUME NEW N, NEW L, NEW top, NEW a, NEW b, NEW link, Joins(N, L, top, a, b, link), NEW first \in L,
           NEW s, IsChain(L, top, a, b, first, s), NEW E, NEW S, NEW rank, Shelved(L, a, b, E, S, rank)
    PROVE  MeetsAll(L, a, b, E, S, rank, first, s)
<1> DEFINE ss == [i \in DOMAIN s |-> E[s[i]]]
           R == {z \in S \X S : rank[z[1]] < rank[z[2]]}
           M == Met(L, a, E, S, first)
           flat == FlattenSeq(ss)
<1>1. /\ s \in Seq(L) /\ Len(s) \in Nat \ {0} /\ s[1] = first
      /\ \A i, j \in 1 .. Len(s) : i < j => b[s[i]] <= a[s[j]]
      /\ \A q \in L : a[first] <= a[q] => \E i \in 1 .. Len(s) : s[i] = q
      /\ \A q \in L : a[q] \in Nat /\ b[q] \in Nat /\ a[q] < b[q]
  BY DEF IsChain, Joins
<1>2. DOMAIN s = 1 .. Len(s) /\ \A i \in 1 .. Len(s) : s[i] \in L
  BY <1>1, SeqIsFunction
<1>3. /\ \A q \in L : E[q] \in Seq(S) /\ Rising(E[q], rank)
      /\ \A q \in L : \A i \in 1 .. Len(E[q]) : /\ E[q][i] \in S /\ rank[E[q][i]] \in Int
                                                /\ a[q] <= rank[E[q][i]] /\ rank[E[q][i]] < b[q]
  BY SeqIsFunction DEF Shelved
<1>4. /\ ss \in Seq(Seq(S)) /\ Len(ss) = Len(s)
      /\ \A i \in 1 .. Len(s) : ss[i] = E[s[i]]
  <2>1. ss \in [1 .. Len(s) -> Seq(S)]
    BY <1>2, <1>3
  <2> QED BY <1>1, <1>2, <2>1, FunctionIsSeq
<1> HIDE DEF ss
<1>5. ASSUME NEW n \in 1 .. Len(s), NEW i \in 1 .. Len(ss[n])
      PROVE  /\ ss[n][i] \in S /\ rank[ss[n][i]] \in Int
             /\ a[s[n]] <= rank[ss[n][i]] /\ rank[ss[n][i]] < b[s[n]]
  BY <1>2, <1>3, <1>4
<1>6. PartsSorted(ss, R)
  <2>1. ASSUME NEW n \in 1 .. Len(s) PROVE SortedBy(ss[n], R)
    <3>1. \A i, j \in 1 .. Len(ss[n]) : i < j => rank[ss[n][i]] < rank[ss[n][j]]
      BY <1>2, <1>3, <1>4 DEF Rising
    <3> QED BY <1>5, <3>1 DEF SortedBy
  <2>2. ASSUME NEW n \in 1 .. Len(s), NEW m \in 1 .. Len(s), n < m,
               NEW i \in 1 .. Len(ss[n]), NEW j \in 1 .. Len(ss[m])
        PROVE  <<ss[n][i], ss[m][j]>> \in R
    <3> DEFINE x == rank[ss[n][i]]
               y == rank[ss[m][j]]
               l == b[s[n]]
               h == a[s[m]]
    <3>1. x \in Int /\ y \in Int /\ x < l /\ h <= y
      BY <1>5
    <3>2. l <= h /\ l \in Nat /\ h \in Nat
      BY <1>1, <1>2, <2>2
    <3>3. ss[n][i] \in S /\ ss[m][j] \in S
      BY <1>5
    <3> HIDE DEF x, y, l, h
    <3>4. x < y
      BY <3>1, <3>2
    <3> QED BY <3>3, <3>4 DEF x, y
  <2> QED BY <1>4, <2>1, <2>2 DEF PartsSorted
<1>7. /\ flat \in Seq(S) /\ SortedBy(flat, R)
      /\ \A i \in 1 .. Len(flat) : \E n \in 1 .. Len(s) : \E m \in 1 .. Len(ss[n]) : flat[i] = ss[n][m]
      /\ \A n \in 1 .. Len(s) : \A m \in 1 .. Len(ss[n]) : \E i \in 1 .. Len(flat) : flat[i] = ss[n][m]
  <2> HIDE DEF R
  <2>1. flat \in Seq(S) /\ Strings(flat, ss, Len(ss)) /\ SortedBy(flat, R)
    BY <1>4, <1>6, FlattenIs
  <2> HIDE DEF flat
  <2>2. Strings(flat, ss, Len(s))
    BY <1>4, <2>1
  <2>3. /\ \A i \in 1 .. Len(flat) : \E n \in 1 .. Len(s) : \E m \in 1 .. Len(ss[n]) : flat[i] = ss[n][m]
        /\ \A n \in 1 .. Len(s) : \A m \in 1 .. Len(ss[n]) : \E i \in 1 .. Len(flat) : flat[i] = ss[n][m]
    BY <2>2, Zenon DEF Strings
  <2> QED BY <2>1, <2>3
<1> HIDE DEF flat
<1>8. Rising(flat, rank)
  BY <1>7 DEF SortedBy, Rising
<1>9. \A n \in 1 .. Len(s) : a[first] <= a[s[n]]
  <2> TAKE n \in 1 .. Len(s)
  <2>1. CASE n = 1
    BY <1>1, <1>2, <2>1
  <2>2. CASE n # 1
    <3>1. 1 \in 1 .. Len(s) /\ 1 < n
      BY <1>1, <2>2
    <3>2. b[first] <= a[s[n]] /\ a[first] < b[first]
      BY <1>1, <3>1
    <3>3. a[first] \in Nat /\ b[first] \in Nat /\ a[s[n]] \in Nat
      BY <1>1, <1>2
    <3> QED BY <3>2, <3>3
  <2> QED BY <2>1, <2>2
<1>10. flat \in Seq(M)
  <2>1. ASSUME NEW i \in 1 .. Len(flat) PROVE flat[i] \in M
    <3>1. PICK n \in 1 .. Len(s) : \E m \in 1 .. Len(ss[n]) : flat[i] = ss[n][m]
      BY <1>7
    <3>2. PICK m \in 1 .. Len(ss[n]) : flat[i] = ss[n][m]
      BY <3>1
    <3>3. s[n] \in L /\ a[first] <= a[s[n]] /\ ss[n] = E[s[n]] /\ ss[n][m] \in S
      BY <1>2, <1>4, <1>5, <1>9
    <3> QED BY <3>2, <3>3 DEF Met
  <2> HIDE DEF M
  <2> QED BY <1>7, <2>1, SeqInto
<1>11. ASSUME NEW e \in M PROVE \E i \in 1 .. Len(flat) : flat[i] = e
  <2>1. PICK q \in L : a[first] <= a[q] /\ \E i \in 1 .. Len(E[q]) : E[q][i] = e
    BY <1>11 DEF Met
  <2>2. PICK n \in 1 .. Len(s) : s[n] = q
    BY <1>1, <2>1
  <2>3. PICK m \in 1 .. Len(E[q]) : E[q][m] = e
    BY <2>1
  <2>4. m \in 1 .. Len(ss[n]) /\ ss[n][m] = e
    BY <1>4, <2>2, <2>3
  <2> QED BY <1>7, <2>4
<1>12. Lists(flat, M, rank)
  <2> HIDE DEF M
  <2> QED BY <1>8, <1>10, <1>11 DEF Lists
<1> QED BY <1>12 DEF MeetsAll, flat, ss

\* The pages of the chain itself, by their first place.
LEMMA ChainLists ==
    ASSUME NEW N, NEW L, NEW top, NEW a, NEW b, NEW link, Joins(N, L, top, a, b, link), NEW first \in L,
           NEW s, IsChain(L, top, a, b, first, s), \A q \in L : a[first] <= a[q]
    PROVE  Lists(s, L, a)
<1>1. /\ s \in Seq(L) /\ \A i, j \in 1 .. Len(s) : i < j => b[s[i]] <= a[s[j]]
      /\ \A q \in L : \E i \in 1 .. Len(s) : s[i] = q
      /\ \A q \in L : a[q] \in Nat /\ b[q] \in Nat /\ a[q] < b[q]
  BY DEF IsChain, Joins
<1>2. \A i \in 1 .. Len(s) : s[i] \in L
  BY <1>1, SeqIsFunction
<1>3. ASSUME NEW i \in 1 .. Len(s), NEW j \in 1 .. Len(s), i < j PROVE a[s[i]] < a[s[j]]
  <2>1. b[s[i]] <= a[s[j]] /\ a[s[i]] < b[s[i]] /\ a[s[i]] \in Nat /\ b[s[i]] \in Nat /\ a[s[j]] \in Nat
    BY <1>1, <1>2, <1>3
  <2> QED BY <2>1
<1> QED BY <1>1, <1>3 DEF Lists, Rising

\* A list has as many entries as the set has members.
LEMMA ListCounts ==
    ASSUME NEW S, NEW rank, Ranked(S, rank), NEW s, Lists(s, S, rank), IsFiniteSet(S)
    PROVE  Len(s) = Cardinality(S) /\ {s[i] : i \in DOMAIN s} = S
<1>1. s \in Seq(S) /\ \A i, j \in 1 .. Len(s) : i < j => rank[s[i]] < rank[s[j]]
  BY DEF Lists, Rising
<1>2. DOMAIN s = 1 .. Len(s) /\ Len(s) \in Nat /\ \A i \in 1 .. Len(s) : s[i] \in S /\ rank[s[i]] \in Int
  BY <1>1, SeqIsFunction DEF Ranked
<1>3. {s[i] : i \in 1 .. Len(s)} = S
  BY <1>2 DEF Lists
<1>4. ASSUME NEW i \in 1 .. Len(s), NEW j \in 1 .. Len(s), s[i] = s[j] PROVE i = j
  <2>1. ~(i < j) /\ ~(j < i)
    BY <1>1, <1>2, <1>4
  <2> QED BY <2>1
<1>5. Cardinality({s[i] : i \in 1 .. Len(s)}) = Len(s)
  BY <1>1, <1>4, Distinct
<1> QED BY <1>2, <1>3, <1>5
=============================================================================
