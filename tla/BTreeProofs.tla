------------------------------ MODULE BTreeProofs ------------------------------
(***************************************************************************)
(* BTree, for every number of ids, pages and keys a page, every page size, *)
(* every size of a row and every workload: the row tree, the index kept in *)
(* step with it, and the client that pages through either.                 *)
(***************************************************************************)
EXTENDS BTree, IndexTreeProofs

-----------------------------------------------------------------------------
(* Rows in a leaf and their overflow chains. *)

\* Row ids as the places of the tree; place MaxId + 1 is beyond every id.
Space == [n |-> MaxPages, top |-> MaxId + 2, keys |-> Ids, rank |-> [x \in Ids |-> x]]

LEMMA SpaceIs ==
    /\ IsSpace(Space) /\ Space.n = MaxPages /\ Space.top = MaxId + 2 /\ Space.keys = Ids
    /\ \A x \in Ids : Space.rank[x] = x
    /\ MaxPages \in Nat \ {0} /\ MaxId \in Nat /\ MaxKeys \in Nat \ {0}
    /\ Cap \in Nat \ {0} /\ Trailer \in 1 .. Cap - 1 /\ Payload \in Nat \ {0} /\ Checksum \in Nat
BY SpaceAssumption DEF Space, IsSpace, Ids

Entries == [id : Ids, w : 1 .. Cap, first : 0 .. MaxPages]

\* An overflow page points to one of a smaller number: chains are written from
\* their last chunk to their first, each on a new page.
ChainsDown(P) ==
    \A p \in PageNo : P[p].kind = "overflow" =>
        /\ P[p].len \in Int /\ P[p].next \in 0 .. p - 1
        /\ P[p].next # 0 => P[P[p].next].kind = "overflow"

TailStep(P, f, p) == IF p = 0 \/ P[p].kind # "overflow" THEN 0 ELSE P[p].len + f[P[p].next]
IsTail(P, f) == f = [p \in 0 .. MaxPages |-> TailStep(P, f, p)]
Tail2(P) == CHOOSE f : IsTail(P, f)

LEMMA ReassembleIs ==
    ASSUME NEW P, NEW e
    PROVE  Reassemble(P, e) = IF e.first = 0 THEN e.w ELSE e.w - Trailer + Tail2(P)[e.first]
BY DEF Reassemble, Tail2, IsTail, TailStep

LEMMA TailIs ==
    ASSUME NEW P, ChainsDown(P)
    PROVE  IsTail(P, Tail2(P)) /\ \A p \in 0 .. MaxPages : Tail2(P)[p] \in Int
<1> DEFINE Is(f, m) == f = [p \in 0 .. m |-> TailStep(P, f, p)]
           Known == {m \in 0 .. MaxPages : \E f : Is(f, m)}
<1>0. MaxPages \in Nat /\ PageNo = 1 .. MaxPages
  BY SpaceIs DEF PageNo
<1>1. 0 \in Known
  <2> DEFINE f == [p \in 0 .. 0 |-> 0]
  <2>1. \A p \in 0 .. 0 : f[p] = TailStep(P, f, p)
    BY DEF TailStep
  <2>2. f = [p \in 0 .. 0 |-> f[p]]
    OBVIOUS
  <2> HIDE DEF f
  <2>3. Is(f, 0)
    BY <2>1, <2>2
  <2> HIDE DEF Is
  <2> QED BY <1>0, <2>3
<1>2. ASSUME NEW m \in 0 .. MaxPages - 1, m \in Known PROVE m + 1 \in Known
  <2>1. PICK f : Is(f, m)
    BY <1>2
  <2> DEFINE g == [p \in 0 .. m + 1 |-> IF p = m + 1 THEN TailStep(P, f, p) ELSE f[p]]
  <2>2. g = [p \in 0 .. m + 1 |-> g[p]] /\ \A p \in 0 .. m + 1 : g[p] = TailStep(P, f, p)
    BY <2>1
  <2>3. \A p \in 0 .. m : g[p] = f[p]
    OBVIOUS
  <2> HIDE DEF g
  <2>4. \A p \in 0 .. m + 1 : TailStep(P, g, p) = TailStep(P, f, p)
    <3> TAKE p \in 0 .. m + 1
    <3>1. CASE p = 0 \/ P[p].kind # "overflow"
      BY <3>1 DEF TailStep
    <3>2. CASE p # 0 /\ P[p].kind = "overflow"
      <4>1. p \in PageNo
        BY <1>0, <3>2
      <4>2. P[p].next \in 0 .. p - 1
        BY <3>2, <4>1 DEF ChainsDown
      <4>3. P[p].next \in 0 .. m
        BY <1>0, <4>2
      <4> QED BY <2>3, <4>3 DEF TailStep
    <3> QED BY <3>1, <3>2
  <2>5. Is(g, m + 1)
    BY <2>2, <2>4
  <2> HIDE DEF Is
  <2> QED BY <1>0, <2>5
<1> HIDE DEF Known
<1>3. MaxPages \in Known
  <2>1. 0 \in Nat
    OBVIOUS
  <2>2. \A n \in 0 .. MaxPages : n \in Known
    BY <1>0, <1>1, <1>2, <2>1, Upwards
  <2> QED BY <1>0, <2>2
<1>4. IsTail(P, Tail2(P))
  <2>1. \E f : IsTail(P, f)
    BY <1>3 DEF Known, IsTail
  <2> QED BY <2>1 DEF Tail2
<1> DEFINE f == Tail2(P)
           Good == {p \in 0 .. MaxPages : f[p] \in Int}
<1>5. \A p \in 0 .. MaxPages : f[p] = TailStep(P, f, p)
  <2> HIDE DEF f
  <2> QED BY <1>4 DEF IsTail, f
<1> HIDE DEF f
<1>6. ASSUME NEW p \in 0 .. MaxPages, \A q \in 0 .. p - 1 : q \in Good PROVE p \in Good
  <2>1. CASE p = 0 \/ P[p].kind # "overflow"
    BY <1>5, <2>1 DEF TailStep
  <2>2. CASE p # 0 /\ P[p].kind = "overflow"
    <3>1. p \in PageNo
      BY <1>0, <2>2
    <3>2. P[p].next \in 0 .. p - 1 /\ P[p].len \in Int
      BY <2>2, <3>1 DEF ChainsDown
    <3>3. f[P[p].next] \in Int
      BY <1>6, <3>2
    <3> QED BY <1>5, <2>2, <3>2, <3>3 DEF TailStep
  <2> QED BY <2>1, <2>2
<1> HIDE DEF Good
<1>7. \A p \in 0 .. MaxPages : p \in Good
  BY <1>0, <1>6, FromSmaller
<1> QED BY <1>4, <1>7 DEF Good, f

\* Other pages do not change what a chain holds.
LEMMA TailSame ==
    ASSUME NEW P, ChainsDown(P), NEW Q, ChainsDown(Q),
           \A p \in PageNo : P[p].kind = "overflow" => Q[p] = P[p]
    PROVE  \A p \in 0 .. MaxPages : p = 0 \/ P[p].kind = "overflow" => Tail2(Q)[p] = Tail2(P)[p]
<1> DEFINE f == Tail2(P)
           g == Tail2(Q)
           Good == {p \in 0 .. MaxPages : p = 0 \/ P[p].kind = "overflow" => g[p] = f[p]}
<1>0. MaxPages \in Nat /\ PageNo = 1 .. MaxPages
  BY SpaceIs DEF PageNo
<1>1. \A p \in 0 .. MaxPages : f[p] = TailStep(P, f, p) /\ g[p] = TailStep(Q, g, p)
  <2>1. IsTail(P, f) /\ IsTail(Q, g)
    BY TailIs
  <2> HIDE DEF f, g
  <2> QED BY <2>1 DEF IsTail
<1> HIDE DEF f, g
<1>2. ASSUME NEW p \in 0 .. MaxPages, \A q \in 0 .. p - 1 : q \in Good PROVE p \in Good
  <2>1. CASE p = 0
    BY <1>1, <2>1 DEF TailStep
  <2>2. CASE p # 0 /\ P[p].kind = "overflow"
    <3>1. p \in PageNo
      BY <1>0, <2>2
    <3>2. P[p].next \in 0 .. p - 1 /\ (P[p].next # 0 => P[P[p].next].kind = "overflow") /\ Q[p] = P[p]
      BY <2>2, <3>1 DEF ChainsDown
    <3>3. g[P[p].next] = f[P[p].next]
      BY <1>2, <3>2
    <3> QED BY <1>1, <2>2, <3>2, <3>3 DEF TailStep
  <2>3. CASE p # 0 /\ P[p].kind # "overflow"
    BY <2>3
  <2> QED BY <2>1, <2>2, <2>3
<1> HIDE DEF Good
<1>3. \A p \in 0 .. MaxPages : p \in Good
  BY <1>0, <1>2, FromSmaller
<1> QED BY <1>3 DEF Good, f, g

\* The rows s of a leaf for the ids from l to h - 1 are those of R.
Ordered2(s) == \A i, j \in 1 .. Len(s) : i < j => s[i].id < s[j].id
RowIs(P, e, l, h, R) == /\ l <= e.id /\ e.id < h
                        /\ Reassemble(P, e) = R[e.id] /\ R[e.id] # 0
                        /\ e.first # 0 => P[e.first].kind = "overflow"
Holds(P, s, l, h, R) ==
    /\ s \in Seq(Entries) /\ Ordered2(s)
    /\ \A i \in 1 .. Len(s) : RowIs(P, s[i], l, h, R)
    /\ \A x \in Ids : l <= x /\ x < h /\ R[x] # 0 => \E i \in 1 .. Len(s) : s[i].id = x

LEMMA HoldsElsewhere ==
    ASSUME NEW P, ChainsDown(P), NEW Q, ChainsDown(Q),
           \A p \in PageNo : P[p].kind = "overflow" => Q[p] = P[p],
           NEW s, NEW l, NEW h, NEW R, NEW R2, Holds(P, s, l, h, R),
           \A x \in Ids : l <= x /\ x < h => R2[x] = R[x]
    PROVE  Holds(Q, s, l, h, R2)
<1>1. /\ s \in Seq(Entries) /\ Ordered2(s)
      /\ \A i \in 1 .. Len(s) : RowIs(P, s[i], l, h, R)
      /\ \A x \in Ids : l <= x /\ x < h /\ R[x] # 0 => \E i \in 1 .. Len(s) : s[i].id = x
  BY DEF Holds
<1>2. \A i \in 1 .. Len(s) : s[i] \in Entries
  BY <1>1
<1>3. ASSUME NEW e \in Entries, RowIs(P, e, l, h, R) PROVE RowIs(Q, e, l, h, R2)
  <2>1. e.id \in Ids /\ e.first \in 0 .. MaxPages /\ e.w \in Int
    BY DEF Entries
  <2>2. l <= e.id /\ e.id < h /\ Reassemble(P, e) = R[e.id] /\ R[e.id] # 0
        /\ (e.first # 0 => P[e.first].kind = "overflow")
    BY <1>3 DEF RowIs
  <2>3. Reassemble(Q, e) = Reassemble(P, e)
    <3>1. e.first # 0 => Tail2(Q)[e.first] = Tail2(P)[e.first]
      BY <2>1, <2>2, TailSame
    <3> QED BY <3>1, ReassembleIs
  <2>4. e.first # 0 => Q[e.first].kind = "overflow"
    <3>1. e.first # 0 => e.first \in PageNo
      BY <2>1, SpaceIs DEF PageNo
    <3> QED BY <2>2, <3>1
  <2> QED BY <2>1, <2>2, <2>3, <2>4 DEF RowIs
<1>4. \A x \in Ids : l <= x /\ x < h /\ R2[x] # 0 => \E i \in 1 .. Len(s) : s[i].id = x
  BY <1>1
<1> QED BY <1>1, <1>2, <1>3, <1>4 DEF Holds

\* A new row in a leaf.
LEMMA HoldsInsert ==
    ASSUME NEW P, NEW s, NEW l, NEW h, NEW R, Holds(P, s, l, h, R),
           NEW e \in Entries, R[e.id] = 0,
           NEW R2, RowIs(P, e, l, h, R2), \A x \in Ids : x # e.id => R2[x] = R[x]
    PROVE  Holds(P, WithInsert(s, e), l, h, R2) /\ Len(WithInsert(s, e)) = Len(s) + 1
<1> DEFINE above == {i \in 1 .. Len(s) : s[i].id >= e.id}
           at == FirstOf(Len(s), above)
           d == InsertAt(s, at, e)
<1>1. /\ s \in Seq(Entries) /\ Ordered2(s)
      /\ \A i \in 1 .. Len(s) : RowIs(P, s[i], l, h, R)
      /\ \A x \in Ids : l <= x /\ x < h /\ R[x] # 0 => \E i \in 1 .. Len(s) : s[i].id = x
  BY DEF Holds
<1>2. Len(s) \in Nat /\ DOMAIN s = 1 .. Len(s) /\ \A i \in 1 .. Len(s) : s[i] \in Entries
  BY <1>1, SeqIsFunction
<1>3. e.id \in Int /\ e.id \in Ids /\ \A i \in 1 .. Len(s) : s[i].id \in Int /\ s[i].id \in Ids
  <2>1. \A v \in Entries : v.id \in Int /\ v.id \in Ids
    BY SpaceIs DEF Entries, Ids
  <2> QED BY <1>2, <2>1
<1>4. WithInsert(s, e) = d
  BY <1>2 DEF WithInsert
<1>5. /\ at \in 1 .. Len(s) + 1 /\ (at <= Len(s) => at \in above)
      /\ \A i \in 1 .. Len(s) : i < at => i \notin above
  <2> HIDE DEF above
  <2>1. above \subseteq 1 .. Len(s)
    BY DEF above
  <2> QED BY <1>2, <2>1, FirstOfIs
<1>6. d \in Seq(Entries) /\ IsInserted(d, s, at, e)
  <2> HIDE DEF above, at
  <2> QED BY <1>1, <1>5, Inserted
<1>7. /\ \A i \in 1 .. Len(s) : i < at => s[i].id < e.id
      /\ \A i \in 1 .. Len(s) : i >= at => e.id < s[i].id
  <2>1. ASSUME NEW i \in 1 .. Len(s), i < at PROVE s[i].id < e.id
    BY <1>3, <1>5, <2>1
  <2>2. ASSUME NEW i \in 1 .. Len(s), i >= at PROVE e.id < s[i].id
    <3>1. at \in 1 .. Len(s) /\ s[at].id >= e.id
      BY <1>2, <1>5, <2>2
    <3>2. s[at].id # e.id
      BY <1>1, <3>1 DEF RowIs
    <3>3. i = at \/ s[at].id < s[i].id
      <4> HIDE DEF at
      <4> QED BY <1>1, <2>2, <3>1 DEF Ordered2
    <3>4. s[at].id \in Int /\ s[i].id \in Int
      BY <1>3, <3>1
    <3> QED BY <1>3, <3>1, <3>2, <3>3, <3>4
  <2> QED BY <2>1, <2>2
<1> HIDE DEF at, d
<1>8. /\ Len(d) = Len(s) + 1 /\ d[at] = e
      /\ \A j \in 1 .. at - 1 : j \in 1 .. Len(s) /\ d[j] = s[j]
      /\ \A j \in at + 1 .. Len(s) + 1 : j - 1 \in 1 .. Len(s) /\ d[j] = s[j - 1]
  BY <1>2, <1>5, <1>6 DEF IsInserted
<1>9. Ordered2(d)
  <2>1. SUFFICES ASSUME NEW i \in 1 .. Len(s) + 1, NEW j \in 1 .. Len(s) + 1, i < j
                 PROVE  d[i].id < d[j].id
    BY <1>8 DEF Ordered2
  <2>2. CASE i < at /\ j < at
    <3>1. d[i] = s[i] /\ d[j] = s[j] /\ i \in 1 .. Len(s) /\ j \in 1 .. Len(s)
      BY <1>5, <1>8, <2>2
    <3> QED BY <1>1, <2>1, <3>1 DEF Ordered2
  <2>3. CASE i < at /\ j = at
    <3>1. d[i] = s[i] /\ i \in 1 .. Len(s)
      BY <1>5, <1>8, <2>3
    <3> QED BY <1>7, <1>8, <2>3, <3>1
  <2>4. CASE i < at /\ j > at
    <3>1. d[i] = s[i] /\ i \in 1 .. Len(s) /\ d[j] = s[j - 1] /\ j - 1 \in 1 .. Len(s) /\ j - 1 >= at
      BY <1>5, <1>8, <2>4
    <3>2. s[i].id < e.id /\ e.id < s[j - 1].id /\ s[i].id \in Int /\ s[j - 1].id \in Int
      BY <1>3, <1>7, <2>4, <3>1
    <3> QED BY <1>3, <3>1, <3>2
  <2>5. CASE i = at
    <3>1. d[j] = s[j - 1] /\ j - 1 \in 1 .. Len(s) /\ j - 1 >= at
      BY <1>5, <1>8, <2>1, <2>5
    <3> QED BY <1>7, <1>8, <2>5, <3>1
  <2>6. CASE i > at
    <3>1. /\ d[i] = s[i - 1] /\ i - 1 \in 1 .. Len(s)
          /\ d[j] = s[j - 1] /\ j - 1 \in 1 .. Len(s) /\ i - 1 < j - 1
      BY <1>5, <1>8, <2>1, <2>6
    <3> QED BY <1>1, <3>1 DEF Ordered2
  <2> QED BY <1>2, <1>5, <2>2, <2>3, <2>4, <2>5, <2>6
<1>10. ASSUME NEW j \in 1 .. Len(d) PROVE RowIs(P, d[j], l, h, R2)
  <2>1. ASSUME NEW i \in 1 .. Len(s) PROVE RowIs(P, s[i], l, h, R2)
    <3>1. RowIs(P, s[i], l, h, R) /\ s[i].id \in Ids /\ s[i].id # e.id
      BY <1>1, <1>3, <1>5, <1>7
    <3> QED BY <3>1 DEF RowIs
  <2>2. j = at \/ j \in 1 .. at - 1 \/ j \in at + 1 .. Len(s) + 1
    BY <1>2, <1>5, <1>8
  <2> QED BY <1>8, <2>1, <2>2
<1>11. ASSUME NEW x \in Ids, l <= x, x < h, R2[x] # 0 PROVE \E j \in 1 .. Len(d) : d[j].id = x
  <2>1. CASE x = e.id
    BY <1>2, <1>5, <1>8, <2>1
  <2>2. CASE x # e.id
    <3>1. PICK i \in 1 .. Len(s) : s[i].id = x
      BY <1>1, <1>11, <2>2
    <3>2. CASE i < at
      <4>1. i \in 1 .. at - 1 /\ i \in 1 .. Len(s) + 1
        BY <1>2, <1>5, <3>2
      <4> QED BY <1>8, <3>1, <4>1
    <3>3. CASE i >= at
      <4>1. i + 1 \in at + 1 .. Len(s) + 1 /\ i + 1 \in 1 .. Len(s) + 1 /\ i + 1 - 1 = i
        BY <1>2, <1>5, <3>3
      <4>2. d[i + 1] = s[i]
        BY <1>8, <4>1
      <4> QED BY <1>8, <3>1, <4>1, <4>2
    <3> QED BY <1>2, <1>5, <3>2, <3>3
  <2> QED BY <2>1, <2>2
<1>12. Holds(P, d, l, h, R2)
  BY <1>6, <1>9, <1>10, <1>11 DEF Holds
<1> QED BY <1>4, <1>8, <1>12

\* A leaf cut in two.
LEMMA HoldsCut ==
    ASSUME NEW P, NEW s, NEW l, NEW h, NEW R, Holds(P, s, l, h, R), l \in Nat, h \in Nat,
           NEW m \in 1 .. Len(s) - 1
    PROVE  /\ s[m + 1].id \in Ids /\ l < s[m + 1].id /\ s[m + 1].id < h
           /\ Holds(P, SubSeq(s, 1, m), l, s[m + 1].id, R)
           /\ Holds(P, SubSeq(s, m + 1, Len(s)), s[m + 1].id, h, R)
<1> DEFINE a == SubSeq(s, 1, m)
           b == SubSeq(s, m + 1, Len(s))
           k == s[m + 1].id
<1>1. /\ s \in Seq(Entries) /\ Ordered2(s)
      /\ \A i \in 1 .. Len(s) : RowIs(P, s[i], l, h, R)
      /\ \A x \in Ids : l <= x /\ x < h /\ R[x] # 0 => \E i \in 1 .. Len(s) : s[i].id = x
  BY DEF Holds
<1>2. Len(s) \in Nat /\ DOMAIN s = 1 .. Len(s) /\ \A i \in 1 .. Len(s) : s[i] \in Entries
  BY <1>1, SeqIsFunction
<1>3. \A i \in 1 .. Len(s) : s[i].id \in Int /\ s[i].id \in Ids
  <2>1. \A v \in Entries : v.id \in Int /\ v.id \in Ids
    BY SpaceIs DEF Entries, Ids
  <2> QED BY <1>2, <2>1
<1>4. /\ a \in Seq(Entries) /\ Len(a) = m /\ \A i \in 1 .. m : a[i] = s[i] /\ i \in 1 .. Len(s)
  <2>1. /\ a \in Seq(Entries) /\ Len(a) = m - 1 + 1
        /\ \A i \in 1 .. m - 1 + 1 : a[i] = s[1 + i - 1]
    BY <1>1, <1>2, PartIs
  <2>2. m - 1 + 1 = m /\ \A i \in 1 .. m : 1 + i - 1 = i /\ i \in 1 .. Len(s)
    BY <1>2
  <2> HIDE DEF a
  <2> QED BY <2>1, <2>2
<1>5. /\ b \in Seq(Entries) /\ Len(b) = Len(s) - m
      /\ \A i \in 1 .. Len(s) - m : b[i] = s[m + i] /\ m + i \in m + 1 .. Len(s)
  <2>1. /\ b \in Seq(Entries) /\ Len(b) = Len(s) - (m + 1) + 1
        /\ \A i \in 1 .. Len(s) - (m + 1) + 1 : b[i] = s[m + 1 + i - 1]
    BY <1>1, <1>2, PartIs
  <2>2. Len(s) - (m + 1) + 1 = Len(s) - m
        /\ \A i \in 1 .. Len(s) - m : m + 1 + i - 1 = m + i /\ m + i \in m + 1 .. Len(s)
    BY <1>2
  <2> HIDE DEF b
  <2> QED BY <2>1, <2>2
<1>6. m \in 1 .. Len(s) /\ m + 1 \in 1 .. Len(s) /\ 1 \in 1 .. Len(s) /\ m \in Nat
  BY <1>2
<1>7. k \in Ids /\ k \in Int /\ l < k /\ k < h
  <2>1. l <= s[m].id /\ s[m + 1].id < h
    BY <1>1, <1>6 DEF RowIs
  <2>2. s[m].id < s[m + 1].id
    BY <1>1, <1>6 DEF Ordered2
  <2> QED BY <1>3, <1>6, <2>1, <2>2
<1>8. /\ \A i \in 1 .. m : s[i].id < k
      /\ \A i \in m + 1 .. Len(s) : k <= s[i].id
  <2>1. ASSUME NEW i \in 1 .. m PROVE s[i].id < k
    <3>1. i \in 1 .. Len(s) /\ i < m + 1
      BY <1>2
    <3> QED BY <1>1, <1>6, <3>1 DEF Ordered2
  <2>2. ASSUME NEW i \in m + 1 .. Len(s) PROVE k <= s[i].id
    <3>1. i \in 1 .. Len(s) /\ (i = m + 1 \/ m + 1 < i)
      BY <1>2
    <3>2. i = m + 1 \/ s[m + 1].id < s[i].id
      BY <1>1, <1>6, <3>1 DEF Ordered2
    <3>3. s[i].id \in Int
      BY <1>3, <3>1
    <3> QED BY <1>7, <3>2, <3>3
  <2> QED BY <2>1, <2>2
<1> HIDE DEF a, b, k
<1>9. Holds(P, a, l, k, R)
  <2>1. Ordered2(a)
    BY <1>1, <1>4 DEF Ordered2
  <2>2. \A i \in 1 .. Len(a) : RowIs(P, a[i], l, k, R)
    <3> TAKE i \in 1 .. Len(a)
    <3>1. a[i] = s[i] /\ i \in 1 .. Len(s) /\ s[i].id < k
      BY <1>4, <1>8
    <3>2. RowIs(P, s[i], l, h, R)
      BY <1>1, <3>1
    <3> QED BY <3>1, <3>2 DEF RowIs
  <2>3. ASSUME NEW x \in Ids, l <= x, x < k, R[x] # 0 PROVE \E i \in 1 .. Len(a) : a[i].id = x
    <3>1. x \in Int
      BY SpaceIs DEF Ids
    <3>2. x < h
      BY <1>7, <2>3, <3>1
    <3>3. PICK i \in 1 .. Len(s) : s[i].id = x
      BY <1>1, <2>3, <3>2
    <3>4. i \in 1 .. m \/ i \in m + 1 .. Len(s)
      BY <1>2
    <3>5. i \in 1 .. m
      BY <1>7, <1>8, <2>3, <3>1, <3>3, <3>4
    <3> QED BY <1>4, <3>3, <3>5
  <2> QED BY <1>4, <2>1, <2>2, <2>3 DEF Holds
<1>10. Holds(P, b, k, h, R)
  <2>1. Ordered2(b)
    <3>1. SUFFICES ASSUME NEW i \in 1 .. Len(b), NEW j \in 1 .. Len(b), i < j PROVE b[i].id < b[j].id
      BY DEF Ordered2
    <3>2. /\ b[i] = s[m + i] /\ b[j] = s[m + j] /\ m + i \in 1 .. Len(s) /\ m + j \in 1 .. Len(s)
          /\ m + i < m + j
      BY <1>2, <1>5, <1>6, <3>1
    <3> QED BY <1>1, <3>2 DEF Ordered2
  <2>2. \A i \in 1 .. Len(b) : RowIs(P, b[i], k, h, R)
    <3> TAKE i \in 1 .. Len(b)
    <3>1. b[i] = s[m + i] /\ m + i \in m + 1 .. Len(s) /\ m + i \in 1 .. Len(s)
      BY <1>2, <1>5, <1>6
    <3>2. k <= s[m + i].id /\ RowIs(P, s[m + i], l, h, R)
      BY <1>1, <1>8, <3>1
    <3> QED BY <3>1, <3>2 DEF RowIs
  <2>3. ASSUME NEW x \in Ids, k <= x, x < h, R[x] # 0 PROVE \E i \in 1 .. Len(b) : b[i].id = x
    <3>1. x \in Int
      BY SpaceIs DEF Ids
    <3>2. l <= x
      BY <1>7, <2>3, <3>1
    <3>3. PICK i \in 1 .. Len(s) : s[i].id = x
      BY <1>1, <2>3, <3>2
    <3>4. i \in 1 .. m \/ i \in m + 1 .. Len(s)
      BY <1>2
    <3>5. i \in m + 1 .. Len(s)
      BY <1>7, <1>8, <2>3, <3>1, <3>3, <3>4
    <3>6. i - m \in 1 .. Len(s) - m /\ m + (i - m) = i
      BY <1>2, <1>6, <3>5
    <3>7. b[i - m] = s[i]
      BY <1>5, <3>6
    <3> QED BY <1>5, <3>3, <3>6, <3>7
  <2> QED BY <1>5, <2>1, <2>2, <2>3 DEF Holds
<1> QED BY <1>7, <1>9, <1>10 DEF a, b, k

\* The rows of S leave a leaf.
LEMMA HoldsWithout ==
    ASSUME NEW P, NEW s, NEW l, NEW h, NEW R, Holds(P, s, l, h, R), NEW S,
           NEW R2, \A x \in Ids : R2[x] = IF x \in S THEN 0 ELSE R[x]
    PROVE  Holds(P, Without(s, S), l, h, R2)
<1> DEFINE I == {i \in 1 .. Len(s) : s[i].id \notin S}
           d == Picked(s, I)
<1>1. /\ s \in Seq(Entries) /\ Ordered2(s)
      /\ \A i \in 1 .. Len(s) : RowIs(P, s[i], l, h, R)
      /\ \A x \in Ids : l <= x /\ x < h /\ R[x] # 0 => \E i \in 1 .. Len(s) : s[i].id = x
  BY DEF Holds
<1>2. Len(s) \in Nat /\ DOMAIN s = 1 .. Len(s) /\ \A i \in 1 .. Len(s) : s[i] \in Entries
  BY <1>1, SeqIsFunction
<1>3. \A i \in 1 .. Len(s) : s[i].id \in Ids
  <2>1. \A v \in Entries : v.id \in Ids
    BY DEF Entries
  <2> QED BY <1>2, <2>1
<1>4. Without(s, S) = d
  BY <1>2 DEF Without
<1>5. d \in Seq(Entries) /\ \E at : PicksAt(d, s, I, at)
  <2> HIDE DEF I
  <2> QED BY <1>1, PickedIs
<1>6. PICK at : PicksAt(d, s, I, at)
  BY <1>5
<1> HIDE DEF d
<1>7. /\ \A k \in 1 .. Len(d) : at[k] \in 1 .. Len(s) /\ s[at[k]].id \notin S /\ d[k] = s[at[k]]
      /\ \A j, k \in 1 .. Len(d) : j < k => at[j] < at[k]
      /\ \A i \in 1 .. Len(s) : i \in I => \E k \in 1 .. Len(d) : at[k] = i
  <2>1. \A k \in 1 .. Len(d) : at[k] \in I /\ d[k] = s[at[k]]
    BY <1>6 DEF PicksAt
  <2>2. /\ \A j, k \in 1 .. Len(d) : j < k => at[j] < at[k]
        /\ \A i \in 1 .. Len(s) : i \in I => \E k \in 1 .. Len(d) : at[k] = i
    <3> HIDE DEF I
    <3> QED BY <1>6 DEF PicksAt
  <2> QED BY <2>1, <2>2
<1>8. Ordered2(d)
  <2>1. SUFFICES ASSUME NEW i \in 1 .. Len(d), NEW j \in 1 .. Len(d), i < j PROVE d[i].id < d[j].id
    BY DEF Ordered2
  <2>2. at[i] \in 1 .. Len(s) /\ at[j] \in 1 .. Len(s) /\ at[i] < at[j] /\ d[i] = s[at[i]] /\ d[j] = s[at[j]]
    BY <1>7, <2>1
  <2> QED BY <1>1, <2>2 DEF Ordered2
<1>9. \A k \in 1 .. Len(d) : RowIs(P, d[k], l, h, R2)
  <2> TAKE k \in 1 .. Len(d)
  <2>1. d[k] = s[at[k]] /\ at[k] \in 1 .. Len(s) /\ s[at[k]].id \notin S
    BY <1>7
  <2>2. RowIs(P, s[at[k]], l, h, R) /\ s[at[k]].id \in Ids
    BY <1>1, <1>3, <2>1
  <2> QED BY <2>1, <2>2 DEF RowIs
<1>10. ASSUME NEW x \in Ids, l <= x, x < h, R2[x] # 0 PROVE \E k \in 1 .. Len(d) : d[k].id = x
  <2>1. x \notin S /\ R[x] # 0
    BY <1>10
  <2>2. PICK i \in 1 .. Len(s) : s[i].id = x
    BY <1>1, <1>10, <2>1
  <2>3. i \in I
    BY <2>1, <2>2
  <2>4. PICK k \in 1 .. Len(d) : at[k] = i
    BY <1>7, <2>3
  <2> QED BY <1>7, <2>2, <2>4
<1>11. Holds(P, d, l, h, R2)
  BY <1>5, <1>8, <1>9, <1>10 DEF Holds
<1> QED BY <1>4, <1>11

\* What the rows of a leaf weigh together, and the least of them.
WeightStep(s, f, n) == IF n = 0 THEN 0 ELSE f[n - 1] + s[n].w
IsWeigher(s, f, m) == f = [n \in 0 .. m |-> WeightStep(s, f, n)]

LEMMA Weigher ==
    ASSUME NEW s, Len(s) \in Nat
    PROVE  \E f : IsWeigher(s, f, Len(s)) /\ Weight(s) = f[Len(s)]
<1> DEFINE Known == {m \in 0 .. Len(s) : \E f : IsWeigher(s, f, m)}
<1>1. 0 \in Known
  <2> DEFINE f == [n \in 0 .. 0 |-> 0]
  <2>1. \A n \in 0 .. 0 : f[n] = WeightStep(s, f, n)
    BY DEF WeightStep
  <2>2. f = [n \in 0 .. 0 |-> f[n]]
    OBVIOUS
  <2> HIDE DEF f
  <2>3. IsWeigher(s, f, 0)
    BY <2>1, <2>2 DEF IsWeigher
  <2> QED BY <2>3
<1>2. ASSUME NEW m \in 0 .. Len(s) - 1, m \in Known PROVE m + 1 \in Known
  <2>1. PICK f : IsWeigher(s, f, m)
    BY <1>2
  <2> DEFINE g == [n \in 0 .. m + 1 |-> IF n = m + 1 THEN WeightStep(s, f, n) ELSE f[n]]
  <2>2. g = [n \in 0 .. m + 1 |-> g[n]] /\ \A n \in 0 .. m + 1 : g[n] = WeightStep(s, f, n)
    BY <2>1 DEF IsWeigher
  <2>3. \A n \in 0 .. m : g[n] = f[n]
    OBVIOUS
  <2> HIDE DEF g
  <2>4. \A n \in 0 .. m + 1 : WeightStep(s, g, n) = WeightStep(s, f, n)
    <3> TAKE n \in 0 .. m + 1
    <3>1. n # 0 => n - 1 \in 0 .. m
      OBVIOUS
    <3> QED BY <2>3, <3>1 DEF WeightStep
  <2>5. IsWeigher(s, g, m + 1)
    BY <2>2, <2>4 DEF IsWeigher
  <2>6. m + 1 \in 0 .. Len(s)
    OBVIOUS
  <2> QED BY <2>5, <2>6
<1> HIDE DEF Known
<1>3. Len(s) \in Known
  <2>1. 0 \in Nat
    OBVIOUS
  <2>2. \A n \in 0 .. Len(s) : n \in Known
    BY <1>1, <1>2, <2>1, Upwards
  <2> QED BY <2>2
<1>4. \E f : IsWeigher(s, f, Len(s))
  BY <1>3 DEF Known
<1> DEFINE w == CHOOSE f : IsWeigher(s, f, Len(s))
<1>5. IsWeigher(s, w, Len(s))
  BY <1>4
<1>6. Weight(s) = w[Len(s)]
  BY DEF Weight, IsWeigher, WeightStep
<1> QED BY <1>5, <1>6

LEMMA WeightIs ==
    ASSUME NEW s, Len(s) \in Nat, \A i \in 1 .. Len(s) : s[i].w \in Nat
    PROVE  Weight(s) \in Nat /\ \A i \in 1 .. Len(s) : s[i].w <= Weight(s)
<1>1. PICK f : IsWeigher(s, f, Len(s)) /\ Weight(s) = f[Len(s)]
  BY Weigher
<1>2. \A n \in 0 .. Len(s) : f[n] = WeightStep(s, f, n)
  BY <1>1 DEF IsWeigher
<1> DEFINE Good == {n \in 0 .. Len(s) : f[n] \in Nat /\ \A i \in 1 .. n : s[i].w <= f[n]}
<1>3. 0 \in Good
  BY <1>2 DEF WeightStep
<1>4. ASSUME NEW n \in 0 .. Len(s) - 1, n \in Good PROVE n + 1 \in Good
  <2>1. f[n + 1] = f[n] + s[n + 1].w /\ s[n + 1].w \in Nat /\ f[n] \in Nat /\ n + 1 \in 0 .. Len(s)
    <3>1. n + 1 \in 0 .. Len(s) /\ n + 1 \in 1 .. Len(s) /\ n + 1 # 0 /\ n + 1 - 1 = n
      OBVIOUS
    <3> QED BY <1>2, <1>4, <3>1 DEF WeightStep
  <2>2. ASSUME NEW i \in 1 .. n + 1 PROVE s[i].w <= f[n + 1]
    <3>1. CASE i = n + 1
      BY <2>1, <3>1
    <3>2. CASE i \in 1 .. n
      <4>1. s[i].w <= f[n] /\ s[i].w \in Nat
        BY <1>4, <3>2
      <4> QED BY <2>1, <4>1
    <3> QED BY <3>1, <3>2
  <2> QED BY <2>1, <2>2
<1> HIDE DEF Good
<1>5. Len(s) \in Good
  <2>1. 0 \in Nat
    OBVIOUS
  <2>2. \A n \in 0 .. Len(s) : n \in Good
    BY <1>3, <1>4, <2>1, Upwards
  <2> QED BY <2>2
<1> QED BY <1>1, <1>5 DEF Good

\* The rows of S are patched in place, all of them at once.
LEMMA HoldsReplaced ==
    ASSUME NEW P, NEW s, NEW l, NEW h, NEW R, Holds(P, s, l, h, R), NEW S, NEW size \in Nat \ {0},
           Fits(Replaced(s, S, size)),
           NEW R2, \A x \in Ids : l <= x /\ x < h => R2[x] = IF x \in S THEN size ELSE R[x],
           \A x \in Ids : x \in S => R[x] # 0
    PROVE  Holds(P, Replaced(s, S, size), l, h, R2)
<1> DEFINE d == Replaced(s, S, size)
<1>1. /\ s \in Seq(Entries) /\ Ordered2(s)
      /\ \A i \in 1 .. Len(s) : RowIs(P, s[i], l, h, R)
      /\ \A x \in Ids : l <= x /\ x < h /\ R[x] # 0 => \E i \in 1 .. Len(s) : s[i].id = x
  BY DEF Holds
<1>2. Len(s) \in Nat /\ DOMAIN s = 1 .. Len(s) /\ \A i \in 1 .. Len(s) : s[i] \in Entries
  BY <1>1, SeqIsFunction
<1>3. \A i \in 1 .. Len(s) : s[i].id \in Ids /\ s[i].w \in Nat
  <2>1. \A v \in Entries : v.id \in Ids /\ v.w \in Nat
    BY SpaceIs DEF Entries
  <2> QED BY <1>2, <2>1
<1> DEFINE new(i) == [id |-> s[i].id, w |-> size, first |-> 0]
<1>4. /\ d = [i \in 1 .. Len(s) |-> IF s[i].id \in S THEN new(i) ELSE s[i]]
  BY <1>2 DEF Replaced
<1>5. \A i \in 1 .. Len(s) : d[i] = IF s[i].id \in S THEN new(i) ELSE s[i]
  BY <1>4
<1>6. Len(d) = Len(s) /\ DOMAIN d = 1 .. Len(s)
  BY <1>2, <1>4
<1>7. \A i \in 1 .. Len(s) : d[i].id = s[i].id /\ d[i].w \in Nat /\ (s[i].id \in S => d[i].w = size)
  <2> TAKE i \in 1 .. Len(s)
  <2>1. new(i).id = s[i].id /\ new(i).w = size
    OBVIOUS
  <2>2. d[i] = IF s[i].id \in S THEN new(i) ELSE s[i]
    BY <1>5
  <2>3. s[i].w \in Nat
    BY <1>3
  <2> HIDE DEF d, new
  <2> QED BY <2>1, <2>2, <2>3
<1>8. \A i \in 1 .. Len(s) : d[i].w <= Cap
  <2>1. Weight(d) \in Nat /\ \A i \in 1 .. Len(d) : d[i].w <= Weight(d)
    <3> HIDE DEF d
    <3> QED BY <1>2, <1>6, <1>7, WeightIs
  <2>2. Weight(d) <= Cap
    BY DEF Fits
  <2> HIDE DEF d
  <2>3. Cap \in Nat
    BY SpaceIs
  <2> QED BY <1>6, <1>7, <2>1, <2>2, <2>3
<1>9. \A i \in 1 .. Len(s) : d[i] \in Entries
  <2> TAKE i \in 1 .. Len(s)
  <2>1. CASE s[i].id \in S
    <3>1. size \in 1 .. Cap
      <4>1. d[i].w = size
        BY <1>7, <2>1
      <4>2. d[i].w <= Cap
        BY <1>8
      <4> QED BY <4>1, <4>2, SpaceIs
    <3>2. new(i) \in Entries
      BY <1>3, <3>1, SpaceIs DEF Entries
    <3> QED BY <1>5, <2>1, <3>2
  <2>2. CASE s[i].id \notin S
    BY <1>2, <1>5, <2>2
  <2> QED BY <2>1, <2>2
<1>10. d \in Seq(Entries)
  <2>1. d \in [1 .. Len(s) -> Entries]
    BY <1>4, <1>9
  <2> HIDE DEF d
  <2> QED BY <1>2, <2>1, FunctionIsSeq
<1> HIDE DEF d
<1>11. Ordered2(d)
  BY <1>1, <1>6, <1>7 DEF Ordered2
<1>12. \A i \in 1 .. Len(d) : RowIs(P, d[i], l, h, R2)
  <2> TAKE i \in 1 .. Len(d)
  <2>1. i \in 1 .. Len(s) /\ RowIs(P, s[i], l, h, R) /\ s[i].id \in Ids
    BY <1>1, <1>3, <1>6
  <2>2. l <= s[i].id /\ s[i].id < h /\ R[s[i].id] # 0
    BY <2>1 DEF RowIs
  <2>3. CASE s[i].id \in S
    <3>1. d[i] = new(i) /\ R2[s[i].id] = size
      BY <1>5, <2>1, <2>2, <2>3
    <3>2. Reassemble(P, new(i)) = size
      BY ReassembleIs
    <3>3. RowIs(P, new(i), l, h, R2)
      BY <2>2, <3>1, <3>2 DEF RowIs
    <3> QED BY <3>1, <3>3
  <2>4. CASE s[i].id \notin S
    <3>1. d[i] = s[i] /\ R2[s[i].id] = R[s[i].id]
      BY <1>5, <2>1, <2>2, <2>4
    <3> QED BY <2>1, <3>1 DEF RowIs
  <2> QED BY <2>3, <2>4
<1>13. ASSUME NEW x \in Ids, l <= x, x < h, R2[x] # 0 PROVE \E i \in 1 .. Len(d) : d[i].id = x
  <2>1. R[x] # 0
    BY <1>13
  <2>2. PICK i \in 1 .. Len(s) : s[i].id = x
    BY <1>1, <1>13, <2>1
  <2> QED BY <1>6, <1>7, <2>2
<1>14. Holds(P, d, l, h, R2)
  BY <1>10, <1>11, <1>12, <1>13 DEF Holds
<1> QED BY <1>14 DEF d

-----------------------------------------------------------------------------
(* The tree over those leaves. *)

\* Every leaf holds the rows of its range, and every row is R's.
Contents(P, g, R) ==
    /\ ChainsDown(P)
    /\ \A p \in PageNo : P[p].kind = "leaf" =>
          /\ P[p] = LeafPage(P[p].rows, P[p].prev, P[p].next)
          /\ Holds(P, P[p].rows, g.lo[p], g.hi[p], R)
Stored(t, g, R) == Whole(Space, t, g) /\ Contents(t.pages, g, R)

\* What the invariants of a tree say of one page.
LEMMA WholeIs ==
    ASSUME NEW t, NEW g, Whole(Space, t, g)
    PROVE  /\ PageNo = 1 .. MaxPages /\ DOMAIN t.pages = PageNo /\ t.free \in 2 .. MaxPages + 1 /\ t.free \in Nat
           /\ t = [pages |-> t.pages, free |-> t.free, root |-> t.root]
           /\ t.root \in PageNo /\ InTree(t.pages) \subseteq PageNo
           /\ \A p \in PageNo : g.lo[p] \in Nat /\ g.hi[p] \in Nat /\ g.lv[p] \in Nat
           /\ \A p \in PageNo : p \in InTree(t.pages) <=> t.pages[p].kind \in {"leaf", "branch"}
           /\ \A p \in PageNo : /\ t.pages[p] = Unused <=> p >= t.free
                                /\ t.pages[p].kind = "unused" <=> p >= t.free
           /\ \A p \in InTree(t.pages) : /\ g.lo[p] < g.hi[p] /\ g.hi[p] <= MaxId + 2
                                         /\ g.lv[p] = 0 <=> t.pages[p].kind = "leaf"
           /\ \A p, q \in InTree(t.pages) :
                 p # q /\ g.lv[p] = g.lv[q] => g.hi[p] <= g.lo[q] \/ g.hi[q] <= g.lo[p]
           /\ \A p \in PageNo : t.pages[p].kind = "branch" =>
                 Node(Space, InTree(t.pages), t.pages[p], g.lo[p], g.hi[p], g.lv[p], g.lo, g.hi, g.lv)
<1>1. IsSpace(Space) /\ Space.n = MaxPages /\ Space.top = MaxId + 2 /\ MaxPages \in Nat
  BY SpaceIs
<1>2. Frame(Space, t, g) /\ Nodes(Space, t, g, g.hi)
  BY DEF Whole, Standing
<1>3. PageNo = 1 .. MaxPages
  BY DEF PageNo
<1>4. /\ DOMAIN t.pages = 1 .. MaxPages /\ t.free \in 2 .. MaxPages + 1
      /\ InTree(t.pages) \subseteq 1 .. MaxPages
      /\ \A p \in 1 .. MaxPages : g.lo[p] \in Nat /\ g.hi[p] \in Nat /\ g.lv[p] \in Nat
      /\ \A p \in 1 .. MaxPages : p \in InTree(t.pages) <=> t.pages[p].kind \in {"leaf", "branch"}
  BY <1>1, <1>2, FrameIs
<1>5. /\ t = [pages |-> t.pages, free |-> t.free, root |-> t.root]
      /\ t.root \in InTree(t.pages)
      /\ \A p \in 1 .. MaxPages : /\ t.pages[p] = Unused <=> p >= t.free
                                  /\ t.pages[p].kind = "unused" <=> p >= t.free
  BY <1>1, <1>2 DEF Frame
<1>6. /\ \A p \in InTree(t.pages) : /\ g.lo[p] < g.hi[p] /\ g.hi[p] <= MaxId + 2
                                    /\ g.lv[p] = 0 <=> t.pages[p].kind = "leaf"
      /\ \A p, q \in InTree(t.pages) :
            p # q /\ g.lv[p] = g.lv[q] => g.hi[p] <= g.lo[q] \/ g.hi[q] <= g.lo[p]
  BY <1>1, <1>2 DEF Frame
<1>7. \A p \in 1 .. MaxPages : t.pages[p].kind = "branch" =>
          Node(Space, InTree(t.pages), t.pages[p], g.lo[p], g.hi[p], g.lv[p], g.lo, g.hi, g.lv)
  BY <1>1, <1>2 DEF Nodes
<1>8. t.free \in Nat /\ t.root \in 1 .. MaxPages
  BY <1>1, <1>4, <1>5
<1> QED BY <1>3, <1>4, <1>5, <1>6, <1>7, <1>8

\* The child find_child takes.
LEMMA ChildIndexIs ==
    ASSUME NEW t, NEW g, Whole(Space, t, g), NEW p \in PageNo, t.pages[p].kind = "branch", NEW z \in Nat
    PROVE  /\ ChildAt(t.pages, p, ChildIndex(t.pages[p], z), t.pages[p].kids[ChildIndex(t.pages[p], z)])
           /\ t.pages[p].kids[ChildIndex(t.pages[p], z)] \in InTree(t.pages)
           /\ g.lv[t.pages[p].kids[ChildIndex(t.pages[p], z)]] + 1 = g.lv[p]
           /\ Reaches(g, p, z) => Reaches(g, t.pages[p].kids[ChildIndex(t.pages[p], z)], z)
<1> DEFINE b == t.pages[p]
           above == {j \in 1 .. Len(b.keys) : z < Space.rank[b.keys[j]]}
           i == ChildIndex(b, z)
<1>1. /\ b.kids \in Seq(InTree(t.pages)) /\ b.keys \in Seq(Ids) /\ Len(b.kids) = Len(b.keys) + 1
      /\ \A j \in 1 .. Len(b.kids) : g.lv[b.kids[j]] + 1 = g.lv[p]
      /\ Node(Space, InTree(t.pages), b, g.lo[p], g.hi[p], g.lv[p], g.lo, g.hi, g.lv)
  <2>1. Node(Space, InTree(t.pages), b, g.lo[p], g.hi[p], g.lv[p], g.lo, g.hi, g.lv)
    BY WholeIs
  <2>2. Space.keys = Ids
    BY SpaceIs
  <2> HIDE DEF b
  <2>3. /\ b.kids \in Seq(InTree(t.pages)) /\ b.keys \in Seq(Ids) /\ Len(b.kids) = Len(b.keys) + 1
        /\ \A j \in 1 .. Len(b.kids) : g.lv[b.kids[j]] + 1 = g.lv[p]
    BY <2>1, <2>2 DEF Node
  <2> QED BY <2>1, <2>3
<1>2. /\ Len(b.keys) \in Nat /\ DOMAIN b.keys = 1 .. Len(b.keys)
      /\ \A j \in 1 .. Len(b.keys) : b.keys[j] \in Ids
      /\ \A j \in 1 .. Len(b.kids) : b.kids[j] \in InTree(t.pages)
  BY <1>1, SeqIsFunction
<1>3. {j \in DOMAIN b.keys : z < b.keys[j]} = above
  <2>1. \A j \in 1 .. Len(b.keys) : Space.rank[b.keys[j]] = b.keys[j]
    BY <1>2, SpaceIs
  <2> HIDE DEF b
  <2> QED BY <1>2, <2>1
<1>4. i = FirstOf(Len(b.keys), above)
  BY <1>3 DEF ChildIndex
<1>5. i \in 1 .. Len(b.kids)
  <2>1. above \subseteq 1 .. Len(b.keys)
    OBVIOUS
  <2> HIDE DEF above, i, b
  <2>2. i \in 1 .. Len(b.keys) + 1
    BY <1>2, <1>4, <2>1, FirstOfIs
  <2> QED BY <1>1, <2>2
<1>6. ASSUME Reaches(g, p, z) PROVE Reaches(g, b.kids[i], z)
  <2>1. Within(g.lo[p], z, g.hi[p])
    BY <1>6, WholeIs DEF Reaches, Within
  <2>2. Ranges(InTree(t.pages), g.lo, g.hi)
    BY WholeIs DEF Ranges
  <2>3. Routes(Space, b, z, i)
    BY <1>4 DEF Routes
  <2> HIDE DEF i, b
  <2>4. Within(g.lo[b.kids[i]], z, g.hi[b.kids[i]])
    BY <1>1, <2>1, <2>2, <2>3, SpaceIs, NodeRoutes
  <2> QED BY <2>4 DEF Reaches, Within
<1>7. ChildAt(t.pages, p, i, b.kids[i])
  BY <1>5 DEF ChildAt
<1> QED BY <1>1, <1>2, <1>5, <1>6, <1>7

\* The path to a row id ends at the leaf whose range it is in.
LeafAt(t, g, p, z) == p \in PageNo /\ p \in InTree(t.pages) /\ t.pages[p].kind = "leaf" /\ Reaches(g, p, z)
Slots(t, path, x) == [i \in DOMAIN path |-> ChildIndex(t.pages[path[i]], x)]

LEMMA DescentEnds ==
    ASSUME NEW t, NEW g, Whole(Space, t, g), NEW s, NEW z, Descent(t, g, s, z)
    PROVE  /\ s \in Seq(PageNo) /\ Len(s) \in Nat \ {0} /\ LeafAt(t, g, s[Len(s)], z)
           /\ \A i, j \in 1 .. Len(s) : s[i] = s[j] => i = j
<1>1. /\ s \in Seq(InTree(t.pages)) /\ Len(s) = g.lv[t.root] + 1 /\ s[1] = t.root
      /\ \A i \in 1 .. Len(s) : Reaches(g, s[i], z) /\ g.lv[s[i]] = Len(s) - i
  BY DEF Descent
<1>2. Len(s) \in Nat \ {0} /\ \A i \in 1 .. Len(s) : s[i] \in InTree(t.pages)
  <2>1. g.lv[t.root] \in Nat
    BY WholeIs
  <2> QED BY <1>1, <2>1, SeqIsFunction
<1>3. s \in Seq(PageNo)
  <2>1. s \in [1 .. Len(s) -> PageNo]
    BY <1>1, <1>2, WholeIs, SeqIsFunction
  <2> QED BY <1>2, <2>1, FunctionIsSeq
<1>4. s[Len(s)] \in InTree(t.pages) /\ g.lv[s[Len(s)]] = 0 /\ Reaches(g, s[Len(s)], z)
  <2>1. Len(s) \in 1 .. Len(s)
    BY <1>2
  <2>2. Len(s) - Len(s) = 0
    BY <1>2
  <2> QED BY <1>1, <1>2, <2>1, <2>2
<1>5. LeafAt(t, g, s[Len(s)], z)
  BY <1>4, WholeIs DEF LeafAt
<1>6. ASSUME NEW i \in 1 .. Len(s), NEW j \in 1 .. Len(s), s[i] = s[j] PROVE i = j
  <2>1. Len(s) - i = Len(s) - j
    BY <1>1, <1>6
  <2> QED BY <1>2, <2>1
<1> QED BY <1>2, <1>3, <1>5, <1>6

LEMMA PathIs ==
    ASSUME NEW t, NEW g, Whole(Space, t, g), NEW z \in Nat, z < MaxId + 2
    PROVE  /\ Descent(t, g, PathTo(t.pages, t.root, z), z)
           /\ Route(Space, t, PathTo(t.pages, t.root, z), Slots(t, PathTo(t.pages, t.root, z), z))
           /\ LeafAt(t, g, LeafFor(t.pages, t.root, z), z)
<1> DEFINE P == t.pages
           link == [p \in PageNo |-> IF P[p].kind = "branch" THEN P[p].kids[ChildIndex(P[p], z)] ELSE 0]
           s == PathTo(P, t.root, z)
<1>1. /\ PageNo = 1 .. MaxPages /\ InTree(P) \subseteq PageNo /\ t.root \in PageNo
      /\ IsSpace(Space) /\ Space.n = MaxPages /\ Space.top = MaxId + 2
  BY WholeIs, SpaceIs
<1>2. \A p \in PageNo : P[p].kind = "branch" =>
          /\ link[p] \in InTree(P) /\ g.lv[link[p]] + 1 = g.lv[p]
          /\ Reaches(g, p, z) => Reaches(g, link[p], z)
          /\ ChildAt(P, p, ChildIndex(P[p], z), link[p])
  BY ChildIndexIs
<1>3. \A p \in PageNo : P[p].kind # "branch" => link[p] = 0
  OBVIOUS
<1>4. s = Follow(link, t.root, MaxPages)
  BY DEF PathTo
<1>5. link \in [PageNo -> 0 .. MaxPages]
  <2>1. \A p \in PageNo : link[p] \in 0 .. MaxPages
    <3> TAKE p \in PageNo
    <3>1. CASE P[p].kind = "branch"
      <4>1. link[p] \in PageNo
        BY <1>1, <1>2, <3>1
      <4> HIDE DEF link
      <4> QED BY <1>1, <4>1
    <3>2. CASE P[p].kind # "branch"
      <4>1. 0 \in 0 .. MaxPages
        BY SpaceIs
      <4> QED BY <3>2, <4>1
    <3> QED BY <3>1, <3>2
  <2>2. link = [p \in PageNo |-> link[p]]
    OBVIOUS
  <2> HIDE DEF link
  <2> QED BY <2>1, <2>2
<1> HIDE DEF link, s
<1>6. /\ Descent(t, g, s, z)
      /\ \A i \in 1 .. Len(s) - 1 : s[i + 1] = link[s[i]]
  <2>1. LeadsDown(Space, t, g, z, link)
    BY <1>1, <1>2, <1>3, <1>5 DEF LeadsDown
  <2>2. Descent(t, g, Follow(link, t.root, MaxPages), z) /\ Steps(Follow(link, t.root, MaxPages), link)
    BY <1>1, <2>1, Descends
  <2> QED BY <1>4, <2>2 DEF Steps
<1>7. /\ s \in Seq(PageNo) /\ Len(s) \in Nat \ {0} /\ LeafAt(t, g, s[Len(s)], z)
      /\ \A i, j \in 1 .. Len(s) : s[i] = s[j] => i = j
  BY <1>6, DescentEnds
<1>8. s[1] = t.root /\ \A i \in 1 .. Len(s) : g.lv[s[i]] = Len(s) - i /\ s[i] \in InTree(P)
  <2>1. s \in Seq(InTree(P)) /\ s[1] = t.root /\ \A i \in 1 .. Len(s) : g.lv[s[i]] = Len(s) - i
    BY <1>6 DEF Descent
  <2> QED BY <2>1, SeqIsFunction
<1>9. ASSUME NEW i \in 1 .. Len(s) - 1 PROVE ChildAt(P, s[i], Slots(t, s, z)[i], s[i + 1])
  <2>1. i \in 1 .. Len(s) /\ i # Len(s) /\ Len(s) - i # 0
    BY <1>7
  <2>2. s[i] \in PageNo /\ P[s[i]].kind = "branch"
    <3>1. s[i] \in InTree(P) /\ g.lv[s[i]] # 0
      BY <1>8, <2>1
    <3> QED BY <3>1, WholeIs
  <2>3. ChildAt(P, s[i], ChildIndex(P[s[i]], z), link[s[i]])
    BY <1>2, <2>2
  <2>4. Slots(t, s, z)[i] = ChildIndex(P[s[i]], z)
    <3>1. DOMAIN s = 1 .. Len(s)
      BY <1>7, SeqIsFunction
    <3> QED BY <2>1, <3>1 DEF Slots
  <2> QED BY <1>6, <2>3, <2>4
<1>10. Route(Space, t, s, Slots(t, s, z))
  BY <1>1, <1>7, <1>8, <1>9 DEF Route
<1>11. LeafFor(P, t.root, z) = s[Len(s)]
  BY DEF LeafFor, Last, s
<1> QED BY <1>6, <1>7, <1>10, <1>11 DEF s

\* search gives the size of the row, or 0.
LEMMA SearchIs ==
    ASSUME NEW t, NEW g, NEW R, Stored(t, g, R), NEW x \in Ids
    PROVE  Search(t.pages, t.root, x) = R[x]
<1> DEFINE P == t.pages
           p == LeafFor(P, t.root, x)
           s == P[p].rows
           hits == {i \in DOMAIN s : s[i].id = x}
<1>1. Whole(Space, t, g) /\ Contents(P, g, R)
  BY DEF Stored
<1>2. x \in Nat /\ x < MaxId + 2
  BY SpaceIs DEF Ids
<1>3. LeafAt(t, g, p, x)
  BY <1>1, <1>2, PathIs
<1>4. Holds(P, s, g.lo[p], g.hi[p], R) /\ g.lo[p] <= x /\ x < g.hi[p]
  BY <1>1, <1>3 DEF Contents, LeafAt, Reaches
<1>5. /\ \A i \in 1 .. Len(s) : RowIs(P, s[i], g.lo[p], g.hi[p], R)
      /\ R[x] # 0 => \E i \in 1 .. Len(s) : s[i].id = x
      /\ DOMAIN s = 1 .. Len(s)
  <2> HIDE DEF s, p
  <2>1. s \in Seq(Entries)
    BY <1>4 DEF Holds
  <2> QED BY <1>4, <2>1, SeqIsFunction DEF Holds
<1>6. CASE hits = {}
  <2>1. R[x] = 0
    BY <1>5, <1>6
  <2> QED BY <1>6, <2>1 DEF Search
<1>7. CASE hits # {}
  <2> DEFINE i == CHOOSE i \in hits : TRUE
  <2>1. i \in hits
    BY <1>7
  <2> HIDE DEF i
  <2>2. s[i].id = x /\ i \in 1 .. Len(s)
    BY <1>5, <2>1
  <2>3. Reassemble(P, s[i]) = R[x]
    BY <1>5, <2>2 DEF RowIs
  <2> QED BY <1>7, <2>3 DEF Search, i
<1> QED BY <1>6, <1>7

\* Two leaves never hold the same place.
LEMMA OneLeaf ==
    ASSUME NEW t, NEW g, Whole(Space, t, g), NEW p, NEW q, NEW z, z \in Int,
           LeafAt(t, g, p, z), LeafAt(t, g, q, z)
    PROVE  p = q
<1>1. /\ p \in PageNo /\ q \in PageNo /\ p \in InTree(t.pages) /\ q \in InTree(t.pages)
      /\ t.pages[p].kind = "leaf" /\ t.pages[q].kind = "leaf"
      /\ g.lo[p] <= z /\ z < g.hi[p] /\ g.lo[q] <= z /\ z < g.hi[q]
  BY DEF LeafAt, Reaches
<1>2. g.lv[p] = 0 /\ g.lv[q] = 0
  BY <1>1, WholeIs
<1>3. p # q => g.hi[p] <= g.lo[q] \/ g.hi[q] <= g.lo[p]
  BY <1>1, <1>2, WholeIs
<1>4. g.lo[p] \in Nat /\ g.hi[p] \in Nat /\ g.lo[q] \in Nat /\ g.hi[q] \in Nat
  BY <1>1, WholeIs
<1> QED BY <1>1, <1>3, <1>4

\* The rows of leaves are written in place, without moving pages.
Rewritten(P, Q) ==
    /\ DOMAIN Q = PageNo
    /\ \A p \in PageNo : /\ P[p].kind = "leaf" => Q[p] = LeafPage(Q[p].rows, P[p].prev, P[p].next)
                         /\ P[p].kind # "leaf" => Q[p] = P[p]
AllHold(P, Q, g, R) ==
    \A p \in PageNo : P[p].kind = "leaf" => Holds(P, Q[p].rows, g.lo[p], g.hi[p], R)

LEMMA LeafPageIs ==
    ASSUME NEW s, NEW a, NEW b
    PROVE  /\ LeafPage(s, a, b).kind = "leaf" /\ LeafPage(s, a, b).rows = s
           /\ LeafPage(s, a, b).prev = a /\ LeafPage(s, a, b).next = b
           /\ LeafPage(s, a, b) # Unused
BY DEF LeafPage, Unused

LEMMA RowsRewritten ==
    ASSUME NEW t, NEW g, NEW R, Stored(t, g, R), NEW Q, Rewritten(t.pages, Q),
           NEW R2, AllHold(t.pages, Q, g, R2),
           NEW t2, t2 = [pages |-> Q, free |-> t.free, root |-> t.root]
    PROVE  Stored(t2, g, R2)
<1> DEFINE P == t.pages
<1>0. Whole(Space, t, g) /\ Contents(P, g, R) /\ ChainsDown(P)
  BY DEF Stored, Contents
<1>1. /\ PageNo = 1 .. MaxPages /\ DOMAIN P = PageNo /\ t.free \in 2 .. MaxPages + 1 /\ t.free \in Nat
      /\ \A p \in PageNo : P[p].kind = "unused" <=> p >= t.free
      /\ \A p \in PageNo : P[p] = Unused <=> p >= t.free
  BY <1>0, WholeIs
<1>2. t2.pages = Q /\ t2.free = t.free /\ t2.root = t.root
  OBVIOUS
<1>3. \A p \in PageNo : /\ P[p].kind = "leaf" => /\ Q[p].kind = "leaf" /\ Q[p] # Unused
                                                 /\ Q[p].prev = P[p].prev /\ Q[p].next = P[p].next
                        /\ P[p].kind # "leaf" => Q[p] = P[p]
  <2> TAKE p \in PageNo
  <2>1. CASE P[p].kind = "leaf"
    <3>1. Q[p] = LeafPage(Q[p].rows, P[p].prev, P[p].next)
      BY <2>1 DEF Rewritten
    <3> QED BY <2>1, <3>1, LeafPageIs
  <2>2. CASE P[p].kind # "leaf"
    BY <2>2 DEF Rewritten
  <2> QED BY <2>1, <2>2
<1>4. DOMAIN Q = PageNo
  BY DEF Rewritten
<1>5. SameShape(P, Q)
  <2>1. \A p \in PageNo : p \in InTree(P) <=> p \in InTree(Q)
    BY <1>1, <1>3, <1>4 DEF InTree
  <2>2. \A p \in PageNo : P[p].kind = "branch" => Q[p] = P[p]
    BY <1>3
  <2> QED BY <1>1, <1>3, <1>4, <2>1, <2>2 DEF SameShape
<1>6. /\ \A p \in PageNo : Q[p] = Unused <=> p >= t.free
      /\ \A p \in PageNo : Q[p].kind = "unused" <=> p >= t.free
  BY <1>1, <1>3
<1>7. Whole(Space, t2, g)
  <2>1. Space.n = MaxPages /\ IsSpace(Space) /\ t.free \in t.free .. MaxPages + 1
    BY <1>1, SpaceIs
  <2>2. t2 = [pages |-> t2.pages, free |-> t2.free, root |-> t.root]
    OBVIOUS
  <2> QED BY <1>0, <1>1, <1>2, <1>5, <1>6, <2>1, <2>2, Reshaped
<1>8. ChainsDown(Q) /\ \A p \in PageNo : P[p].kind = "overflow" => Q[p] = P[p]
  <2>1. \A p \in PageNo : P[p].kind = "overflow" => Q[p] = P[p]
    BY <1>3
  <2>2. \A p \in PageNo : Q[p].kind = "overflow" => P[p].kind = "overflow"
    BY <1>3
  <2>3. ASSUME NEW p \in PageNo, Q[p].kind = "overflow"
        PROVE  /\ Q[p].len \in Int /\ Q[p].next \in 0 .. p - 1
               /\ Q[p].next # 0 => Q[Q[p].next].kind = "overflow"
    <3>1. /\ Q[p] = P[p] /\ P[p].len \in Int /\ P[p].next \in 0 .. p - 1
          /\ P[p].next # 0 => P[P[p].next].kind = "overflow"
      BY <1>0, <2>1, <2>2, <2>3 DEF ChainsDown
    <3>2. P[p].next # 0 => P[p].next \in PageNo
      <4> DEFINE m == P[p].next
      <4>1. m \in 0 .. p - 1 /\ p \in 1 .. MaxPages
        BY <1>1, <3>1
      <4> HIDE DEF m
      <4>2. m # 0 => m \in 1 .. MaxPages
        BY <4>1, SpaceIs
      <4> QED BY <1>1, <4>2 DEF m
    <3> QED BY <2>1, <3>1, <3>2
  <2> QED BY <2>1, <2>3 DEF ChainsDown
<1>9. ASSUME NEW p \in PageNo, Q[p].kind = "leaf"
      PROVE  Q[p] = LeafPage(Q[p].rows, Q[p].prev, Q[p].next) /\ Holds(Q, Q[p].rows, g.lo[p], g.hi[p], R2)
  <2>1. P[p].kind = "leaf"
    BY <1>3, <1>9
  <2>2. Q[p] = LeafPage(Q[p].rows, P[p].prev, P[p].next) /\ Q[p].prev = P[p].prev /\ Q[p].next = P[p].next
    BY <1>3, <2>1 DEF Rewritten
  <2>3. Holds(P, Q[p].rows, g.lo[p], g.hi[p], R2)
    BY <2>1 DEF AllHold
  <2>4. Holds(Q, Q[p].rows, g.lo[p], g.hi[p], R2)
    BY <1>0, <1>8, <2>3, HoldsElsewhere
  <2> QED BY <2>2, <2>4
<1> QED BY <1>2, <1>7, <1>8, <1>9 DEF Stored, Contents

\* A leaf outside of which nothing changes.
LEMMA OthersHold ==
    ASSUME NEW t, NEW g, NEW R, Stored(t, g, R), NEW x \in Ids, NEW p, LeafAt(t, g, p, x),
           NEW R2, \A y \in Ids : y # x => R2[y] = R[y],
           NEW q \in PageNo, q # p, t.pages[q].kind = "leaf"
    PROVE  Holds(t.pages, t.pages[q].rows, g.lo[q], g.hi[q], R2)
<1>1. Whole(Space, t, g) /\ Contents(t.pages, g, R) /\ ChainsDown(t.pages)
  BY DEF Stored, Contents
<1>2. Holds(t.pages, t.pages[q].rows, g.lo[q], g.hi[q], R)
  BY <1>1 DEF Contents
<1>3. \A y \in Ids : g.lo[q] <= y /\ y < g.hi[q] => R2[y] = R[y]
  <2> SUFFICES ASSUME g.lo[q] <= x, x < g.hi[q] PROVE FALSE
    OBVIOUS
  <2>1. LeafAt(t, g, q, x)
    BY <1>1, WholeIs DEF LeafAt, Reaches
  <2>2. x \in Int
    BY SpaceIs DEF Ids
  <2> QED BY <1>1, <2>1, <2>2, OneLeaf
<1> QED BY <1>1, <1>2, <1>3, HoldsElsewhere

LEMMA TreeDeleteIs ==
    ASSUME NEW t, NEW g, NEW R, Stored(t, g, R), NEW x \in Ids,
           NEW R2, \A y \in Ids : R2[y] = IF y = x THEN 0 ELSE R[y]
    PROVE  Stored(TreeDelete(t, x), g, R2) /\ TreeDelete(t, x).free = t.free
<1> DEFINE P == t.pages
           p == LeafFor(P, t.root, x)
           new == Without(P[p].rows, {x})
           Q == [P EXCEPT ![p] = [P[p] EXCEPT !.rows = new]]
           t2 == TreeDelete(t, x)
<1>0. Whole(Space, t, g) /\ Contents(P, g, R)
  BY DEF Stored
<1>1. LeafAt(t, g, p, x) /\ x \in Int
  <2>1. x \in Nat /\ x < MaxId + 2
    BY SpaceIs DEF Ids
  <2> QED BY <1>0, <2>1, PathIs
<1>2. /\ DOMAIN P = PageNo /\ t = [pages |-> P, free |-> t.free, root |-> t.root]
      /\ p \in PageNo /\ P[p].kind = "leaf"
  BY <1>0, <1>1, WholeIs DEF LeafAt
<1>3. t2 = [pages |-> Q, free |-> t.free, root |-> t.root]
  <2> HIDE DEF p
  <2>1. t2 = [t EXCEPT !.pages[p].rows = Without(@, {x})]
    BY DEF TreeDelete, p
  <2> QED BY <1>2, <2>1
<1>4. P[p] = LeafPage(P[p].rows, P[p].prev, P[p].next) /\ Holds(P, P[p].rows, g.lo[p], g.hi[p], R)
  BY <1>0, <1>2 DEF Contents
<1> HIDE DEF p
<1>5. Q[p] = LeafPage(new, P[p].prev, P[p].next) /\ \A q \in PageNo : q # p => Q[q] = P[q]
  <2>1. [P[p] EXCEPT !.rows = new] = LeafPage(new, P[p].prev, P[p].next)
    <3> DEFINE v == P[p]
               a == v.rows
    <3>1. v = LeafPage(a, v.prev, v.next)
      BY <1>4
    <3> HIDE DEF v, a, new
    <3>2. [v EXCEPT !.rows = new] = LeafPage(new, v.prev, v.next)
      BY <3>1 DEF LeafPage
    <3> QED BY <3>2 DEF v
  <2> QED BY <1>2, <2>1
<1> DEFINE w == Q
<1> HIDE DEF Q, new
<1>6. Q[p].rows = new
  BY <1>5, LeafPageIs
<1>7. DOMAIN Q = PageNo
  BY <1>2 DEF Q
<1>8. \A q \in PageNo : P[q].kind = "leaf" => P[q] = LeafPage(P[q].rows, P[q].prev, P[q].next)
  BY <1>0 DEF Contents
<1>9. Rewritten(P, Q)
  BY <1>2, <1>5, <1>6, <1>7, <1>8 DEF Rewritten
<1>10. AllHold(P, Q, g, R2)
  <2>1. ASSUME NEW q \in PageNo, P[q].kind = "leaf" PROVE Holds(P, Q[q].rows, g.lo[q], g.hi[q], R2)
    <3>1. CASE q = p
      <4>1. \A y \in Ids : R2[y] = IF y \in {x} THEN 0 ELSE R[y]
        OBVIOUS
      <4>2. Holds(P, new, g.lo[p], g.hi[p], R2)
        BY <1>4, <4>1, HoldsWithout DEF new
      <4> QED BY <1>6, <3>1, <4>2
    <3>2. CASE q # p
      <4>1. \A y \in Ids : y # x => R2[y] = R[y]
        OBVIOUS
      <4>2. Holds(P, P[q].rows, g.lo[q], g.hi[q], R2)
        BY <1>1, <2>1, <3>2, <4>1, OthersHold
      <4> QED BY <1>5, <3>2, <4>2
    <3> QED BY <3>1, <3>2
  <2> QED BY <2>1 DEF AllHold
<1> HIDE DEF t2
<1>11. Stored(t2, g, R2)
  BY <1>3, <1>9, <1>10, RowsRewritten
<1> QED BY <1>3, <1>11 DEF t2

\* find_leftmost_leaf and find_rightmost_leaf: the leaves of places 0 and MaxId + 1.
LEMMA EndLeafIs ==
    ASSUME NEW t, NEW g, Whole(Space, t, g)
    PROVE  /\ LeafAt(t, g, EndLeaf(t.pages, t.root, "asc"), 0)
           /\ LeafAt(t, g, EndLeaf(t.pages, t.root, "desc"), MaxId + 1)
<1> DEFINE P == t.pages
           link == [p \in PageNo |-> IF P[p].kind = "branch" THEN P[p].kids[1] ELSE 0]
           s == Follow(link, t.root, MaxPages)
<1>1. /\ PageNo = 1 .. MaxPages /\ InTree(P) \subseteq PageNo /\ t.root \in PageNo
      /\ IsSpace(Space) /\ Space.n = MaxPages /\ Space.top = MaxId + 2 /\ MaxId \in Nat /\ MaxPages \in Nat
  BY WholeIs, SpaceIs
<1>2. ASSUME NEW p \in PageNo, P[p].kind = "branch"
      PROVE  /\ link[p] \in InTree(P) /\ g.lv[link[p]] + 1 = g.lv[p]
             /\ Reaches(g, p, 0) => Reaches(g, link[p], 0)
  <2> DEFINE b == P[p]
  <2>1. /\ b.kids \in Seq(InTree(P)) /\ b.keys \in Seq(Ids) /\ Len(b.kids) = Len(b.keys) + 1
        /\ \A j \in 1 .. Len(b.kids) : g.lv[b.kids[j]] + 1 = g.lv[p]
        /\ g.lo[b.kids[1]] = g.lo[p]
    BY <1>2, WholeIs, SpaceIs DEF Node
  <2>2. 1 \in 1 .. Len(b.kids) /\ b.kids[1] \in InTree(P)
    <3>1. Len(b.keys) \in Nat
      BY <2>1
    <3>2. 1 \in 1 .. Len(b.kids)
      BY <2>1, <3>1
    <3> HIDE DEF b
    <3> QED BY <2>1, <3>2, SeqIsFunction
  <2>3. link[p] = b.kids[1]
    BY <1>2
  <2>4. g.lo[b.kids[1]] \in Nat /\ g.hi[b.kids[1]] \in Nat /\ g.lo[b.kids[1]] < g.hi[b.kids[1]]
    BY <1>1, <2>2, WholeIs, SMTT(30)
  <2> HIDE DEF link, b
  <2> QED BY <2>1, <2>2, <2>3, <2>4 DEF Reaches
<1>3. LeadsDown(Space, t, g, 0, link)
  <2>1. \A p \in PageNo : link[p] \in 0 .. MaxPages
    <3> TAKE p \in PageNo
    <3>1. CASE P[p].kind = "branch"
      <4>1. link[p] \in PageNo
        BY <1>1, <1>2, <3>1
      <4> HIDE DEF link
      <4> QED BY <1>1, <4>1
    <3>2. CASE P[p].kind # "branch"
      BY <1>1, <3>2
    <3> QED BY <3>1, <3>2
  <2>2. link = [p \in PageNo |-> link[p]] /\ \A p \in PageNo : P[p].kind # "branch" => link[p] = 0
    OBVIOUS
  <2> HIDE DEF link
  <2>3. link \in [PageNo -> 0 .. MaxPages]
    BY <2>1, <2>2
  <2> QED BY <1>1, <1>2, <2>2, <2>3 DEF LeadsDown
<1>4. LeafAt(t, g, EndLeaf(P, t.root, "asc"), 0)
  <2> HIDE DEF link
  <2>1. Descent(t, g, Follow(link, t.root, Space.n), 0)
    <3>1. 0 \in Nat /\ 0 < Space.top
      BY <1>1
    <3> QED BY <1>1, <1>3, <3>1, Descends
  <2>2. Descent(t, g, s, 0)
    BY <1>1, <2>1
  <2> HIDE DEF s
  <2>3. LeafAt(t, g, s[Len(s)], 0)
    BY <2>2, DescentEnds
  <2>4. EndLeaf(P, t.root, "asc") = s[Len(s)]
    BY DEF EndLeaf, Last, s, link
  <2> QED BY <2>3, <2>4
<1>5. LeafAt(t, g, EndLeaf(P, t.root, "desc"), MaxId + 1)
  <2>1. EndLeaf(P, t.root, "desc") = LeafFor(P, t.root, MaxId + 1)
    BY DEF EndLeaf
  <2>2. MaxId + 1 \in Nat /\ MaxId + 1 < MaxId + 2
    BY <1>1
  <2>3. LeafAt(t, g, LeafFor(P, t.root, MaxId + 1), MaxId + 1)
    BY <2>2, PathIs
  <2> QED BY <2>1, <2>3
<1> QED BY <1>4, <1>5

\* The leaf chain, forwards.
LeafSet(P) == {p \in PageNo : P[p].kind = "leaf"}
NextOf(P) == [q \in PageNo |-> IF P[q].kind # "leaf" THEN 0 ELSE P[q].next]
PrevOf(P) == [q \in PageNo |-> IF P[q].kind # "leaf" THEN 0 ELSE P[q].prev]
\* Places counted from the other end.
Mirrored(f) == [p \in PageNo |-> (MaxId + 2) - f[p]]

LEMMA MirroredIs ==
    ASSUME NEW f, NEW p \in PageNo, f[p] \in Int
    PROVE  Mirrored(f)[p] = (MaxId + 2) - f[p]
BY SpaceIs DEF Mirrored

LEMMA LeavesJoin ==
    ASSUME NEW t, NEW g, Whole(Space, t, g)
    PROVE  /\ Joins(MaxPages, LeafSet(t.pages), MaxId + 2, g.lo, g.hi, NextOf(t.pages))
           /\ Joins(MaxPages, LeafSet(t.pages), MaxId + 2, Mirrored(g.hi), Mirrored(g.lo), PrevOf(t.pages))
<1> DEFINE P == t.pages
           L == LeafSet(P)
           top == MaxId + 2
<1>1. /\ PageNo = 1 .. MaxPages /\ MaxPages \in Nat \ {0} /\ MaxId \in Nat /\ top \in Nat
      /\ L \in SUBSET (1 .. MaxPages)
      /\ Space.n = MaxPages /\ Space.top = top
  BY WholeIs, SpaceIs DEF LeafSet
<1>2. \A p \in L : /\ p \in PageNo /\ p \in InTree(P) /\ P[p].kind = "leaf"
                   /\ g.lo[p] \in Nat /\ g.hi[p] \in Nat /\ g.lo[p] < g.hi[p] /\ g.hi[p] <= top
                   /\ g.lv[p] = 0
  BY WholeIs DEF LeafSet
<1>3. \A p, q \in L : p # q => g.hi[p] <= g.lo[q] \/ g.hi[q] <= g.lo[p]
  BY <1>2, WholeIs
<1>4. ASSUME NEW p \in L
      PROVE  /\ g.hi[p] = top => P[p].next = 0
             /\ g.hi[p] # top => P[p].next \in L /\ g.lo[P[p].next] = g.hi[p]
             /\ g.lo[p] = 0 => P[p].prev = 0
             /\ g.lo[p] # 0 => P[p].prev \in L /\ g.hi[P[p].prev] = g.lo[p]
  <2>1. Linked(Space, t, g)
    BY DEF Whole, Standing
  <2> QED BY <1>1, <1>2, <2>1 DEF Linked, LeafSet
<1>5. \A p \in L : NextOf(P)[p] = P[p].next /\ PrevOf(P)[p] = P[p].prev
  BY <1>2 DEF NextOf, PrevOf
<1>6. NextOf(P) \in [1 .. MaxPages -> 0 .. MaxPages] /\ PrevOf(P) \in [1 .. MaxPages -> 0 .. MaxPages]
  <2>1. ASSUME NEW q \in PageNo PROVE NextOf(P)[q] \in 0 .. MaxPages /\ PrevOf(P)[q] \in 0 .. MaxPages
    <3>0. 0 \in 0 .. MaxPages /\ \A r \in L : r \in 0 .. MaxPages
      BY <1>1
    <3>1. CASE q \in L
      <4>1. P[q].next \in 0 .. MaxPages /\ P[q].prev \in 0 .. MaxPages
        BY <1>4, <3>0, <3>1
      <4> QED BY <1>5, <3>1, <4>1
    <3>2. CASE q \notin L
      BY <3>0, <3>2 DEF NextOf, PrevOf, LeafSet
    <3> QED BY <3>1, <3>2
  <2>2. NextOf(P) = [q \in PageNo |-> NextOf(P)[q]] /\ PrevOf(P) = [q \in PageNo |-> PrevOf(P)[q]]
    BY DEF NextOf, PrevOf
  <2> QED BY <1>1, <2>1, <2>2
<1> HIDE DEF top, L
<1>7. Joins(MaxPages, L, top, g.lo, g.hi, NextOf(P))
  BY <1>1, <1>2, <1>3, <1>4, <1>5, <1>6 DEF Joins
<1> DEFINE a == Mirrored(g.hi)
           b == Mirrored(g.lo)
<1>8. \A p \in PageNo : a[p] = top - g.hi[p] /\ b[p] = top - g.lo[p]
  <2> TAKE p \in PageNo
  <2>1. g.hi[p] \in Int /\ g.lo[p] \in Int
    BY WholeIs
  <2>2. Mirrored(g.hi)[p] = (MaxId + 2) - g.hi[p] /\ Mirrored(g.lo)[p] = (MaxId + 2) - g.lo[p]
    BY <2>1, MirroredIs
  <2> QED BY <2>2 DEF top
<1> HIDE DEF a, b
<1>9. \A p \in L : a[p] = top - g.hi[p] /\ b[p] = top - g.lo[p]
  BY <1>2, <1>8
<1>10. \A p \in L : a[p] \in Nat /\ b[p] \in Nat /\ a[p] < b[p] /\ b[p] <= top
  <2> TAKE p \in L
  <2>1. g.lo[p] \in Nat /\ g.hi[p] \in Nat /\ g.lo[p] < g.hi[p] /\ g.hi[p] <= top
    BY <1>2
  <2>2. a[p] = top - g.hi[p] /\ b[p] = top - g.lo[p] /\ top \in Nat
    BY <1>1, <1>9
  <2> DEFINE x == g.lo[p]
             y == g.hi[p]
  <2>3. /\ x \in Nat /\ y \in Nat /\ x < y /\ y <= top /\ top \in Nat
        /\ a[p] = top - y /\ b[p] = top - x
    BY <2>1, <2>2
  <2> HIDE DEF x, y
  <2> QED BY <2>3
<1>11. ASSUME NEW p \in L, NEW q \in L, p # q PROVE b[p] <= a[q] \/ b[q] <= a[p]
  <2>1. g.lo[p] \in Nat /\ g.hi[p] \in Nat /\ g.lo[q] \in Nat /\ g.hi[q] \in Nat
    BY <1>2
  <2>2. g.hi[p] <= g.lo[q] \/ g.hi[q] <= g.lo[p]
    BY <1>3, <1>11
  <2>3. a[p] = top - g.hi[p] /\ b[p] = top - g.lo[p] /\ a[q] = top - g.hi[q] /\ b[q] = top - g.lo[q]
    BY <1>9
  <2>4. CASE g.hi[p] <= g.lo[q]
    <3>1. b[q] <= a[p]
      BY <1>1, <2>1, <2>3, <2>4
    <3> QED BY <3>1
  <2>5. CASE g.hi[q] <= g.lo[p]
    <3>1. b[p] <= a[q]
      BY <1>1, <2>1, <2>3, <2>5
    <3> QED BY <3>1
  <2> QED BY <2>2, <2>4, <2>5
<1>12. ASSUME NEW p \in L
       PROVE  /\ b[p] = top => PrevOf(P)[p] = 0
              /\ b[p] # top => PrevOf(P)[p] \in L /\ a[PrevOf(P)[p]] = b[p]
  <2>1. g.lo[p] \in Nat /\ b[p] = top - g.lo[p] /\ PrevOf(P)[p] = P[p].prev
    BY <1>2, <1>5, <1>9
  <2>2. CASE g.lo[p] = 0
    BY <1>1, <1>4, <2>1, <2>2
  <2>3. CASE g.lo[p] # 0
    <3>1. P[p].prev \in L /\ g.hi[P[p].prev] = g.lo[p]
      BY <1>4, <2>3
    <3>2. a[P[p].prev] = top - g.hi[P[p].prev]
      BY <1>9, <3>1
    <3>3. b[p] # top
      BY <1>1, <2>1, <2>3
    <3> QED BY <2>1, <3>1, <3>2, <3>3
  <2> QED BY <2>2, <2>3
<1>13. Joins(MaxPages, L, top, a, b, PrevOf(P))
  BY <1>1, <1>6, <1>10, <1>11, <1>12 DEF Joins
<1> QED BY <1>7, <1>13 DEF a, b, L, top

LEMMA ChainsAre ==
    ASSUME NEW t, NEW g, Whole(Space, t, g)
    PROVE  /\ IsChain(LeafSet(t.pages), MaxId + 2, g.lo, g.hi, EndLeaf(t.pages, t.root, "asc"),
                      Chain(t.pages, EndLeaf(t.pages, t.root, "asc"), "asc"))
           /\ Steps(Chain(t.pages, EndLeaf(t.pages, t.root, "asc"), "asc"), NextOf(t.pages))
           /\ IsChain(LeafSet(t.pages), MaxId + 2, Mirrored(g.hi), Mirrored(g.lo),
                      EndLeaf(t.pages, t.root, "desc"),
                      Chain(t.pages, EndLeaf(t.pages, t.root, "desc"), "desc"))
           /\ Steps(Chain(t.pages, EndLeaf(t.pages, t.root, "desc"), "desc"), PrevOf(t.pages))
<1>1. /\ \A p : Chain(t.pages, p, "asc") = Follow(NextOf(t.pages), p, MaxPages)
      /\ \A p : Chain(t.pages, p, "desc") = Follow(PrevOf(t.pages), p, MaxPages)
  BY DEF Chain, NextOf, PrevOf
<1>2. EndLeaf(t.pages, t.root, "asc") \in LeafSet(t.pages) /\ EndLeaf(t.pages, t.root, "desc") \in LeafSet(t.pages)
  BY EndLeafIs DEF LeafAt, LeafSet
<1> QED BY <1>1, <1>2, LeavesJoin, ChainIs

\* The forward chain shows every leaf.
LEMMA AllLeavesAre ==
    ASSUME NEW t, NEW g, Whole(Space, t, g)
    PROVE  AllLeaves(t) = LeafSet(t.pages)
<1> DEFINE L == LeafSet(t.pages)
           first == EndLeaf(t.pages, t.root, "asc")
           s == Chain(t.pages, first, "asc")
<1>1. IsChain(L, MaxId + 2, g.lo, g.hi, first, s)
  BY ChainsAre
<1>2. LeafAt(t, g, first, 0)
  BY EndLeafIs
<1>3. AllLeaves(t) = {s[i] : i \in DOMAIN s}
  BY DEF AllLeaves
<1> HIDE DEF s, L
<1>4. s \in Seq(L) /\ \A q \in L : g.lo[first] <= g.lo[q] => \E i \in 1 .. Len(s) : s[i] = q
  <2> HIDE DEF first
  <2> QED BY <1>1 DEF IsChain
<1>5. DOMAIN s = 1 .. Len(s) /\ \A i \in 1 .. Len(s) : s[i] \in L
  BY <1>4, SeqIsFunction
<1>6. \A q \in L : g.lo[first] <= g.lo[q]
  <2> HIDE DEF first
  <2>1. g.lo[first] <= 0 /\ g.lo[first] \in Nat
    BY <1>2, WholeIs DEF LeafAt, Reaches
  <2>2. \A q \in L : g.lo[q] \in Nat
    BY WholeIs DEF L, LeafSet
  <2> QED BY <2>1, <2>2
<1> QED BY <1>3, <1>4, <1>5, <1>6 DEF L

\* A page whose rows are replaced.
LEMMA RowsReplaced ==
    ASSUME NEW v, v = LeafPage(v.rows, v.prev, v.next), NEW new
    PROVE  [v EXCEPT !.rows = new] = LeafPage(new, v.prev, v.next)
<1> DEFINE a == v.rows
<1> HIDE DEF a
<1>1. v = LeafPage(a, v.prev, v.next)
  BY DEF a
<1> QED BY <1>1 DEF LeafPage

\* delete_matching.
LEMMA TreeDeleteWhereIs ==
    ASSUME NEW t, NEW g, NEW R, Stored(t, g, R), NEW S,
           NEW R2, \A y \in Ids : R2[y] = IF y \in S THEN 0 ELSE R[y]
    PROVE  Stored(TreeDeleteWhere(t, S), g, R2) /\ TreeDeleteWhere(t, S).free = t.free
<1> DEFINE P == t.pages
           L == LeafSet(P)
           Q == [p \in PageNo |-> IF p \in L THEN [P[p] EXCEPT !.rows = Without(P[p].rows, S)] ELSE P[p]]
           t2 == TreeDeleteWhere(t, S)
<1>0. Whole(Space, t, g) /\ Contents(P, g, R)
  BY DEF Stored
<1>1. t = [pages |-> P, free |-> t.free, root |-> t.root]
  BY <1>0, WholeIs
<1>2. t2 = [pages |-> Q, free |-> t.free, root |-> t.root]
  <2>1. AllLeaves(t) = L
    BY <1>0, AllLeavesAre
  <2> DEFINE W(M) == [p \in PageNo |-> IF p \in M THEN [P[p] EXCEPT !.rows = Without(P[p].rows, S)] ELSE P[p]]
  <2>3. t2 = [t EXCEPT !.pages = W(AllLeaves(t))]
    BY DEF TreeDeleteWhere
  <2>4. Q = W(L)
    OBVIOUS
  <2>2. t2 = [t EXCEPT !.pages = Q]
    <3> HIDE DEF W, Q, t2, L
    <3> QED BY <2>1, <2>3, <2>4
  <2> HIDE DEF Q
  <2> QED BY <1>1, <2>2
<1>3. \A p \in PageNo : P[p].kind = "leaf" =>
          P[p] = LeafPage(P[p].rows, P[p].prev, P[p].next) /\ Holds(P, P[p].rows, g.lo[p], g.hi[p], R)
  BY <1>0 DEF Contents
<1>4. ASSUME NEW p \in PageNo, P[p].kind = "leaf"
      PROVE  Q[p] = LeafPage(Without(P[p].rows, S), P[p].prev, P[p].next) /\ Q[p].rows = Without(P[p].rows, S)
  <2>1. Q[p] = [P[p] EXCEPT !.rows = Without(P[p].rows, S)]
    BY <1>4 DEF LeafSet
  <2>2. P[p] = LeafPage(P[p].rows, P[p].prev, P[p].next)
    BY <1>3, <1>4
  <2> DEFINE v == P[p]
             new == Without(P[p].rows, S)
  <2>3. [v EXCEPT !.rows = new] = LeafPage(new, v.prev, v.next)
    <3>1. v = LeafPage(v.rows, v.prev, v.next)
      BY <2>2
    <3> HIDE DEF v, new
    <3> QED BY <3>1, RowsReplaced
  <2>4. Q[p] = LeafPage(new, P[p].prev, P[p].next)
    BY <2>1, <2>3
  <2> HIDE DEF v, new, Q
  <2>5. Q[p].rows = new
    BY <2>4, LeafPageIs
  <2> QED BY <2>4, <2>5 DEF new
<1>5. \A p \in PageNo : P[p].kind # "leaf" => Q[p] = P[p]
  BY DEF LeafSet
<1>6. DOMAIN Q = PageNo
  OBVIOUS
<1> HIDE DEF Q
<1>7. Rewritten(P, Q)
  BY <1>4, <1>5, <1>6 DEF Rewritten
<1>8. AllHold(P, Q, g, R2)
  <2>1. ASSUME NEW p \in PageNo, P[p].kind = "leaf" PROVE Holds(P, Q[p].rows, g.lo[p], g.hi[p], R2)
    <3>1. Holds(P, P[p].rows, g.lo[p], g.hi[p], R)
      BY <1>3, <2>1
    <3>2. Holds(P, Without(P[p].rows, S), g.lo[p], g.hi[p], R2)
      BY <3>1, HoldsWithout
    <3> QED BY <1>4, <2>1, <3>2
  <2> QED BY <2>1 DEF AllHold
<1> HIDE DEF t2
<1>9. Stored(t2, g, R2)
  BY <1>2, <1>7, <1>8, RowsRewritten
<1> QED BY <1>2, <1>9 DEF t2

\* update_matching, in place: the rows of S change, but for those it leaves to
\* its caller.
Left(t, S, size) == S \cap UNION {{t.pages[p].rows[i].id : i \in DOMAIN t.pages[p].rows}
                                    : p \in LeafSet(t.pages) \ InPlace(t, S, size)}
Patched(t, S, size) ==
    [t EXCEPT !.pages = [p \in PageNo |-> IF p \in InPlace(t, S, size)
                                          THEN [t.pages[p] EXCEPT !.rows = Replaced(t.pages[p].rows, S, size)]
                                          ELSE t.pages[p]]]

LEMMA LeftIs ==
    ASSUME NEW t, NEW g, NEW R, Stored(t, g, R), NEW S, NEW size, NEW x \in Ids,
           NEW p, LeafAt(t, g, p, x), x \in S, R[x] # 0
    PROVE  x \in Left(t, S, size) <=> p \notin InPlace(t, S, size)
<1> DEFINE P == t.pages
<1>0. Whole(Space, t, g) /\ Contents(P, g, R)
  BY DEF Stored
<1>1. /\ x \in Int /\ p \in PageNo /\ P[p].kind = "leaf" /\ g.lo[p] <= x /\ x < g.hi[p]
  BY SpaceIs DEF Ids, LeafAt, Reaches
<1>2. ASSUME NEW q \in PageNo, P[q].kind = "leaf"
      PROVE  /\ DOMAIN P[q].rows = 1 .. Len(P[q].rows)
             /\ \A i \in 1 .. Len(P[q].rows) : g.lo[q] <= P[q].rows[i].id /\ P[q].rows[i].id < g.hi[q]
  <2> DEFINE s == P[q].rows
  <2>1. Holds(P, s, g.lo[q], g.hi[q], R)
    BY <1>0, <1>2 DEF Contents
  <2> HIDE DEF s
  <2>2. s \in Seq(Entries) /\ \A i \in 1 .. Len(s) : RowIs(P, s[i], g.lo[q], g.hi[q], R)
    BY <2>1 DEF Holds
  <2>3. DOMAIN s = 1 .. Len(s)
    BY <2>2, SeqIsFunction
  <2> QED BY <2>2, <2>3 DEF s, RowIs
<1>3. \E i \in DOMAIN P[p].rows : P[p].rows[i].id = x
  <2>1. Holds(P, P[p].rows, g.lo[p], g.hi[p], R)
    BY <1>0, <1>1 DEF Contents
  <2>2. \E i \in 1 .. Len(P[p].rows) : P[p].rows[i].id = x
    BY <1>1, <2>1 DEF Holds
  <2> QED BY <1>1, <1>2, <2>2
<1>4. ASSUME p \notin InPlace(t, S, size) PROVE x \in Left(t, S, size)
  BY <1>1, <1>3, <1>4 DEF Left, LeafSet
<1>5. ASSUME x \in Left(t, S, size) PROVE p \notin InPlace(t, S, size)
  <2>1. PICK q \in LeafSet(P) \ InPlace(t, S, size) : x \in {P[q].rows[i].id : i \in DOMAIN P[q].rows}
    BY <1>5 DEF Left
  <2>2. q \in PageNo /\ P[q].kind = "leaf"
    BY <2>1 DEF LeafSet
  <2>3. PICK i \in 1 .. Len(P[q].rows) : x = P[q].rows[i].id
    BY <1>2, <2>1, <2>2
  <2>4. LeafAt(t, g, q, x)
    BY <1>0, <1>2, <2>2, <2>3, WholeIs DEF LeafAt, Reaches
  <2>5. q = p
    BY <1>0, <1>1, <2>4, OneLeaf
  <2> QED BY <2>1, <2>5
<1> QED BY <1>4, <1>5

LEMMA PatchedIs ==
    ASSUME NEW t, NEW g, NEW R, Stored(t, g, R), NEW S, NEW size \in Nat \ {0},
           \A x \in Ids : x \in S => R[x] # 0,
           NEW R2, \A y \in Ids : R2[y] = IF y \in S \ Left(t, S, size) THEN size ELSE R[y]
    PROVE  Stored(Patched(t, S, size), g, R2) /\ Patched(t, S, size).free = t.free
<1> DEFINE P == t.pages
           here == InPlace(t, S, size)
           Q == [p \in PageNo |-> IF p \in here THEN [P[p] EXCEPT !.rows = Replaced(P[p].rows, S, size)] ELSE P[p]]
           t2 == Patched(t, S, size)
<1>0. Whole(Space, t, g) /\ Contents(P, g, R)
  BY DEF Stored
<1>1. t = [pages |-> P, free |-> t.free, root |-> t.root]
  BY <1>0, WholeIs
<1>2. t2 = [pages |-> Q, free |-> t.free, root |-> t.root]
  <2>1. t2 = [t EXCEPT !.pages = Q]
    BY DEF Patched
  <2> HIDE DEF Q
  <2> QED BY <1>1, <2>1
<1>3. \A p \in here : p \in PageNo /\ P[p].kind = "leaf" /\ Fits(Replaced(P[p].rows, S, size))
  BY <1>0, AllLeavesAre DEF InPlace, LeafSet
<1>4. \A p \in PageNo : P[p].kind = "leaf" =>
          P[p] = LeafPage(P[p].rows, P[p].prev, P[p].next) /\ Holds(P, P[p].rows, g.lo[p], g.hi[p], R)
  BY <1>0 DEF Contents
<1> HIDE DEF here
<1>5. ASSUME NEW p \in here
      PROVE  Q[p] = LeafPage(Replaced(P[p].rows, S, size), P[p].prev, P[p].next)
             /\ Q[p].rows = Replaced(P[p].rows, S, size)
  <2>1. Q[p] = [P[p] EXCEPT !.rows = Replaced(P[p].rows, S, size)]
    BY <1>3
  <2>2. P[p] = LeafPage(P[p].rows, P[p].prev, P[p].next)
    BY <1>3, <1>4
  <2> DEFINE v == P[p]
             new == Replaced(P[p].rows, S, size)
  <2>3. [v EXCEPT !.rows = new] = LeafPage(new, v.prev, v.next)
    <3>1. v = LeafPage(v.rows, v.prev, v.next)
      BY <2>2
    <3> HIDE DEF v, new
    <3> QED BY <3>1, RowsReplaced
  <2>4. Q[p] = LeafPage(new, P[p].prev, P[p].next)
    BY <2>1, <2>3
  <2> HIDE DEF v, new, Q
  <2>5. Q[p].rows = new
    BY <2>4, LeafPageIs
  <2> QED BY <2>4, <2>5 DEF new
<1>6. \A p \in PageNo : p \notin here => Q[p] = P[p]
  OBVIOUS
<1>7. DOMAIN Q = PageNo
  OBVIOUS
<1> HIDE DEF Q
<1>8. Rewritten(P, Q)
  <2>1. ASSUME NEW p \in PageNo, P[p].kind = "leaf" PROVE Q[p] = LeafPage(Q[p].rows, P[p].prev, P[p].next)
    BY <1>4, <1>5, <1>6, <2>1
  <2>2. \A p \in PageNo : P[p].kind # "leaf" => Q[p] = P[p]
    BY <1>3, <1>6
  <2> QED BY <1>7, <2>1, <2>2 DEF Rewritten
<1>9. ASSUME NEW p \in PageNo, P[p].kind = "leaf" PROVE Holds(P, Q[p].rows, g.lo[p], g.hi[p], R2)
  <2>1. Holds(P, P[p].rows, g.lo[p], g.hi[p], R)
    BY <1>4, <1>9
  <2>2. \A x \in Ids : g.lo[p] <= x /\ x < g.hi[p] => LeafAt(t, g, p, x)
    BY <1>0, <1>9, WholeIs DEF LeafAt, Reaches
  <2>3. CASE p \in here
    <3>1. \A x \in Ids : g.lo[p] <= x /\ x < g.hi[p] => R2[x] = IF x \in S THEN size ELSE R[x]
      BY <2>2, <2>3, LeftIs DEF here
    <3>2. Holds(P, Replaced(P[p].rows, S, size), g.lo[p], g.hi[p], R2)
      BY <1>3, <2>1, <2>3, <3>1, HoldsReplaced
    <3> QED BY <1>5, <2>3, <3>2
  <2>4. CASE p \notin here
    <3>1. \A x \in Ids : g.lo[p] <= x /\ x < g.hi[p] => R2[x] = R[x]
      BY <2>2, <2>4, LeftIs DEF here
    <3>2. ChainsDown(P)
      BY <1>0 DEF Contents
    <3>3. Holds(P, P[p].rows, g.lo[p], g.hi[p], R2)
      BY <2>1, <3>1, <3>2, HoldsElsewhere
    <3> QED BY <1>6, <2>4, <3>3
  <2> QED BY <2>3, <2>4
<1>10. AllHold(P, Q, g, R2)
  BY <1>9 DEF AllHold
<1> HIDE DEF t2
<1>11. Stored(t2, g, R2)
  BY <1>2, <1>8, <1>10, RowsRewritten
<1> QED BY <1>2, <1>11 DEF t2

-----------------------------------------------------------------------------
(* Writing a row. *)

LEMMA QuotientIs ==
    ASSUME NEW a \in Nat, NEW b \in Nat \ {0}, a >= b
    PROVE  a \div b \in Nat \ {0}
OBVIOUS

LEMMA OneMore ==
    ASSUME NEW a \in Int, NEW b \in Int
    PROVE  (a + 1) * b = a * b + b
OBVIOUS

LEMMA OverflowPageIs ==
    ASSUME NEW a, NEW b
    PROVE  /\ OverflowPage(a, b).kind = "overflow" /\ OverflowPage(a, b).len = a
           /\ OverflowPage(a, b).next = b /\ OverflowPage(a, b) # Unused
BY DEF OverflowPage, Unused

\* What Spill promises of the tree s.t and the entry s.entry for a row of that
\* size.
AnyEntries == [id : Ids, w : 1 .. Cap, first : Nat]
Spilled(t, s, x, size, g, R) ==
    /\ IsTree(s.t) /\ s.t.root = t.root /\ t.free <= s.t.free
    /\ s.entry \in AnyEntries
    /\ s.t.free <= MaxPages + 1 =>
          /\ Stored(s.t, g, R)
          /\ \A p \in PageNo : p < t.free => s.t.pages[p] = t.pages[p]
          /\ s.entry \in Entries /\ s.entry.id = x /\ Reassemble(s.t.pages, s.entry) = size
          /\ s.entry.first # 0 => s.t.pages[s.entry.first].kind = "overflow"

\* The chain of n new pages from the tree's first free one on: its first page is
\* the last chunk, of m bytes.
IsSpillage(t, n, m, Q) ==
    /\ n \in Nat \ {0} /\ m \in Int /\ t.free + n <= MaxPages + 1
    /\ DOMAIN Q = PageNo
    /\ \A p \in PageNo : /\ p \in t.free .. t.free + n - 1 =>
                               Q[p] = OverflowPage(IF p = t.free THEN m ELSE Payload, IF p = t.free THEN 0 ELSE p - 1)
                         /\ p \notin t.free .. t.free + n - 1 => Q[p] = t.pages[p]

LEMMA SpillageKeeps ==
    ASSUME NEW t, NEW g, NEW R, Stored(t, g, R), NEW n, NEW m, NEW Q, IsSpillage(t, n, m, Q),
           NEW t2, t2 = [pages |-> Q, free |-> t.free + n, root |-> t.root]
    PROVE  /\ Stored(t2, g, R)
           /\ \A p \in t.free .. t.free + n - 1 : p \in PageNo /\ Q[p].kind = "overflow"
           /\ \A p \in PageNo : p < t.free => Q[p] = t.pages[p]
           /\ Tail2(Q)[t.free + n - 1] = m + (n - 1) * Payload
<1> DEFINE P == t.pages
           f == t.free
           new == f .. f + n - 1
<1>0. Whole(Space, t, g) /\ Contents(P, g, R) /\ ChainsDown(P)
  BY DEF Stored, Contents
<1>1. /\ PageNo = 1 .. MaxPages /\ DOMAIN P = PageNo /\ f \in 2 .. MaxPages + 1 /\ f \in Nat
      /\ \A p \in PageNo : P[p].kind = "unused" <=> p >= f
      /\ \A p \in PageNo : P[p] = Unused <=> p >= f
      /\ MaxPages \in Nat /\ Payload \in Nat
  BY <1>0, WholeIs, SpaceIs
<1>2. /\ n \in Nat \ {0} /\ m \in Int /\ f + n <= MaxPages + 1 /\ DOMAIN Q = PageNo
      /\ \A p \in PageNo : p \notin new => Q[p] = P[p]
      /\ \A p \in PageNo : p \in new =>
            Q[p] = OverflowPage(IF p = f THEN m ELSE Payload, IF p = f THEN 0 ELSE p - 1)
  BY DEF IsSpillage
<1> HIDE DEF f
<1>3. \A p \in new : p \in PageNo /\ p >= f
  BY <1>1, <1>2
<1>4. \A p \in PageNo : p < f => p \notin new /\ Q[p] = P[p]
  BY <1>1, <1>2
<1>5. \A p \in PageNo : p \in new => /\ Q[p].kind = "overflow" /\ Q[p] # Unused
                                     /\ Q[p].len = (IF p = f THEN m ELSE Payload)
                                     /\ Q[p].next = (IF p = f THEN 0 ELSE p - 1)
                                     /\ P[p].kind = "unused"
  <2> HIDE DEF new
  <2> TAKE p \in PageNo
  <2> SUFFICES ASSUME p \in new
               PROVE  /\ Q[p].kind = "overflow" /\ Q[p] # Unused
                      /\ Q[p].len = (IF p = f THEN m ELSE Payload)
                      /\ Q[p].next = (IF p = f THEN 0 ELSE p - 1)
                      /\ P[p].kind = "unused"
    OBVIOUS
  <2>1. Q[p] = OverflowPage(IF p = f THEN m ELSE Payload, IF p = f THEN 0 ELSE p - 1)
    BY <1>2
  <2>2. P[p].kind = "unused"
    BY <1>1, <1>3
  <2> QED BY <2>1, <2>2, OverflowPageIs
<1>6. \A p \in PageNo : Q[p].kind = "overflow" => p \in new \/ (P[p].kind = "overflow" /\ Q[p] = P[p])
  BY <1>2
<1>7. \A p \in PageNo : P[p].kind = "overflow" => Q[p] = P[p]
  BY <1>2, <1>5
<1>8. ChainsDown(Q)
  <2>1. ASSUME NEW p \in PageNo, Q[p].kind = "overflow"
        PROVE  /\ Q[p].len \in Int /\ Q[p].next \in 0 .. p - 1
               /\ Q[p].next # 0 => Q[Q[p].next].kind = "overflow"
    <3>1. CASE p \in new
      <4>1. p \in Nat /\ p >= f /\ f >= 2
        BY <1>1, <1>3, <3>1
      <4>2. Q[p].len \in Int /\ Q[p].next \in 0 .. p - 1
        BY <1>1, <1>2, <1>5, <3>1, <4>1
      <4>3. p # f => p - 1 \in new /\ p - 1 \in PageNo
        BY <1>1, <1>2, <3>1
      <4>4. p # f => Q[p - 1].kind = "overflow" /\ Q[p].next = p - 1
        BY <1>5, <3>1, <4>3
      <4>5. p = f => Q[p].next = 0
        BY <1>5, <3>1
      <4> QED BY <4>2, <4>4, <4>5
    <3>2. CASE p \notin new
      <4>1. P[p].kind = "overflow" /\ Q[p] = P[p]
        BY <1>6, <2>1, <3>2
      <4>2. P[p].len \in Int /\ P[p].next \in 0 .. p - 1 /\ (P[p].next # 0 => P[P[p].next].kind = "overflow")
        BY <1>0, <4>1 DEF ChainsDown
      <4>3. P[p].next # 0 => P[p].next \in PageNo
        <5> DEFINE k == P[p].next
        <5>1. k \in 0 .. p - 1 /\ p \in 1 .. MaxPages
          BY <1>1, <4>2
        <5> HIDE DEF k
        <5>2. k # 0 => k \in 1 .. MaxPages
          BY <1>1, <5>1
        <5> QED BY <1>1, <5>2 DEF k
      <4> QED BY <1>7, <4>1, <4>2, <4>3
    <3> QED BY <3>1, <3>2
  <2> QED BY <2>1 DEF ChainsDown
<1>9. SameShape(P, Q)
  <2>1. \A p \in PageNo : p \in InTree(P) <=> p \in InTree(Q)
    <3> TAKE p \in PageNo
    <3>1. CASE p \in new
      BY <1>1, <1>2, <1>5, <3>1 DEF InTree
    <3>2. CASE p \notin new
      BY <1>1, <1>2, <3>2 DEF InTree
    <3> QED BY <3>1, <3>2
  <2>2. \A p \in PageNo : P[p].kind \in {"branch", "leaf"} => Q[p] = P[p]
    BY <1>2, <1>5
  <2> QED BY <1>1, <1>2, <2>1, <2>2 DEF SameShape
<1>10. Whole(Space, t2, g)
  <2>1. t2.pages = Q /\ t2.free = f + n /\ t2.root = t.root
        /\ t2 = [pages |-> t2.pages, free |-> t2.free, root |-> t.root]
    BY DEF f
  <2>2. Space.n = MaxPages /\ IsSpace(Space) /\ t2.free \in f .. MaxPages + 1
    BY <1>1, <1>2, <2>1, SpaceIs
  <2>3. ASSUME NEW p \in PageNo
        PROVE  (Q[p] = Unused <=> p >= f + n) /\ (Q[p].kind = "unused" <=> p >= f + n)
    <3>1. CASE p \in new
      <4>1. ~(p >= f + n)
        BY <1>1, <1>2, <3>1
      <4> QED BY <1>5, <3>1, <4>1
    <3>2. CASE p \notin new
      <4>1. p >= f + n <=> p >= f
        BY <1>1, <1>2, <3>2
      <4> QED BY <1>1, <1>2, <3>2, <4>1
    <3> QED BY <3>1, <3>2
  <2> QED BY <1>0, <1>1, <1>9, <2>1, <2>2, <2>3, Reshaped DEF f
<1>11. Contents(Q, g, R)
  <2>1. ASSUME NEW p \in PageNo, Q[p].kind = "leaf"
        PROVE  Q[p] = LeafPage(Q[p].rows, Q[p].prev, Q[p].next) /\ Holds(Q, Q[p].rows, g.lo[p], g.hi[p], R)
    <3>1. Q[p] = P[p]
      BY <1>2, <1>5, <2>1
    <3>2. Q[p] = LeafPage(Q[p].rows, Q[p].prev, Q[p].next) /\ Holds(P, Q[p].rows, g.lo[p], g.hi[p], R)
      BY <1>0, <2>1, <3>1 DEF Contents
    <3>3. Holds(Q, Q[p].rows, g.lo[p], g.hi[p], R)
      BY <1>0, <1>7, <1>8, <3>2, HoldsElsewhere
    <3> QED BY <3>2, <3>3
  <2> QED BY <1>8, <2>1 DEF Contents
<1>12. Tail2(Q)[f + n - 1] = m + (n - 1) * Payload
  <2> DEFINE w == Tail2(Q)
             Good == {j \in 0 .. n - 1 : w[f + j] = m + j * Payload}
  <2>1. \A p \in 0 .. MaxPages : w[p] = TailStep(Q, w, p)
    <3>1. IsTail(Q, w)
      BY <1>8, TailIs
    <3> HIDE DEF w
    <3> QED BY <3>1 DEF IsTail
  <2>2. \A p \in new : p \in 0 .. MaxPages /\ p # 0
    BY <1>1, <1>3
  <2>3. \A p \in new : w[p] = (IF p = f THEN m + w[0] ELSE Payload + w[p - 1])
    <3> TAKE p \in new
    <3>1. /\ Q[p].kind = "overflow" /\ Q[p].len = (IF p = f THEN m ELSE Payload)
          /\ Q[p].next = (IF p = f THEN 0 ELSE p - 1)
      BY <1>3, <1>5
    <3>2. w[p] = Q[p].len + w[Q[p].next]
      BY <2>1, <2>2, <3>1 DEF TailStep
    <3> HIDE DEF w
    <3> QED BY <3>1, <3>2
  <2>4. w[0] = 0
    BY <1>1, <2>1 DEF TailStep
  <2> HIDE DEF w
  <2>5. 0 \in Good
    <3>1. f \in new /\ f + 0 = f /\ 0 \in 0 .. n - 1
      BY <1>1, <1>2
    <3>2. w[f] = m + w[0]
      BY <2>3, <3>1
    <3>3. m + 0 * Payload = m + 0
      BY <1>1
    <3> QED BY <1>2, <2>4, <3>1, <3>2, <3>3
  <2>6. ASSUME NEW j \in 0 .. (n - 1) - 1, j \in Good PROVE j + 1 \in Good
    <3>1. /\ f + (j + 1) \in new /\ f + (j + 1) # f /\ (f + (j + 1)) - 1 = f + j
          /\ j + 1 \in 0 .. n - 1 /\ j \in Int
      BY <1>1, <1>2
    <3>2. w[f + (j + 1)] = Payload + w[f + j]
      BY <2>3, <3>1
    <3>3. w[f + j] = m + j * Payload
      BY <2>6
    <3>4. (j + 1) * Payload = j * Payload + Payload /\ j * Payload \in Int
      <4>1. j \in Int /\ Payload \in Int
        BY <1>1, <3>1
      <4>2. j * Payload \in Int
        BY <4>1
      <4>3. (j + 1) * Payload = j * Payload + Payload
        BY <4>1, OneMore
      <4> QED BY <4>2, <4>3
    <3>5. Payload + (m + j * Payload) = m + (j * Payload + Payload)
      BY <1>1, <1>2, <3>4
    <3> QED BY <3>1, <3>2, <3>3, <3>4, <3>5
  <2> HIDE DEF Good
  <2>7. n - 1 \in Good
    <3>1. 0 \in Nat /\ n - 1 \in Nat
      BY <1>2
    <3>2. \A j \in 0 .. n - 1 : j \in Good
      BY <2>5, <2>6, <3>1, Upwards
    <3> QED BY <3>1, <3>2
  <2>8. f + (n - 1) = f + n - 1
    BY <1>1, <1>2
  <2> QED BY <2>7, <2>8 DEF Good, w
<1>13. t2.pages = Q
  OBVIOUS
<1> QED BY <1>3, <1>4, <1>5, <1>10, <1>11, <1>12, <1>13 DEF Stored, f

LEMMA SpillIs ==
    ASSUME NEW t, NEW g, NEW R, Stored(t, g, R), NEW x \in Ids, NEW size \in Nat \ {0}
    PROVE  Spilled(t, Spill(t, x, size), x, size, g, R)
<1> DEFINE s == Spill(t, x, size)
<1>0. Whole(Space, t, g) /\ Contents(t.pages, g, R)
  BY DEF Stored
<1>1. t = [pages |-> t.pages, free |-> t.free, root |-> t.root] /\ t.free \in Nat
  BY <1>0, WholeIs
<1>2. /\ Cap \in Nat \ {0} /\ Trailer \in 1 .. Cap - 1 /\ Payload \in Nat \ {0} /\ MaxPages \in Nat
  BY SpaceIs
<1>3. CASE size <= Cap
  <2> DEFINE e == [id |-> x, w |-> size, first |-> 0]
  <2>1. s.t = t /\ s.entry = e
    BY <1>3 DEF Spill
  <2>2. e \in Entries /\ e.id = x /\ e.first = 0
    <3>1. size \in 1 .. Cap /\ 0 \in 0 .. MaxPages
      BY <1>2, <1>3
    <3> QED BY <3>1 DEF Entries
  <2>3. Reassemble(t.pages, e) = size
    BY ReassembleIs
  <2> HIDE DEF s, e
  <2>4. Spilled(t, s, x, size, g, R)
    <3>1. e \in AnyEntries
      BY <1>2, <2>2 DEF Entries, AnyEntries
    <3> QED BY <1>1, <2>1, <2>2, <2>3, <3>1 DEF Spilled, IsTree
  <2> QED BY <2>4 DEF s
<1>4. CASE ~(size <= Cap)
  <2> DEFINE rest == size - (Cap - Trailer)
             n == (rest + Payload - 1) \div Payload
             m == rest - (n - 1) * Payload
             chunk(j) == OverflowPage(IF j = 0 THEN m ELSE Payload, IF j = 0 THEN 0 ELSE t.free + j - 1)
             Q == [p \in PageNo |-> IF p \in t.free .. t.free + n - 1 THEN chunk(p - t.free) ELSE t.pages[p]]
             e == [id |-> x, w |-> Cap, first |-> t.free + n - 1]
             t2 == [pages |-> Q, free |-> t.free + n, root |-> t.root]
  <2>1. s.t = [t EXCEPT !.pages = Q, !.free = t.free + n] /\ s.entry = e
    BY <1>4 DEF Spill
  <2>2. rest \in Nat \ {0}
    BY <1>2, <1>4
  <2>3. n \in Nat \ {0}
    <3> HIDE DEF rest
    <3>1. rest + Payload - 1 \in Nat /\ rest + Payload - 1 >= Payload
      BY <1>2, <2>2
    <3> QED BY <1>2, <3>1, QuotientIs
  <2> HIDE DEF n
  <2>4. m \in Int /\ m + (n - 1) * Payload = rest
    <3> HIDE DEF rest
    <3>1. (n - 1) * Payload \in Int
      BY <1>2, <2>3
    <3> QED BY <2>2, <3>1
  <2> HIDE DEF m
  <2>5. s.t = t2
    <3> HIDE DEF Q
    <3> QED BY <1>1, <2>1
  <2>6. IsTree(t2) /\ t2.root = t.root /\ t.free <= t2.free /\ t2.pages = Q /\ t2.free = t.free + n
    BY <1>1, <2>3 DEF IsTree
  <2>7. ASSUME t.free + n <= MaxPages + 1
        PROVE  /\ Stored(t2, g, R)
               /\ \A p \in PageNo : p < t.free => Q[p] = t.pages[p]
               /\ e \in Entries /\ e.id = x /\ Reassemble(Q, e) = size
               /\ Q[e.first].kind = "overflow"
    <3>1. IsSpillage(t, n, m, Q)
      <4>1. ASSUME NEW p \in PageNo, p \in t.free .. t.free + n - 1
            PROVE  Q[p] = OverflowPage(IF p = t.free THEN m ELSE Payload, IF p = t.free THEN 0 ELSE p - 1)
        <5>1. Q[p] = chunk(p - t.free)
          BY <4>1
        <5>2. p \in Int /\ (p - t.free = 0 <=> p = t.free) /\ t.free + (p - t.free) - 1 = p - 1
          BY <1>1, <4>1
        <5> HIDE DEF Q
        <5> QED BY <5>1, <5>2
      <4>2. \A p \in PageNo : p \notin t.free .. t.free + n - 1 => Q[p] = t.pages[p]
        OBVIOUS
      <4>3. DOMAIN Q = PageNo
        OBVIOUS
      <4> HIDE DEF Q
      <4> QED BY <2>3, <2>4, <2>7, <4>1, <4>2, <4>3 DEF IsSpillage
    <3> HIDE DEF Q
    <3>2. /\ Stored(t2, g, R)
          /\ \A p \in t.free .. t.free + n - 1 : p \in PageNo /\ Q[p].kind = "overflow"
          /\ \A p \in PageNo : p < t.free => Q[p] = t.pages[p]
          /\ Tail2(Q)[t.free + n - 1] = m + (n - 1) * Payload
      BY <3>1, SpillageKeeps
    <3>3. t.free + n - 1 \in t.free .. t.free + n - 1 /\ t.free + n - 1 \in 0 .. MaxPages /\ t.free + n - 1 # 0
      <4>1. t.free >= 2
        BY <1>0, WholeIs
      <4> QED BY <1>1, <1>2, <2>3, <2>7, <4>1
    <3>4. e \in Entries /\ e.id = x /\ e.first = t.free + n - 1 /\ e.w = Cap
      BY <1>2, <3>3 DEF Entries
    <3>5. Q[e.first].kind = "overflow"
      BY <3>2, <3>3, <3>4
    <3>6. Reassemble(Q, e) = Cap - Trailer + rest
      <4> HIDE DEF e, rest
      <4>1. Reassemble(Q, e) = e.w - Trailer + Tail2(Q)[e.first]
        BY <3>3, <3>4, ReassembleIs
      <4> QED BY <2>4, <3>2, <3>4, <4>1
    <3>7. Cap - Trailer + rest = size
      BY <1>2
    <3> QED BY <3>2, <3>4, <3>5, <3>6, <3>7
  <2>9. e \in AnyEntries
    <3>1. t.free + n - 1 \in Nat /\ Cap \in 1 .. Cap
      BY <1>1, <1>2, <2>3
    <3> QED BY <3>1 DEF AnyEntries
  <2> HIDE DEF s, t2, Q, e
  <2>8. Spilled(t, s, x, size, g, R)
    BY <2>1, <2>5, <2>6, <2>7, <2>9 DEF Spilled
  <2> QED BY <2>8 DEF s
<1> QED BY <1>3, <1>4

\* A leaf that does not fit has two entries, for each of them fits alone.
LEMMA TwoEntries ==
    ASSUME NEW s \in Seq(AnyEntries), ~Fits(s)
    PROVE  Len(s) \in Nat /\ Len(s) >= 2
<1>1. Len(s) \in Nat /\ \A i \in 1 .. Len(s) : s[i] \in AnyEntries
  BY SeqIsFunction
<1>2. PICK f : IsWeigher(s, f, Len(s)) /\ Weight(s) = f[Len(s)]
  BY <1>1, Weigher
<1>3. \A n \in 0 .. Len(s) : f[n] = WeightStep(s, f, n)
  BY <1>2 DEF IsWeigher
<1>4. f[0] = 0
  BY <1>1, <1>3 DEF WeightStep
<1>5. Cap \in Nat
  BY SpaceIs
<1>6. Len(s) # 0
  BY <1>2, <1>4, <1>5 DEF Fits
<1>7. Len(s) # 1
  <2> SUFFICES ASSUME Len(s) = 1 PROVE FALSE
    OBVIOUS
  <2>1. 1 \in 0 .. Len(s) /\ 1 \in 1 .. Len(s) /\ 1 # 0 /\ 1 - 1 = 0
    OBVIOUS
  <2>2. f[1] = f[0] + s[1].w
    BY <1>3, <2>1 DEF WeightStep
  <2>3. s[1].w \in 1 .. Cap
    BY <1>1, <2>1 DEF AnyEntries
  <2>4. f[1] <= Cap
    BY <1>4, <1>5, <2>2, <2>3
  <2> QED BY <1>2, <2>4 DEF Fits
<1> DEFINE k == Len(s)
<1>8. k \in Nat /\ k # 0 /\ k # 1
  BY <1>1, <1>6, <1>7
<1> HIDE DEF k
<1>9. k >= 2
  BY <1>8
<1> QED BY <1>8, <1>9 DEF k

\* There is no way to cut the rows in two so that both parts fit a leaf.
NoCut(s) == \A m \in 1 .. Len(s) - 1 : ~(Fits(SubSeq(s, 1, m)) /\ Fits(SubSeq(s, m + 1, Len(s))))

\* find_overflow_split_point misses none.
LEMMA OverflowSplitPointIs ==
    ASSUME NEW s, Len(s) \in Nat, Len(s) >= 2
    PROVE  /\ OverflowSplitPoint(s) \in 1 .. Len(s) - 1
           /\ \/ NoCut(s)
              \/ /\ Fits(SubSeq(s, 1, OverflowSplitPoint(s)))
                 /\ Fits(SubSeq(s, OverflowSplitPoint(s) + 1, Len(s)))
<1> DEFINE n == Len(s)
           mids == 1 .. n - 1
           Left2(m) == SubSeq(s, 1, m)
           Right2(m) == SubSeq(s, m + 1, n)
           longest == {m \in mids : Fits(Left2(m))}
           best == IF longest = {} THEN 1 ELSE CHOOSE m \in longest : \A k \in longest : k <= m
           both == {m \in mids : Fits(Left2(m)) /\ Fits(Right2(m))}
           point == IF Fits(Right2(best)) THEN best
                    ELSE IF both # {} THEN CHOOSE m \in both : \A k \in both : m <= k
                    ELSE n \div 2
<1>1. OverflowSplitPoint(s) = point
  BY DEF OverflowSplitPoint
<1>2. n \div 2 \in mids /\ 1 \in mids /\ mids \subseteq Nat /\ mids \subseteq 0 .. n /\ n \in Nat
  OBVIOUS
<1>3. best \in mids /\ (longest # {} => best \in longest)
  <2>1. longest \subseteq 0 .. n /\ longest \subseteq mids
    BY <1>2
  <2> HIDE DEF longest, mids
  <2>2. longest # {} => \E m \in longest : \A k \in longest : k <= m
    <3> HIDE DEF n
    <3> QED BY <1>2, <2>1, GreatestNat
  <2>3. longest # {} => best \in longest
    BY <2>2
  <2> QED BY <1>2, <2>1, <2>3
<1>4. both # {} => (CHOOSE m \in both : \A k \in both : m <= k) \in both
  <2>1. both \subseteq Nat
    BY <1>2
  <2> HIDE DEF both
  <2>2. both # {} => \E m \in both : \A k \in both : m <= k
    BY <2>1, LeastNat
  <2> QED BY <2>2
<1>5. both \subseteq longest /\ both \subseteq mids
  OBVIOUS
<1>6. NoCut(s) <=> both = {}
  BY DEF NoCut
<1> HIDE DEF best
<1>7. point \in mids /\ (both = {} \/ (Fits(Left2(point)) /\ Fits(Right2(point))))
  <2>1. CASE Fits(Right2(best))
    <3>1. point = best
      BY <2>1
    <3>2. both # {} => Fits(Left2(best))
      <4>1. both # {} => best \in longest
        BY <1>3, <1>5
      <4> QED BY <4>1
    <3> HIDE DEF point
    <3> QED BY <1>3, <2>1, <3>1, <3>2
  <2>2. CASE ~Fits(Right2(best)) /\ both # {}
    <3>1. point \in both
      <4> HIDE DEF both
      <4> QED BY <1>4, <2>2
    <3> HIDE DEF point
    <3> QED BY <3>1
  <2>3. CASE ~Fits(Right2(best)) /\ both = {}
    <3>1. point = n \div 2
      BY <2>3
    <3> HIDE DEF point, both
    <3> QED BY <1>2, <2>3, <3>1
  <2> QED BY <2>1, <2>2, <2>3
<1> HIDE DEF point
<1> QED BY <1>1, <1>6, <1>7

\* A leaf that does not fit is cut between two of its rows.
LEMMA SplitPointIs ==
    ASSUME NEW s \in Seq(AnyEntries), ~Fits(s), NEW overflowing
    PROVE  /\ SplitPoint(s, overflowing) \in 1 .. Len(s) - 1
           /\ overflowing => \/ NoCut(s)
                             \/ /\ Fits(SubSeq(s, 1, SplitPoint(s, overflowing)))
                                /\ Fits(SubSeq(s, SplitPoint(s, overflowing) + 1, Len(s)))
<1>1. Len(s) \in Nat /\ Len(s) >= 2
  BY TwoEntries
<1>2. CASE overflowing
  <2>1. SplitPoint(s, overflowing) = OverflowSplitPoint(s)
    BY <1>2 DEF SplitPoint
  <2> QED BY <1>1, <2>1, OverflowSplitPointIs
<1>3. CASE ~overflowing
  <2>1. SplitPoint(s, overflowing) = Len(s) \div 2
    BY <1>3 DEF SplitPoint
  <2>2. Len(s) \div 2 \in 1 .. Len(s) - 1
    BY <1>1
  <2> QED BY <1>3, <2>1, <2>2
<1> QED BY <1>2, <1>3

\* The leaf's rows, with the new one among them, go to two pages.
CutInto(t, p, s, mid, t2, up) ==
    /\ t2 = [pages |-> SplitLeaf(t.pages, p, t.free, SubSeq(s, 1, mid), SubSeq(s, mid + 1, Len(s))),
             free |-> t.free + 1, root |-> t.root]
    /\ up.key = s[mid + 1].id /\ up.page = t.free

LEMMA LeafCut ==
    ASSUME NEW t, NEW g, NEW R, Stored(t, g, R), NEW x \in Ids, NEW p, LeafAt(t, g, p, x),
           NEW R2, \A y \in Ids : y # x => R2[y] = R[y],
           NEW s, Holds(t.pages, s, g.lo[p], g.hi[p], R2), NEW mid \in 1 .. Len(s) - 1,
           t.free <= MaxPages, NEW t2, NEW up, CutInto(t, p, s, mid, t2, up)
    PROVE  /\ \E g2 : Pending(Space, t2, g2, p, up) /\ Contents(t2.pages, g2, R2)
           /\ \A q \in PageNo : t.pages[q].kind = "branch" => t2.pages[q] = t.pages[q]
<1> DEFINE P == t.pages
           f == t.free
           left == SubSeq(s, 1, mid)
           right == SubSeq(s, mid + 1, Len(s))
           Q == SplitLeaf(P, p, f, left, right)
           next == P[p].next
           k == up.key
           g2 == Halved(Space, g, p, f, k)
<1>0. Whole(Space, t, g) /\ Contents(P, g, R) /\ ChainsDown(P)
  BY DEF Stored, Contents
<1>1. /\ PageNo = 1 .. MaxPages /\ DOMAIN P = PageNo /\ f \in 2 .. MaxPages + 1 /\ f \in PageNo
      /\ \A q \in PageNo : P[q].kind = "unused" <=> q >= f
      /\ Space.n = MaxPages /\ IsSpace(Space) /\ MaxPages \in Nat /\ Space.top = MaxId + 2
  BY <1>0, WholeIs, SpaceIs
<1>2. /\ p \in PageNo /\ p \in InTree(P) /\ P[p].kind = "leaf" /\ p # f /\ f # 0
      /\ g.lo[p] \in Nat /\ g.hi[p] \in Nat
  BY <1>0, <1>1, WholeIs DEF LeafAt
<1>3. P[f].kind = "unused"
  BY <1>1
<1>4. t2 = [pages |-> Q, free |-> f + 1, root |-> t.root] /\ k = s[mid + 1].id /\ up.page = f
      /\ t2.pages = Q
  BY DEF CutInto
<1>5. /\ k \in Ids /\ g.lo[p] < k /\ k < g.hi[p]
      /\ Holds(P, left, g.lo[p], k, R2) /\ Holds(P, right, k, g.hi[p], R2)
  <2>1. /\ s[mid + 1].id \in Ids /\ g.lo[p] < s[mid + 1].id /\ s[mid + 1].id < g.hi[p]
        /\ Holds(P, left, g.lo[p], s[mid + 1].id, R2)
        /\ Holds(P, right, s[mid + 1].id, g.hi[p], R2)
    BY <1>2, HoldsCut
  <2> HIDE DEF left, right
  <2> QED BY <1>4, <2>1
<1> HIDE DEF left, right
<1>6. Space.rank[k] = k /\ k \in Space.keys /\ k \in Nat
  BY <1>5, SpaceIs DEF Ids
<1>7. next # p /\ next # f /\ (next # 0 => next \in PageNo /\ P[next].kind = "leaf" /\ P[next] = LeafPage(P[next].rows, P[next].prev, P[next].next))
  <2>1. Linked(Space, t, g)
    BY <1>0 DEF Whole, Standing
  <2>2. /\ g.hi[p] = Space.top => next = 0
        /\ g.hi[p] # Space.top => next \in PageNo /\ P[next].kind = "leaf" /\ g.lo[next] = g.hi[p]
    BY <1>1, <1>2, <2>1 DEF Linked
  <2>3. g.lo[p] # g.hi[p]
    BY <1>2, <1>5, <1>6
  <2>4. 0 # p /\ 0 # f
    BY <1>1, <1>2
  <2>5. next # p /\ next # f
    BY <1>3, <2>2, <2>3, <2>4
  <2>6. next \in PageNo /\ P[next].kind = "leaf" => P[next] = LeafPage(P[next].rows, P[next].prev, P[next].next)
    BY <1>0 DEF Contents
  <2>7. next # 0 => next \in PageNo /\ P[next].kind = "leaf"
    BY <2>2
  <2> QED BY <2>5, <2>6, <2>7
<1>8. /\ DOMAIN Q = PageNo
      /\ Q[p] = LeafPage(left, P[p].prev, f)
      /\ Q[f] = LeafPage(right, p, next)
      /\ \A q \in PageNo : q # p /\ q # f => Q[q] = IF q = next THEN [P[q] EXCEPT !.prev = f] ELSE P[q]
  <2> HIDE DEF f, next
  <2>1. DOMAIN Q = PageNo
    BY DEF SplitLeaf
  <2>2. Q[p] = LeafPage(left, P[p].prev, f)
    BY <1>2, <1>7 DEF SplitLeaf, next
  <2>3. Q[f] = LeafPage(right, p, next)
    BY <1>1, <1>2, <1>7 DEF SplitLeaf, next
  <2>4. ASSUME NEW q \in PageNo, q # p, q # f PROVE Q[q] = IF q = next THEN [P[q] EXCEPT !.prev = f] ELSE P[q]
    BY <2>4 DEF SplitLeaf, next
  <2> HIDE DEF Q
  <2> QED BY <2>1, <2>2, <2>3, <2>4
<1> HIDE DEF Q, next
<1>9. next # 0 => Q[next] = LeafPage(P[next].rows, f, P[next].next)
  <2> SUFFICES ASSUME next # 0 PROVE Q[next] = LeafPage(P[next].rows, f, P[next].next)
    OBVIOUS
  <2>1. next \in PageNo /\ next # p /\ next # f /\ P[next] = LeafPage(P[next].rows, P[next].prev, P[next].next)
    BY <1>7
  <2>2. Q[next] = [P[next] EXCEPT !.prev = f]
    BY <1>8, <2>1
  <2> DEFINE v == P[next]
             a == v.rows
             b == v.next
  <2>3. v = LeafPage(a, v.prev, b)
    BY <2>1
  <2> HIDE DEF v, a, b
  <2>4. [v EXCEPT !.prev = f] = LeafPage(a, f, b)
    BY <2>3 DEF LeafPage
  <2> QED BY <2>2, <2>4 DEF v, a, b
<1>10. \A q \in PageNo : q # p /\ q # f /\ q # next => Q[q] = P[q]
  BY <1>8
<1>11. next # 0 => /\ Q[next].kind = "leaf" /\ Q[next].rows = P[next].rows
                   /\ Q[next].next = P[next].next /\ Q[next].prev = f
  BY <1>9, LeafPageIs
<1>12. /\ Q[p].kind = "leaf" /\ Q[p].rows = left /\ Q[p].prev = P[p].prev /\ Q[p].next = f
       /\ Q[f].kind = "leaf" /\ Q[f].rows = right /\ Q[f].prev = p /\ Q[f].next = next
  BY <1>8, LeafPageIs
<1>13. \A q \in PageNo : q = next => q # 0
  BY <1>1
<1>14. \A q \in PageNo : P[q].kind \in {"branch", "overflow"} => Q[q] = P[q]
  <2> TAKE q \in PageNo
  <2> SUFFICES ASSUME P[q].kind \in {"branch", "overflow"} PROVE Q[q] = P[q]
    OBVIOUS
  <2>1. q # p /\ q # f /\ q # next
    BY <1>2, <1>3, <1>7, <1>13
  <2> QED BY <1>10, <2>1
<1>15. Pending(Space, t2, g2, p, up)
  <2>1. /\ t2 = [pages |-> t2.pages, free |-> t.free + 1, root |-> t.root] /\ DOMAIN t2.pages = 1 .. Space.n
    BY <1>1, <1>4, <1>8
  <2>2. /\ t2.pages[p].kind = "leaf" /\ t2.pages[p].prev = t.pages[p].prev /\ t2.pages[p].next = t.free
        /\ t2.pages[t.free].kind = "leaf" /\ t2.pages[t.free].prev = p
        /\ t2.pages[t.free].next = t.pages[p].next
    BY <1>4, <1>12 DEF next
  <2>3. \A q \in 1 .. Space.n : q # p /\ q # t.free =>
           IF q = t.pages[p].next
           THEN t2.pages[q].kind = t.pages[q].kind /\ t2.pages[q].next = t.pages[q].next /\ t2.pages[q].prev = t.free
           ELSE t2.pages[q] = t.pages[q]
    <3> TAKE q \in 1 .. Space.n
    <3> SUFFICES ASSUME q # p, q # t.free
                 PROVE  IF q = next
                        THEN Q[q].kind = P[q].kind /\ Q[q].next = P[q].next /\ Q[q].prev = f
                        ELSE Q[q] = P[q]
      BY <1>4 DEF next
    <3>1. q \in PageNo
      BY <1>1
    <3>2. CASE q = next
      BY <1>7, <1>11, <1>13, <3>1, <3>2
    <3>3. CASE q # next
      BY <1>10, <3>1, <3>3
    <3> QED BY <3>2, <3>3
  <2>4. /\ up.key \in Space.keys /\ up.page = t.free /\ g.lo[p] < Space.rank[up.key]
        /\ Space.rank[up.key] < g.hi[p] /\ t.free <= Space.n /\ p \in 1 .. Space.n /\ Space.rank[up.key] = k
    BY <1>1, <1>2, <1>4, <1>5, <1>6
  <2>5. Pending(Space, t2, Halved(Space, g, p, t.free, Space.rank[up.key]), p, up)
    BY <1>0, <1>1, <1>2, <2>1, <2>2, <2>3, <2>4, LeafSplits
  <2> QED BY <2>4, <2>5
<1>16. /\ g2.lo[p] = g.lo[p] /\ g2.hi[p] = k /\ g2.lo[f] = k /\ g2.hi[f] = g.hi[p]
       /\ \A q \in PageNo : q # p /\ q # f => g2.lo[q] = g.lo[q] /\ g2.hi[q] = g.hi[q]
  BY <1>1, <1>2 DEF Halved
<1> HIDE DEF g2
<1>17. ChainsDown(Q)
  <2>1. ASSUME NEW q \in PageNo, Q[q].kind = "overflow"
        PROVE  /\ Q[q].len \in Int /\ Q[q].next \in 0 .. q - 1
               /\ Q[q].next # 0 => Q[Q[q].next].kind = "overflow"
    <3>1. q # p /\ q # f /\ q # next
      BY <1>11, <1>12, <1>13, <2>1
    <3>2. Q[q] = P[q]
      BY <1>10, <3>1
    <3>3. P[q].len \in Int /\ P[q].next \in 0 .. q - 1 /\ (P[q].next # 0 => P[P[q].next].kind = "overflow")
      BY <1>0, <2>1, <3>2 DEF ChainsDown
    <3>4. P[q].next # 0 => P[q].next \in PageNo
      <4> DEFINE m == P[q].next
      <4>1. m \in 0 .. q - 1 /\ q \in 1 .. MaxPages
        BY <1>1, <3>3
      <4> HIDE DEF m
      <4>2. m # 0 => m \in 1 .. MaxPages
        BY <1>1, <4>1
      <4> QED BY <1>1, <4>2 DEF m
    <3> QED BY <1>14, <3>2, <3>3, <3>4
  <2> QED BY <2>1 DEF ChainsDown
<1>18. ASSUME NEW r, NEW a, NEW b, Holds(P, r, a, b, R2) PROVE Holds(Q, r, a, b, R2)
  BY <1>0, <1>14, <1>17, <1>18, HoldsElsewhere
<1>19. Contents(Q, g2, R2)
  <2>1. ASSUME NEW q \in PageNo, Q[q].kind = "leaf"
        PROVE  Q[q] = LeafPage(Q[q].rows, Q[q].prev, Q[q].next) /\ Holds(Q, Q[q].rows, g2.lo[q], g2.hi[q], R2)
    <3>1. CASE q = p
      <4>1. Holds(Q, left, g.lo[p], k, R2)
        BY <1>5, <1>18
      <4> QED BY <1>8, <1>12, <1>16, <3>1, <4>1
    <3>2. CASE q = f
      <4>1. Holds(Q, right, k, g.hi[p], R2)
        BY <1>5, <1>18
      <4> QED BY <1>8, <1>12, <1>16, <3>2, <4>1
    <3>3. CASE q # p /\ q # f
      <4>1. P[q].kind = "leaf" /\ Q[q].rows = P[q].rows
        BY <1>7, <1>10, <1>11, <1>13, <2>1, <3>3
      <4>2. Q[q] = LeafPage(Q[q].rows, Q[q].prev, Q[q].next)
        <5>1. CASE q = next
          BY <1>9, <1>11, <1>13, <5>1
        <5>2. CASE q # next
          BY <1>0, <1>10, <3>3, <4>1, <5>2 DEF Contents
        <5> QED BY <5>1, <5>2
      <4>3. Holds(P, P[q].rows, g.lo[q], g.hi[q], R2)
        BY <3>3, <4>1, OthersHold
      <4>4. Holds(Q, P[q].rows, g.lo[q], g.hi[q], R2)
        BY <1>18, <4>3
      <4> QED BY <1>16, <3>3, <4>1, <4>2, <4>4
    <3> QED BY <3>1, <3>2, <3>3
  <2> QED BY <1>17, <2>1 DEF Contents
<1> QED BY <1>4, <1>14, <1>15, <1>19

\* One leaf is written in place.
RowsSet(t, p, new) == [t EXCEPT !.pages[p].rows = new]
LEMMA OneLeafWritten ==
    ASSUME NEW t, NEW g, NEW R, Stored(t, g, R), NEW x \in Ids, NEW p, LeafAt(t, g, p, x),
           NEW R2, \A y \in Ids : y # x => R2[y] = R[y],
           NEW new, Holds(t.pages, new, g.lo[p], g.hi[p], R2)
    PROVE  Stored(RowsSet(t, p, new), g, R2)
<1> DEFINE P == t.pages
           Q == [P EXCEPT ![p] = [P[p] EXCEPT !.rows = new]]
           t2 == [t EXCEPT !.pages[p].rows = new]
<1>0. Whole(Space, t, g) /\ Contents(P, g, R)
  BY DEF Stored
<1>1. /\ DOMAIN P = PageNo /\ t = [pages |-> P, free |-> t.free, root |-> t.root]
      /\ p \in PageNo /\ P[p].kind = "leaf"
  BY <1>0, WholeIs DEF LeafAt
<1>2. t2 = [pages |-> Q, free |-> t.free, root |-> t.root]
  BY <1>1
<1>3. P[p] = LeafPage(P[p].rows, P[p].prev, P[p].next)
  BY <1>0, <1>1 DEF Contents
<1>4. Q[p] = LeafPage(new, P[p].prev, P[p].next) /\ \A q \in PageNo : q # p => Q[q] = P[q]
  <2> DEFINE v == P[p]
  <2>1. [v EXCEPT !.rows = new] = LeafPage(new, v.prev, v.next)
    <3>1. v = LeafPage(v.rows, v.prev, v.next)
      BY <1>3
    <3> HIDE DEF v
    <3> QED BY <3>1, RowsReplaced
  <2> QED BY <1>1, <2>1
<1>5. DOMAIN Q = PageNo
  BY <1>1
<1> HIDE DEF Q
<1>6. Q[p].rows = new
  BY <1>4, LeafPageIs
<1>7. \A q \in PageNo : P[q].kind = "leaf" => P[q] = LeafPage(P[q].rows, P[q].prev, P[q].next)
  BY <1>0 DEF Contents
<1>8. Rewritten(P, Q)
  BY <1>1, <1>4, <1>5, <1>6, <1>7 DEF Rewritten
<1>9. AllHold(P, Q, g, R2)
  <2>1. ASSUME NEW q \in PageNo, P[q].kind = "leaf" PROVE Holds(P, Q[q].rows, g.lo[q], g.hi[q], R2)
    <3>1. CASE q = p
      BY <1>6, <3>1
    <3>2. CASE q # p
      <4>1. Holds(P, P[q].rows, g.lo[q], g.hi[q], R2)
        BY <2>1, <3>2, OthersHold
      <4> QED BY <1>4, <3>2, <4>1
    <3> QED BY <3>1, <3>2
  <2> QED BY <2>1 DEF AllHold
<1> HIDE DEF t2
<1>10. Stored(t2, g, R2)
  BY <1>2, <1>8, <1>9, RowsRewritten
<1> QED BY <1>10 DEF t2, RowsSet

LEMMA WithInsertIs ==
    ASSUME NEW T, NEW s \in Seq(T), NEW e \in T
    PROVE  WithInsert(s, e) \in Seq(T)
<1> DEFINE above == {i \in DOMAIN s : s[i].id >= e.id}
<1>1. Len(s) \in Nat /\ DOMAIN s = 1 .. Len(s)
  BY SeqIsFunction
<1>2. above \subseteq 1 .. Len(s)
  BY <1>1
<1>3. WithInsert(s, e) = InsertAt(s, FirstOf(Len(s), above), e)
  BY DEF WithInsert
<1> HIDE DEF above
<1>4. FirstOf(Len(s), above) \in 1 .. Len(s) + 1
  BY <1>1, <1>2, FirstOfIs
<1> QED BY <1>3, <1>4, Inserted

\* A panic of an overflowing insert comes from a leaf that cannot be cut.
Explained(bad) == \A i \in DOMAIN bad : bad[i].overflowing => NoCut(bad[i].leaf)

LEMMA OneBad ==
    ASSUME NEW s, NEW o \in BOOLEAN, o => NoCut(s)
    PROVE  Explained(<<[leaf |-> s, overflowing |-> o]>>) /\ <<[leaf |-> s, overflowing |-> o]>> # <<>>
<1> DEFINE b == [leaf |-> s, overflowing |-> o]
<1>1. b.overflowing = o /\ b.leaf = s
  OBVIOUS
<1> HIDE DEF b
<1>2. DOMAIN <<b>> = {1} /\ <<b>>[1] = b /\ <<b>> # <<>>
  OBVIOUS
<1>3. Explained(<<b>>)
  BY <1>1, <1>2 DEF Explained
<1> QED BY <1>2, <1>3 DEF b

LEMMA NoneBad == Explained(<<>>)
BY DEF Explained

\* A half that runs past the end of its page does not fit.
LEMMA OverrunIs == ASSUME NEW s \in Seq(AnyEntries), Overruns(s) PROVE ~Fits(s)
<1>1. Len(s) \in Nat /\ \A i \in 1 .. Len(s) : s[i] \in AnyEntries
  BY SeqIsFunction
<1>2. \A i \in 1 .. Len(s) : s[i].w \in Nat
  BY <1>1, SpaceIs DEF AnyEntries
<1>3. Weight(s) \in Nat
  BY <1>1, <1>2, WeightIs
<1> QED BY <1>3, SpaceIs DEF Overruns, Fits

\* What insert_into_leaf on page p leaves behind.
LeafDone(t, r, p, R) ==
    /\ IsTree(r.t) /\ r.t.root = t.root /\ t.free <= r.t.free
    /\ Explained(r.bad)
    /\ r.bad = <<>> /\ ~Outgrown(r.t) =>
          /\ \A q \in PageNo : t.pages[q].kind = "branch" => r.t.pages[q] = t.pages[q]
          /\ \/ r.up = <<>> /\ \E g : Stored(r.t, g, R)
             \/ r.up # <<>> /\ \E g : Pending(Space, r.t, g, p, r.up[1]) /\ Contents(r.t.pages, g, R)

LEMMA IntoLeafIs ==
    ASSUME NEW t0, NEW g, NEW R, Stored(t0, g, R), NEW x \in Ids, R[x] = 0,
           NEW p, LeafAt(t0, g, p, x), NEW size \in Nat \ {0},
           NEW R2, \A y \in Ids : R2[y] = IF y = x THEN size ELSE R[y]
    PROVE  LeafDone(t0, IntoLeaf(t0, p, x, size), p, R2)
<1> DEFINE s == t0.pages[p].rows
           sp == Spill(t0, x, size)
           t == sp.t
           e == sp.entry
           all == WithInsert(s, e)
           o == size > Cap
           mid == SplitPoint(all, o)
           left == SubSeq(all, 1, mid)
           right == SubSeq(all, mid + 1, Len(all))
           r == IntoLeaf(t0, p, x, size)
<1>0. Whole(Space, t0, g) /\ Contents(t0.pages, g, R)
  BY DEF Stored
<1>1. /\ p \in PageNo /\ t0.pages[p].kind = "leaf" /\ p < t0.free /\ t0.free \in Nat
      /\ \A q \in PageNo : t0.pages[q].kind = "branch" => q < t0.free
      /\ MaxPages \in Nat /\ PageNo = 1 .. MaxPages
  <2>1. p \in PageNo /\ t0.pages[p].kind = "leaf"
    BY DEF LeafAt
  <2>2. \A q \in PageNo : t0.pages[q].kind = "unused" <=> q >= t0.free
    BY <1>0, WholeIs
  <2>3. \A q \in PageNo : t0.pages[q].kind \in {"branch", "leaf"} => q < t0.free
    <3> TAKE q \in PageNo
    <3>1. q \in Nat /\ t0.free \in Nat
      BY <1>0, WholeIs, SpaceIs
    <3>2. t0.pages[q].kind \in {"branch", "leaf"} => ~(q >= t0.free)
      BY <2>2
    <3> QED BY <3>1, <3>2
  <2> QED BY <1>0, <2>1, <2>3, WholeIs, SpaceIs
<1>2. Spilled(t0, sp, x, size, g, R)
  BY SpillIs
<1>3. /\ s \in Seq(Entries) /\ Holds(t0.pages, s, g.lo[p], g.hi[p], R)
  <2>1. Holds(t0.pages, s, g.lo[p], g.hi[p], R)
    BY <1>0, <1>1 DEF Contents
  <2> QED BY <2>1 DEF Holds
<1>4. /\ Fits(all) => r = [t |-> [t EXCEPT !.pages[p].rows = all], up |-> <<>>, bad |-> <<>>]
      /\ ~Fits(all) /\ (Overruns(left) \/ Overruns(right)) =>
            r = [t |-> t, up |-> <<>>, bad |-> <<[leaf |-> all, overflowing |-> o]>>]
      /\ ~Fits(all) /\ ~(Overruns(left) \/ Overruns(right)) =>
            r = [t |-> [t EXCEPT !.pages = SplitLeaf(t.pages, p, t.free, left, right), !.free = t.free + 1],
                 up |-> <<[key |-> right[1].id, page |-> t.free]>>, bad |-> <<>>]
  BY DEF IntoLeaf
<1> HIDE DEF r, sp
<1>5. /\ IsTree(t) /\ t.root = t0.root /\ t0.free <= t.free /\ e \in AnyEntries
  BY <1>2 DEF Spilled
<1>6. t.free \in Nat /\ t = [pages |-> t.pages, free |-> t.free, root |-> t.root]
  BY <1>5 DEF IsTree
<1>7. ASSUME t.free <= MaxPages + 1
      PROVE  /\ Stored(t, g, R) /\ LeafAt(t, g, p, x)
             /\ \A q \in PageNo : t0.pages[q].kind = "branch" => t.pages[q] = t0.pages[q]
             /\ Holds(t.pages, all, g.lo[p], g.hi[p], R2)
  <2>1. /\ Stored(t, g, R)
        /\ \A q \in PageNo : q < t0.free => t.pages[q] = t0.pages[q]
        /\ e \in Entries /\ e.id = x /\ Reassemble(t.pages, e) = size
        /\ e.first # 0 => t.pages[e.first].kind = "overflow"
    BY <1>2, <1>7 DEF Spilled
  <2>2. t.pages[p] = t0.pages[p]
    BY <1>1, <2>1
  <2>3. Whole(Space, t, g) /\ Contents(t.pages, g, R)
    BY <2>1 DEF Stored
  <2>4. LeafAt(t, g, p, x)
    BY <1>1, <2>2, <2>3, WholeIs DEF LeafAt
  <2>5. Holds(t.pages, s, g.lo[p], g.hi[p], R)
    BY <1>1, <2>2, <2>3 DEF Contents
  <2>6. RowIs(t.pages, e, g.lo[p], g.hi[p], R2)
    <3>1. g.lo[p] <= x /\ x < g.hi[p] /\ R2[x] = size /\ size # 0
      BY DEF LeafAt, Reaches
    <3> HIDE DEF t, e
    <3> QED BY <2>1, <3>1 DEF RowIs
  <2>7. R[e.id] = 0 /\ \A y \in Ids : y # e.id => R2[y] = R[y]
    BY <2>1
  <2> HIDE DEF s, t, e
  <2>8. Holds(t.pages, WithInsert(s, e), g.lo[p], g.hi[p], R2)
    BY <2>1, <2>5, <2>6, <2>7, HoldsInsert
  <2> QED BY <1>1, <2>1, <2>4, <2>8
<1>8. all \in Seq(AnyEntries)
  <2>1. Entries \subseteq AnyEntries
    BY SpaceIs DEF Entries, AnyEntries
  <2>2. s \in Seq(AnyEntries)
    BY <1>3, <2>1
  <2> HIDE DEF s, e
  <2> QED BY <1>5, <2>2, WithInsertIs
<1> HIDE DEF t, e, s, all
<1>9. \A y \in Ids : y # x => R2[y] = R[y]
  OBVIOUS
<1>10. CASE Fits(all)
  <2> DEFINE t2 == [t EXCEPT !.pages[p].rows = all]
  <2>1. r.t = t2 /\ r.up = <<>> /\ r.bad = <<>>
    BY <1>4, <1>10
  <2>2. IsTree(t2) /\ t2.free = t.free /\ t2.root = t.root
    BY <1>6 DEF IsTree
  <2>3. t2.pages = [t.pages EXCEPT ![p] = [t.pages[p] EXCEPT !.rows = all]]
    BY <1>6
  <2>4. ASSUME t.free <= MaxPages + 1 PROVE Stored(t2, g, R2)
    <3>1. t2 = RowsSet(t, p, all)
      BY DEF RowsSet
    <3> HIDE DEF t2
    <3> QED BY <1>7, <1>9, <2>4, <3>1, OneLeafWritten
  <2>5. ASSUME t.free <= MaxPages + 1, NEW q \in PageNo, t0.pages[q].kind = "branch"
        PROVE  t2.pages[q] = t0.pages[q]
    <3>1. q # p
      BY <1>1, <2>5
    <3> HIDE DEF t2
    <3> QED BY <1>7, <2>3, <2>5, <3>1
  <2> HIDE DEF t2
  <2>6. ~Outgrown(t2) => t.free <= MaxPages + 1
    BY <1>1, <1>6, <2>2 DEF Outgrown
  <2>7. LeafDone(t0, r, p, R2)
    BY <1>5, <2>1, <2>2, <2>4, <2>5, <2>6, NoneBad DEF LeafDone
  <2> QED BY <2>7 DEF r
<1>11. CASE ~Fits(all)
  <2>1. /\ mid \in 1 .. Len(all) - 1
        /\ o => NoCut(all) \/ (Fits(left) /\ Fits(right))
    <3> HIDE DEF o
    <3> QED BY <1>8, <1>11, SplitPointIs
  <2> HIDE DEF mid, o
  <2>2. CASE Overruns(left) \/ Overruns(right)
    <3>1. r.t = t /\ r.up = <<>> /\ r.bad = <<[leaf |-> all, overflowing |-> o]>>
      BY <1>4, <1>11, <2>2
    <3>2. o => NoCut(all)
      <4>1. Len(all) \in Nat /\ mid \in Nat
        BY <1>8, <2>1, SeqIsFunction
      <4>2. left \in Seq(AnyEntries) /\ right \in Seq(AnyEntries)
        BY <1>8, <2>1, <4>1, PartIs
      <4>3. ~Fits(left) \/ ~Fits(right)
        BY <2>2, <4>2, OverrunIs
      <4> QED BY <2>1, <4>3
    <3>3. o \in BOOLEAN
      BY DEF o
    <3>4. Explained(r.bad) /\ r.bad # <<>>
      BY <3>1, <3>2, <3>3, OneBad
    <3>5. LeafDone(t0, r, p, R2)
      BY <1>5, <3>1, <3>4 DEF LeafDone
    <3> QED BY <3>5 DEF r
  <2>3. CASE ~(Overruns(left) \/ Overruns(right))
    <3> DEFINE up == [key |-> right[1].id, page |-> t.free]
               Q == SplitLeaf(t.pages, p, t.free, left, right)
               t2 == [pages |-> Q, free |-> t.free + 1, root |-> t.root]
    <3>1. r.t = [t EXCEPT !.pages = Q, !.free = t.free + 1] /\ r.up = <<up>> /\ r.bad = <<>>
      <4>1. r = [t |-> [t EXCEPT !.pages = Q, !.free = t.free + 1], up |-> <<up>>, bad |-> <<>>]
        BY <1>4, <1>11, <2>3
      <4> HIDE DEF Q, up
      <4> QED BY <4>1
    <3>2. r.t = t2
      <4> HIDE DEF Q
      <4> QED BY <1>6, <3>1
    <3>3. IsTree(t2) /\ t2.free = t.free + 1 /\ t2.root = t.root
      BY <1>6 DEF IsTree
    <3>4. right[1] = all[mid + 1]
      <4>1. Len(all) \in Nat /\ mid + 1 \in Nat /\ 1 <= mid + 1 /\ mid + 1 <= Len(all) + 1 /\ Len(all) <= Len(all)
            /\ 1 \in 1 .. Len(all) - (mid + 1) + 1 /\ mid + 1 + 1 - 1 = mid + 1
        BY <1>8, <2>1, SeqIsFunction
      <4>2. \A i \in 1 .. Len(all) - (mid + 1) + 1 : right[i] = all[mid + 1 + i - 1]
        BY <1>8, <4>1, PartIs
      <4> QED BY <4>1, <4>2
    <3>5. CutInto(t, p, all, mid, t2, up)
      BY <3>4 DEF CutInto
    <3>6. r.up # <<>> /\ r.up[1] = up
      <4> HIDE DEF up
      <4> QED BY <3>1
    <3> HIDE DEF t2, up
    <3>7. ASSUME t.free + 1 <= MaxPages + 1
          PROVE  /\ \E g2 : Pending(Space, t2, g2, p, up) /\ Contents(t2.pages, g2, R2)
                 /\ \A q \in PageNo : t0.pages[q].kind = "branch" => t2.pages[q] = t0.pages[q]
      <4>1. t.free <= MaxPages + 1 /\ t.free <= MaxPages
        BY <1>1, <1>6, <3>7
      <4>2. /\ \E g2 : Pending(Space, t2, g2, p, up) /\ Contents(t2.pages, g2, R2)
            /\ \A q \in PageNo : t.pages[q].kind = "branch" => t2.pages[q] = t.pages[q]
        BY <1>7, <1>9, <2>1, <3>5, <4>1, LeafCut
      <4> QED BY <1>7, <4>1, <4>2
    <3>8. ~Outgrown(t2) => t.free + 1 <= MaxPages + 1
      BY <1>1, <1>6, <3>3 DEF Outgrown
    <3>9. t0.free <= t2.free
      BY <1>1, <1>5, <1>6, <3>3
    <3>10. LeafDone(t0, r, p, R2)
      BY <1>5, <3>1, <3>2, <3>3, <3>6, <3>7, <3>8, <3>9, NoneBad DEF LeafDone
    <3> QED BY <3>10 DEF r
  <2> QED BY <2>2, <2>3
<1> QED BY <1>10, <1>11

\* Branch splits leave the leaves and the chains alone.
LEMMA GrewContents ==
    ASSUME NEW t1, NEW g1, NEW R, Contents(t1.pages, g1, R), NEW t2, NEW g2, Grew(Space, t1, g1, t2, g2)
    PROVE  Contents(t2.pages, g2, R)
<1> DEFINE P == t1.pages
           Q == t2.pages
<1>1. PageNo = 1 .. MaxPages /\ Space.n = MaxPages /\ MaxPages \in Nat
  BY SpaceIs DEF PageNo
<1>2. /\ Plain(Space, Q) = Plain(Space, P)
      /\ \A x \in Plain(Space, P) : Q[x] = P[x] /\ g2.lo[x] = g1.lo[x] /\ g2.hi[x] = g1.hi[x]
  BY DEF Grew
<1>3. \A p \in PageNo : /\ P[p].kind \in {"leaf", "overflow"} => p \in Plain(Space, P)
                        /\ Q[p].kind \in {"leaf", "overflow"} => p \in Plain(Space, P)
  <2>1. \A p \in PageNo : /\ P[p].kind \in {"leaf", "overflow"} => p \in Plain(Space, P)
                          /\ Q[p].kind \in {"leaf", "overflow"} => p \in Plain(Space, Q)
    BY <1>1 DEF Plain
  <2> QED BY <1>2, <2>1
<1>4. ChainsDown(P) /\ \A p \in PageNo : P[p].kind = "leaf" =>
          P[p] = LeafPage(P[p].rows, P[p].prev, P[p].next) /\ Holds(P, P[p].rows, g1.lo[p], g1.hi[p], R)
  BY DEF Contents
<1> HIDE DEF P, Q
<1>5. \A p \in PageNo : P[p].kind = "overflow" => Q[p] = P[p]
  BY <1>2, <1>3
<1>6. ChainsDown(Q)
  <2>1. ASSUME NEW p \in PageNo, Q[p].kind = "overflow"
        PROVE  /\ Q[p].len \in Int /\ Q[p].next \in 0 .. p - 1
               /\ Q[p].next # 0 => Q[Q[p].next].kind = "overflow"
    <3>1. Q[p] = P[p]
      BY <1>2, <1>3, <2>1
    <3>2. P[p].len \in Int /\ P[p].next \in 0 .. p - 1 /\ (P[p].next # 0 => P[P[p].next].kind = "overflow")
      BY <1>4, <2>1, <3>1 DEF ChainsDown
    <3>3. P[p].next # 0 => P[p].next \in PageNo
      <4> DEFINE m == P[p].next
      <4>1. m \in 0 .. p - 1 /\ p \in 1 .. MaxPages
        BY <1>1, <3>2
      <4> HIDE DEF m
      <4>2. m # 0 => m \in 1 .. MaxPages
        BY <1>1, <4>1
      <4> QED BY <1>1, <4>2 DEF m
    <3> QED BY <1>5, <3>1, <3>2, <3>3
  <2> QED BY <2>1 DEF ChainsDown
<1>7. ASSUME NEW p \in PageNo, Q[p].kind = "leaf"
      PROVE  Q[p] = LeafPage(Q[p].rows, Q[p].prev, Q[p].next) /\ Holds(Q, Q[p].rows, g2.lo[p], g2.hi[p], R)
  <2>1. Q[p] = P[p] /\ g2.lo[p] = g1.lo[p] /\ g2.hi[p] = g1.hi[p]
    BY <1>2, <1>3, <1>7
  <2>2. P[p] = LeafPage(P[p].rows, P[p].prev, P[p].next) /\ Holds(P, P[p].rows, g1.lo[p], g1.hi[p], R)
    BY <1>4, <1>7, <2>1
  <2>3. Holds(Q, P[p].rows, g1.lo[p], g1.hi[p], R)
    BY <1>4, <1>5, <1>6, <2>2, HoldsElsewhere
  <2> QED BY <2>1, <2>2, <2>3
<1>8. Contents(Q, g2, R)
  BY <1>6, <1>7 DEF Contents
<1> QED BY <1>8 DEF Q

\* What a writer leaves behind.
Written(t, r, R) ==
    /\ r = [tree |-> r.tree, bad |-> r.bad, cut |-> r.cut]
    /\ IsTree(r.tree) /\ t.free <= r.tree.free
    /\ Explained(r.bad)
    /\ r.bad = <<>> /\ ~Outgrown(r.tree) => \E g : Stored(r.tree, g, R)

LEMMA TreeInsertIs ==
    ASSUME NEW t, NEW g, NEW R, Stored(t, g, R), NEW x \in Ids, R[x] = 0, NEW size \in Nat \ {0},
           NEW R2, \A y \in Ids : R2[y] = IF y = x THEN size ELSE R[y]
    PROVE  Written(t, TreeInsert(t, x, size), R2)
<1> DEFINE path == PathTo(t.pages, t.root, x)
           p == Last(path)
           leaf == IntoLeaf(t, p, x, size)
           slot == Slots(t, path, x)
           both == [t |-> leaf.t, up |-> leaf.up]
           grown == Grown(both, path, slot, MaxKeys)
           r == TreeInsert(t, x, size)
<1>0. Whole(Space, t, g) /\ Contents(t.pages, g, R)
  BY DEF Stored
<1>1. IsTree(t) /\ t.free \in Nat
  BY <1>0, WholeIs DEF IsTree
<1>2. /\ Route(Space, t, path, slot) /\ LeafAt(t, g, p, x) /\ p = path[Len(path)]
  <2>1. x \in Nat /\ x < MaxId + 2
    BY SpaceIs DEF Ids
  <2>2. Route(Space, t, path, slot) /\ LeafAt(t, g, LeafFor(t.pages, t.root, x), x)
    BY <1>0, <2>1, PathIs
  <2>3. p = LeafFor(t.pages, t.root, x) /\ p = path[Len(path)]
    BY DEF LeafFor, Last
  <2> QED BY <2>2, <2>3
<1>3. /\ leaf.bad # <<>> => r = [tree |-> t, bad |-> leaf.bad, cut |-> {}]
      /\ leaf.bad = <<>> => r = [tree |-> grown, bad |-> <<>>, cut |-> Torn(grown.pages)]
  BY DEF TreeInsert, Done, Slots
<1> HIDE DEF r, path
<1>4. LeafDone(t, leaf, p, R2)
  <2> HIDE DEF p
  <2> QED BY <1>2, IntoLeafIs
<1> HIDE DEF leaf, slot, p
<1>5. CASE leaf.bad # <<>>
  <2>1. r.tree = t /\ r.bad = leaf.bad /\ r = [tree |-> r.tree, bad |-> r.bad, cut |-> r.cut]
    BY <1>3, <1>5
  <2>2. Written(t, r, R2)
    BY <1>1, <1>4, <1>5, <2>1 DEF Written, LeafDone
  <2> QED BY <2>2 DEF r
<1>6. CASE leaf.bad = <<>>
  <2>1. r.tree = grown /\ r.bad = <<>> /\ r = [tree |-> r.tree, bad |-> r.bad, cut |-> r.cut]
    <3> HIDE DEF grown
    <3> QED BY <1>3, <1>6
  <2>2. both.t = leaf.t /\ both.up = leaf.up
    OBVIOUS
  <2>3. IsTree(leaf.t) /\ leaf.t.root = t.root /\ t.free <= leaf.t.free /\ leaf.t.free \in Nat
    BY <1>4 DEF LeafDone, IsTree
  <2>4. Len(path) \in Nat \ {0}
    BY <1>2 DEF Route
  <2> HIDE DEF both
  <2>5. IsTree(grown) /\ leaf.t.free <= grown.free /\ grown.free \in Nat
    <3>1. IsTree(grown) /\ both.t.free <= grown.free
      BY <2>2, <2>3, <2>4, GrownGrows
    <3> HIDE DEF grown
    <3> QED BY <2>2, <3>1 DEF IsTree
  <2>6. ASSUME ~Outgrown(grown) PROVE \E g2 : Stored(grown, g2, R2)
    <3>1. grown.free <= MaxPages + 1 /\ ~Outgrown(leaf.t)
      <4> HIDE DEF grown
      <4>1. MaxPages \in Nat
        BY SpaceIs
      <4> QED BY <2>3, <2>5, <2>6, <4>1 DEF Outgrown
    <3>2. /\ \A q \in PageNo : t.pages[q].kind = "branch" => leaf.t.pages[q] = t.pages[q]
          /\ \/ leaf.up = <<>> /\ \E g2 : Stored(leaf.t, g2, R2)
             \/ leaf.up # <<>> /\ \E g2 : Pending(Space, leaf.t, g2, p, leaf.up[1]) /\ Contents(leaf.t.pages, g2, R2)
      BY <1>4, <1>6, <3>1 DEF LeafDone
    <3>3. CASE leaf.up = <<>> /\ \E g2 : Stored(leaf.t, g2, R2)
      <4>1. grown = leaf.t
        BY <2>2, <2>3, <2>4, <3>3, GrownPlain
      <4> QED BY <3>3, <4>1
    <3>4. CASE leaf.up # <<>> /\ \E g2 : Pending(Space, leaf.t, g2, p, leaf.up[1]) /\ Contents(leaf.t.pages, g2, R2)
      <4>1. PICK g1 : Pending(Space, leaf.t, g1, p, leaf.up[1]) /\ Contents(leaf.t.pages, g1, R2)
        BY <3>4
      <4>2. Route(Space, both.t, path, slot)
        <5>1. /\ path \in Seq(PageNo) /\ path[1] = t.root
              /\ \A i, j \in 1 .. Len(path) : path[i] = path[j] => i = j
              /\ \A i \in 1 .. Len(path) - 1 : ChildAt(t.pages, path[i], slot[i], path[i + 1])
          BY <1>2, SpaceIs DEF Route, PageNo
        <5>2. ASSUME NEW i \in 1 .. Len(path) - 1 PROVE ChildAt(leaf.t.pages, path[i], slot[i], path[i + 1])
          <6>1. path[i] \in PageNo
            <7>1. i \in 1 .. Len(path)
              BY <2>4
            <7> QED BY <5>1, <7>1, SeqIsFunction
          <6>2. ChildAt(t.pages, path[i], slot[i], path[i + 1])
            BY <5>1
          <6> QED BY <3>2, <6>1, <6>2 DEF ChildAt
        <5> QED BY <2>2, <2>3, <2>4, <5>1, <5>2, SpaceIs DEF Route, PageNo
      <4>3. Pending(Space, both.t, g1, path[Len(path)], both.up[1]) /\ both.up # <<>>
        BY <1>2, <2>2, <3>4, <4>1
      <4>4. IsSpace(Space) /\ MaxKeys \in Nat \ {0} /\ grown.free <= Space.n + 1
        BY <3>1, SpaceIs
      <4>5. \E g2 : Whole(Space, grown, g2) /\ Grew(Space, both.t, g1, grown, g2)
        BY <4>2, <4>3, <4>4, GrownSplit
      <4>6. PICK g2 : Whole(Space, grown, g2) /\ Grew(Space, leaf.t, g1, grown, g2)
        BY <2>2, <4>5
      <4> HIDE DEF grown
      <4>7. Contents(grown.pages, g2, R2)
        BY <4>1, <4>6, GrewContents
      <4> QED BY <4>6, <4>7 DEF Stored
    <3> QED BY <3>2, <3>3, <3>4
  <2> HIDE DEF grown
  <2>7. t.free <= grown.free
    BY <1>1, <2>3, <2>5
  <2>8. Written(t, r, R2)
    BY <2>1, <2>5, <2>6, <2>7, NoneBad DEF Written
  <2> QED BY <2>8 DEF r
<1> QED BY <1>5, <1>6

\* Delete and insert again under the same id.
LEMMA TreeReplaceIs ==
    ASSUME NEW t, NEW g, NEW R, Stored(t, g, R), NEW x \in Ids, NEW size \in Nat \ {0},
           NEW R2, \A y \in Ids : R2[y] = IF y = x THEN size ELSE R[y]
    PROVE  Written(t, TreeReplace(t, x, size), R2)
<1> DEFINE d == TreeDelete(t, x)
           R1 == [y \in Ids |-> IF y = x THEN 0 ELSE R[y]]
<1>1. /\ \A y \in Ids : R1[y] = IF y = x THEN 0 ELSE R[y]
      /\ R1[x] = 0
  OBVIOUS
<1>2. \A y \in Ids : R2[y] = IF y = x THEN size ELSE R1[y]
  OBVIOUS
<1> HIDE DEF R1, d
<1>3. Stored(d, g, R1) /\ d.free = t.free
  BY <1>1, TreeDeleteIs DEF d
<1>4. Written(d, TreeInsert(d, x, size), R2)
  BY <1>1, <1>2, <1>3, TreeInsertIs
<1>5. TreeReplace(t, x, size) = TreeInsert(d, x, size)
  BY DEF TreeReplace, d
<1> QED BY <1>3, <1>4, <1>5 DEF Written

-----------------------------------------------------------------------------
(* update_where: the rows left to the caller are written one by one. *)

LEMMA AscendingIs ==
    ASSUME NEW S
    PROVE  /\ Ascending(S) \in Seq(Ids)
           /\ \A i, j \in 1 .. Len(Ascending(S)) : Ascending(S)[i] = Ascending(S)[j] => i = j
           /\ \A x \in Ids : x \in S <=> \E i \in 1 .. Len(Ascending(S)) : Ascending(S)[i] = x
           /\ \A i, j \in 1 .. Len(Ascending(S)) : i < j => Ascending(S)[i] < Ascending(S)[j]
           /\ Len(Ascending(S)) <= MaxId
<1> DEFINE all == [x \in Ids |-> x]
           a == Ascending(S)
<1>1. all \in Seq(Ids) /\ Len(all) = MaxId /\ MaxId \in Nat /\ \A x \in Ids : all[x] = x
  <2>1. MaxId \in Nat /\ Ids = 1 .. MaxId
    BY SpaceIs DEF Ids
  <2>2. all \in [1 .. MaxId -> Ids]
    BY <2>1
  <2>3. all \in Seq(Ids)
    BY <2>1, <2>2, FunctionIsSeq
  <2>4. \A x \in Ids : all[x] = x
    OBVIOUS
  <2>5. DOMAIN all = 1 .. MaxId
    BY <2>1
  <2> HIDE DEF all
  <2>6. Len(all) = MaxId
    <3>1. Len(all) \in Nat /\ DOMAIN all = 1 .. Len(all)
      BY <2>3, SeqIsFunction
    <3> QED BY <2>1, <2>5, <3>1
  <2> QED BY <2>1, <2>3, <2>4, <2>6
<1>2. a = Picked(all, S)
  BY DEF Ascending
<1> HIDE DEF all, a
<1>3. PICK at : a \in Seq(Ids) /\ PicksAt(a, all, S, at)
  BY <1>1, <1>2, PickedIs
<1>4. /\ at \in [1 .. Len(a) -> Ids] /\ Len(a) \in Nat
      /\ \A k \in 1 .. Len(a) : at[k] \in S /\ a[k] = all[at[k]]
      /\ \A j, k \in 1 .. Len(a) : j < k => at[j] < at[k]
      /\ \A i \in Ids : i \in S => \E k \in 1 .. Len(a) : at[k] = i
  BY <1>1, <1>3 DEF PicksAt, Ids
<1>5. \A k \in 1 .. Len(a) : at[k] \in Ids /\ a[k] = at[k] /\ at[k] \in Int
  <2>1. \A x \in Ids : x \in Int
    BY <1>1 DEF Ids
  <2> QED BY <1>1, <1>4, <2>1
<1>6. ASSUME NEW i \in 1 .. Len(a), NEW j \in 1 .. Len(a), a[i] = a[j] PROVE i = j
  <2>1. at[i] = at[j] /\ at[i] \in Int /\ i \in Int /\ j \in Int
    BY <1>5, <1>6
  <2>2. ~(i < j) /\ ~(j < i)
    BY <1>4, <2>1
  <2> QED BY <2>1, <2>2
<1>7. \A x \in Ids : x \in S <=> \E i \in 1 .. Len(a) : a[i] = x
  BY <1>4, <1>5
<1>8. a \in Seq(Ids)
  BY <1>3
<1>9. \A i, j \in 1 .. Len(a) : i < j => a[i] < a[j]
  BY <1>4, <1>5
<1>10. Len(a) <= MaxId
  <2>1. Len(Picked(all, S)) <= Len(all)
    BY <1>1, PickedFits
  <2> QED BY <1>1, <1>2, <2>1
<1> QED BY <1>6, <1>7, <1>8, <1>9, <1>10 DEF a

LEMMA MovedIs ==
    ASSUME NEW t, NEW g, Whole(Space, t, g), NEW S, NEW size
    PROVE  Moved(t, S, size) = Ascending(Left(t, S, size))
BY AllLeavesAre DEF Moved, Left

ReStep(t0, m, size, f, n) ==
    IF n = 0 THEN Done(t0)
    ELSE IF f[n - 1].bad # <<>> \/ Outgrown(f[n - 1].tree) THEN f[n - 1]
    ELSE [TreeReplace(f[n - 1].tree, m[n], size) EXCEPT !.cut = @ \cup (f[n - 1].cut \ {m[n]})]
IsRewriter(t0, m, size, f, k) == f = [n \in 0 .. k |-> ReStep(t0, m, size, f, n)]

LEMMA Rewriter ==
    ASSUME NEW t0, NEW m, NEW size, NEW k \in Nat
    PROVE  IsRewriter(t0, m, size, CHOOSE f : IsRewriter(t0, m, size, f, k), k)
<1> DEFINE Step(f, h) == ReStep(t0, m, size, f, h)
           Is(f, n) == IsRewriter(t0, m, size, f, n)
           Known == {n \in 0 .. k : \E f : Is(f, n)}
<1>1. 0 \in Known
  <2> DEFINE f == [h \in 0 .. 0 |-> Done(t0)]
  <2>1. \A h \in 0 .. 0 : f[h] = Step(f, h)
    BY DEF ReStep
  <2>2. f = [h \in 0 .. 0 |-> f[h]]
    OBVIOUS
  <2> HIDE DEF f
  <2>3. Is(f, 0)
    BY <2>1, <2>2 DEF IsRewriter
  <2> QED BY <2>3
<1>2. ASSUME NEW n \in 0 .. k - 1, n \in Known PROVE n + 1 \in Known
  <2>1. PICK f : Is(f, n)
    BY <1>2
  <2> DEFINE g == [h \in 0 .. n + 1 |-> IF h = n + 1 THEN Step(f, h) ELSE f[h]]
  <2>2. g = [h \in 0 .. n + 1 |-> g[h]] /\ \A h \in 0 .. n + 1 : g[h] = Step(f, h)
    BY <2>1 DEF IsRewriter
  <2>3. \A h \in 0 .. n : g[h] = f[h]
    OBVIOUS
  <2> HIDE DEF g
  <2>4. \A h \in 0 .. n + 1 : Step(g, h) = Step(f, h)
    <3> TAKE h \in 0 .. n + 1
    <3>1. CASE h = 0
      BY <3>1 DEF ReStep
    <3>2. CASE h # 0
      <4>1. g[h - 1] = f[h - 1]
        BY <2>3, <3>2
      <4> QED BY <3>2, <4>1 DEF ReStep
    <3> QED BY <3>1, <3>2
  <2>5. Is(g, n + 1)
    <3> HIDE DEF Step
    <3>1. g = [h \in 0 .. n + 1 |-> Step(g, h)]
      BY <2>2, <2>4
    <3> QED BY <3>1 DEF IsRewriter, Step
  <2> QED BY <2>5
<1> HIDE DEF Known
<1>3. k \in Known
  BY <1>1, <1>2, Upwards
<1> QED BY <1>3 DEF Known

\* The rows once the first n of m are rewritten.
Upto(R, S, m, size, n) ==
    [y \in Ids |-> IF y \in S /\ (\A j \in n + 1 .. Len(m) : m[j] # y) THEN size ELSE R[y]]

Once(m) == \A i, j \in 1 .. Len(m) : m[i] = m[j] => i = j
OneWritten(R2, R, x, size) == \A y \in Ids : R2[y] = IF y = x THEN size ELSE R[y]
LEMMA UptoNext ==
    ASSUME NEW R, NEW S, NEW m, m \in Seq(Ids), NEW size, NEW n, n \in 1 .. Len(m),
           Once(m), m[n] \in S
    PROVE  OneWritten(Upto(R, S, m, size, n), Upto(R, S, m, size, n - 1), m[n], size)
<1> SUFFICES ASSUME NEW y \in Ids
             PROVE  Upto(R, S, m, size, n)[y] = IF y = m[n] THEN size ELSE Upto(R, S, m, size, n - 1)[y]
  BY DEF OneWritten
<1>0. Len(m) \in Nat /\ n - 1 + 1 = n
  OBVIOUS
<1>1. Upto(R, S, m, size, n)[y] = IF y \in S /\ (\A j \in n + 1 .. Len(m) : m[j] # y) THEN size ELSE R[y]
  BY DEF Upto
<1>2. Upto(R, S, m, size, n - 1)[y] = IF y \in S /\ (\A j \in n .. Len(m) : m[j] # y) THEN size ELSE R[y]
  BY <1>0 DEF Upto
<1>3. \A j \in n .. Len(m) : j = n \/ j \in n + 1 .. Len(m)
  BY <1>0
<1>4. \A j \in n + 1 .. Len(m) : j \in n .. Len(m) /\ j \in 1 .. Len(m) /\ j # n
  BY <1>0
<1>5. CASE y = m[n]
  <2>1. \A j \in n + 1 .. Len(m) : m[j] # y
    BY <1>4, <1>5 DEF Once
  <2> QED BY <1>1, <1>5, <2>1
<1>6. CASE y # m[n]
  <2>1. (\A j \in n + 1 .. Len(m) : m[j] # y) <=> (\A j \in n .. Len(m) : m[j] # y)
    BY <1>3, <1>4, <1>6
  <2> QED BY <1>1, <1>2, <1>6, <2>1
<1> QED BY <1>5, <1>6

\* Which rows a checksum cut into is beside the tree.
LEMMA CutWritten ==
    ASSUME NEW t, NEW r, NEW R, Written(t, r, R), NEW c
    PROVE  Written(t, [r EXCEPT !.cut = c], R)
<1> DEFINE q == [r EXCEPT !.cut = c]
<1>1. r = [tree |-> r.tree, bad |-> r.bad, cut |-> r.cut]
  BY DEF Written
<1>2. q.tree = r.tree /\ q.bad = r.bad /\ q = [tree |-> q.tree, bad |-> q.bad, cut |-> q.cut]
  BY <1>1
<1> HIDE DEF q
<1>3. Written(t, q, R)
  BY <1>2 DEF Written
<1> QED BY <1>3 DEF q

\* update_where.
LEMMA TreeUpdateWhereIs ==
    ASSUME NEW t, NEW g, NEW R, Stored(t, g, R), NEW S, NEW size \in Nat \ {0},
           \A x \in Ids : x \in S => R[x] # 0
    PROVE  Written(t, TreeUpdateWhere(t, S, size), [y \in Ids |-> IF y \in S THEN size ELSE R[y]])
<1> DEFINE m == Moved(t, S, size)
           t0 == Patched(t, S, size)
           k == Len(m)
           f == CHOOSE f : IsRewriter(t0, m, size, f, k)
<1>0. Whole(Space, t, g)
  BY DEF Stored
<1>1. TreeUpdateWhere(t, S, size) = f[k]
  BY DEF TreeUpdateWhere, Patched, ReStep, IsRewriter
<1>2. /\ m \in Seq(Ids) /\ \A i, j \in 1 .. k : m[i] = m[j] => i = j
      /\ \A x \in Ids : x \in Left(t, S, size) <=> \E i \in 1 .. k : m[i] = x
  <2>1. m = Ascending(Left(t, S, size))
    BY <1>0, MovedIs
  <2> HIDE DEF m
  <2> QED BY <2>1, AscendingIs
<1>3. k \in Nat /\ \A i \in 1 .. k : m[i] \in Ids /\ m[i] \in S
  <2> HIDE DEF m
  <2>1. k \in Nat /\ \A i \in 1 .. k : m[i] \in Ids
    BY <1>2, SeqIsFunction
  <2>2. \A x \in Left(t, S, size) : x \in S
    BY DEF Left
  <2> QED BY <1>2, <2>1, <2>2
<1> HIDE DEF m, t0
<1>4. IsRewriter(t0, m, size, f, k)
  <2> HIDE DEF k
  <2> QED BY <1>3, Rewriter
<1> HIDE DEF k, f
<1>5. \A n \in 0 .. k : f[n] = ReStep(t0, m, size, f, n)
  BY <1>4 DEF IsRewriter
<1> DEFINE U(n) == Upto(R, S, m, size, n)
           Good == {n \in 0 .. k : Written(t, f[n], U(n))}
<1>6. 0 \in Good
  <2>1. \A y \in Ids : U(0)[y] = IF y \in S \ Left(t, S, size) THEN size ELSE R[y]
    <3> TAKE y \in Ids
    <3>1. U(0)[y] = IF y \in S /\ (\A j \in 0 + 1 .. k : m[j] # y) THEN size ELSE R[y]
      BY DEF Upto, k
    <3>2. 0 + 1 = 1
      OBVIOUS
    <3>3. y \in Left(t, S, size) <=> \E i \in 1 .. k : m[i] = y
      BY <1>2 DEF k
    <3> HIDE DEF U
    <3> QED BY <3>1, <3>2, <3>3
  <2> HIDE DEF U
  <2>2. Stored(t0, g, U(0)) /\ t0.free = t.free
    BY <2>1, PatchedIs DEF t0
  <2>3. IsTree(t0) /\ t.free \in Nat
    <3>1. Whole(Space, t0, g)
      BY <2>2 DEF Stored
    <3> QED BY <1>0, <3>1, WholeIs DEF IsTree
  <2>4. 0 \in 0 .. k
    BY <1>3 DEF k
  <2>5. f[0].tree = t0 /\ f[0].bad = <<>> /\ f[0] = [tree |-> f[0].tree, bad |-> f[0].bad, cut |-> f[0].cut]
    <3> DEFINE d == Done(t0)
    <3>1. f[0] = ReStep(t0, m, size, f, 0)
      BY <1>5, <2>4
    <3>2. f[0] = d
      BY <3>1 DEF ReStep
    <3>3. d.tree = t0 /\ d.bad = <<>> /\ d = [tree |-> d.tree, bad |-> d.bad, cut |-> d.cut]
      BY DEF Done
    <3> HIDE DEF d
    <3> QED BY <3>2, <3>3
  <2>6. Written(t, f[0], U(0))
    BY <2>2, <2>3, <2>5, NoneBad DEF Written
  <2> QED BY <2>4, <2>6
<1>7. ASSUME NEW n \in 0 .. k - 1, n \in Good PROVE n + 1 \in Good
  <2>0. n + 1 \in 0 .. k /\ n + 1 \in 1 .. k /\ n + 1 # 0 /\ n + 1 - 1 = n
    BY <1>3 DEF k
  <2>1. Written(t, f[n], U(n))
    BY <1>7
  <2> DEFINE re == TreeReplace(f[n].tree, m[n + 1], size)
             c == re.cut \cup (f[n].cut \ {m[n + 1]})
  <2>2. f[n + 1] = IF f[n].bad # <<>> \/ Outgrown(f[n].tree) THEN f[n] ELSE [re EXCEPT !.cut = c]
    BY <1>5, <2>0 DEF ReStep
  <2>3. \A y \in Ids : U(n + 1)[y] = IF y = m[n + 1] THEN size ELSE U(n)[y]
    <3> DEFINE n1 == n + 1
    <3>1. n1 \in 1 .. Len(m) /\ m[n1] \in S /\ n1 - 1 = n
      BY <1>3, <2>0 DEF k
    <3>2. Once(m)
      BY <1>2 DEF k, Once
    <3>3. m \in Seq(Ids)
      BY <1>2
    <3> HIDE DEF n1
    <3>4. OneWritten(Upto(R, S, m, size, n1), Upto(R, S, m, size, n1 - 1), m[n1], size)
      BY <3>1, <3>2, <3>3, UptoNext
    <3> QED BY <3>1, <3>4 DEF n1, OneWritten
  <2> HIDE DEF U, Good
  <2>4. CASE f[n].bad # <<>> \/ Outgrown(f[n].tree)
    <3>1. Written(t, f[n + 1], U(n + 1))
      BY <2>1, <2>2, <2>4 DEF Written
    <3> QED BY <2>0, <3>1 DEF Good
  <2>5. CASE ~(f[n].bad # <<>> \/ Outgrown(f[n].tree))
    <3>1. PICK g1 : Stored(f[n].tree, g1, U(n))
      BY <2>1, <2>5 DEF Written
    <3>2. m[n + 1] \in Ids
      BY <1>3, <2>0
    <3>3. Written(f[n].tree, re, U(n + 1))
      BY <2>3, <3>1, <3>2, TreeReplaceIs
    <3> HIDE DEF re, c
    <3>4. Written(f[n].tree, f[n + 1], U(n + 1))
      <4>1. f[n + 1] = [re EXCEPT !.cut = c]
        BY <2>2, <2>5
      <4> QED BY <3>3, <4>1, CutWritten
    <3>5. t.free \in Nat /\ f[n].tree.free \in Nat /\ f[n + 1].tree.free \in Nat
          /\ t.free <= f[n].tree.free /\ f[n].tree.free <= f[n + 1].tree.free
      BY <1>0, <2>1, <3>4, WholeIs DEF Written, IsTree
    <3>6. t.free <= f[n + 1].tree.free
      BY <3>5
    <3>7. Written(t, f[n + 1], U(n + 1))
      BY <3>4, <3>6 DEF Written
    <3> QED BY <2>0, <3>7 DEF Good
  <2> QED BY <2>4, <2>5
<1> HIDE DEF Good
<1>8. k \in Good
  <2>1. k \in Nat /\ 0 \in Nat
    BY <1>3 DEF k
  <2>2. \A n \in 0 .. k : n \in Good
    BY <1>6, <1>7, <2>1, Upwards
  <2> QED BY <2>1, <2>2
<1>9. U(k) = [y \in Ids |-> IF y \in S THEN size ELSE R[y]]
  <2>1. \A j : j \notin k + 1 .. k
    BY <1>3 DEF k
  <2>2. U(k) = [y \in Ids |-> IF y \in S /\ (\A j \in k + 1 .. k : m[j] # y) THEN size ELSE R[y]]
    BY DEF Upto, k
  <2> HIDE DEF U
  <2> QED BY <2>1, <2>2
<1>10. Written(t, f[k], U(k))
  BY <1>8 DEF Good
<1> HIDE DEF U
<1> QED BY <1>1, <1>9, <1>10 DEF f

-----------------------------------------------------------------------------
(* The index of the rows: one key for each. *)

KeysOf(R) == {<<R[x], x>> : x \in {y \in Ids : R[y] # 0}}
HasKeysOf(u, R) == \A x \in Ids : R[x] # 0 => <<R[x], x>> \in u.keys

LEMMA KeysOfIs ==
    ASSUME NEW R, NEW v, NEW x
    PROVE  <<v, x>> \in KeysOf(R) <=> x \in Ids /\ R[x] # 0 /\ v = R[x]
BY DEF KeysOf

\* One row's old key out, its new key in.
Dropped(t, R, x) == IF R[x] = 0 THEN t ELSE IndexDelete(t, <<R[x], x>>)
Added(t, R, x) == IF R[x] = 0 THEN t ELSE IndexInsert(t, <<R[x], x>>)
LEMMA RowReindexed ==
    ASSUME NEW u, NEW R1, NEW R2, NEW t, NEW g, Filed(u, t, g, KeysOf(R1)), HasKeysOf(u, R1), HasKeysOf(u, R2),
           NEW x \in Ids, \A y \in Ids : y # x => R2[y] = R1[y],
           ~IndexOutgrown(Added(Dropped(t, R1, x), R2, x))
    PROVE  \E g2 : Filed(u, Added(Dropped(t, R1, x), R2, x), g2, KeysOf(R2))
<1> DEFINE d == Dropped(t, R1, x)
           K == {k \in KeysOf(R1) : k # <<R1[x], x>>}
<1>1. \A k \in KeysOf(R1) : k = <<R1[k[2]], k[2]>> /\ k[2] \in Ids /\ R1[k[2]] # 0
  BY DEF KeysOf
<1>2. \A k \in KeysOf(R2) : k = <<R2[k[2]], k[2]>> /\ k[2] \in Ids /\ R2[k[2]] # 0
  BY DEF KeysOf
<1>3. Filed(u, d, g, K)
  <2>1. CASE R1[x] = 0
    <3>1. <<R1[x], x>> \notin KeysOf(R1)
      BY <2>1, KeysOfIs
    <3>2. K = KeysOf(R1) /\ d = t
      BY <2>1, <3>1 DEF Dropped
    <3> QED BY <3>2
  <2>2. CASE R1[x] # 0
    <3> DEFINE k == <<R1[x], x>>
    <3>1. k \in u.keys /\ d = IndexDelete(t, k) /\ K = KeysOf(R1) \ {k}
      BY <2>2 DEF HasKeysOf, Dropped
    <3> HIDE DEF k, d, K
    <3> QED BY <3>1, IndexDeleteIs
  <2> QED BY <2>1, <2>2
<1>4. \A k : k \in K <=> k \in KeysOf(R2) /\ k[2] # x
  <2>1. ASSUME NEW k, k \in K PROVE k \in KeysOf(R2) /\ k[2] # x
    <3>1. k = <<R1[k[2]], k[2]>> /\ k[2] \in Ids /\ R1[k[2]] # 0 /\ k # <<R1[x], x>>
      BY <1>1, <2>1
    <3>2. k[2] # x
      BY <3>1
    <3>3. R2[k[2]] = R1[k[2]]
      BY <3>1, <3>2
    <3>4. <<R2[k[2]], k[2]>> \in KeysOf(R2)
      BY <3>1, <3>3, KeysOfIs
    <3> QED BY <3>1, <3>2, <3>3, <3>4
  <2>2. ASSUME NEW k, k \in KeysOf(R2), k[2] # x PROVE k \in K
    <3>1. k = <<R2[k[2]], k[2]>> /\ k[2] \in Ids /\ R2[k[2]] # 0
      BY <1>2, <2>2
    <3>2. R2[k[2]] = R1[k[2]]
      BY <2>2, <3>1
    <3>3. <<R1[k[2]], k[2]>> \in KeysOf(R1)
      BY <3>1, <3>2, KeysOfIs
    <3>4. k # <<R1[x], x>>
      BY <2>2
    <3> QED BY <3>1, <3>2, <3>3, <3>4
  <2> QED BY <2>1, <2>2
<1> HIDE DEF d, K
<1>5. CASE R2[x] = 0
  <2>1. \A k \in KeysOf(R2) : k[2] # x
    BY <1>2, <1>5
  <2>2. K = KeysOf(R2)
    BY <1>4, <2>1
  <2>3. Added(d, R2, x) = d
    BY <1>5 DEF Added
  <2> QED BY <1>3, <2>2, <2>3 DEF d
<1>6. CASE R2[x] # 0
  <2> DEFINE k == <<R2[x], x>>
  <2>1. k \in u.keys /\ Added(d, R2, x) = IndexInsert(d, k) /\ k[2] = x /\ k \in KeysOf(R2)
    BY <1>6, KeysOfIs DEF HasKeysOf, Added
  <2>2. k \notin K
    BY <1>4, <2>1
  <2>3. \A j \in KeysOf(R2) : j[2] = x => j = k
    BY <1>2
  <2> HIDE DEF k
  <2>4. K \cup {k} = KeysOf(R2)
    BY <1>4, <2>1, <2>3
  <2>5. IndexInsert(d, k).free <= IndexPages + 1
    <3>1. IsTree(IndexInsert(d, k))
      BY <1>3, <2>1, <2>2, IndexInsertIs
    <3>2. IndexInsert(d, k).free \in Nat /\ IndexPages \in Nat
      BY <3>1, IndexIs DEF IsTree
    <3>3. ~(IndexInsert(d, k).free > IndexPages + 1)
      BY <2>1 DEF IndexOutgrown, d
    <3> QED BY <3>2, <3>3
  <2>6. \E g2 : Filed(u, IndexInsert(d, k), g2, K \cup {k})
    BY <1>3, <2>1, <2>2, <2>5, IndexInsertIs
  <2> QED BY <2>1, <2>4, <2>6 DEF d
<1> QED BY <1>5, <1>6

ReindexStep(t0, R, R2, m, f, n) ==
    IF n = 0 THEN t0
    ELSE IF IndexOutgrown(f[n - 1]) THEN f[n - 1]
    ELSE Added(Dropped(f[n - 1], R, m[n]), R2, m[n])
IsReindexer(t0, R, R2, m, f, k) == f = [n \in 0 .. k |-> ReindexStep(t0, R, R2, m, f, n)]

LEMMA Reindexer ==
    ASSUME NEW t0, NEW R, NEW R2, NEW m, NEW k \in Nat
    PROVE  IsReindexer(t0, R, R2, m, CHOOSE f : IsReindexer(t0, R, R2, m, f, k), k)
<1> DEFINE Step(f, h) == ReindexStep(t0, R, R2, m, f, h)
           Is(f, n) == IsReindexer(t0, R, R2, m, f, n)
           Known == {n \in 0 .. k : \E f : Is(f, n)}
<1>1. 0 \in Known
  <2> DEFINE f == [h \in 0 .. 0 |-> t0]
  <2>1. \A h \in 0 .. 0 : f[h] = Step(f, h)
    BY DEF ReindexStep
  <2>2. f = [h \in 0 .. 0 |-> f[h]]
    OBVIOUS
  <2> HIDE DEF f
  <2>3. Is(f, 0)
    BY <2>1, <2>2 DEF IsReindexer
  <2> QED BY <2>3
<1>2. ASSUME NEW n \in 0 .. k - 1, n \in Known PROVE n + 1 \in Known
  <2>1. PICK f : Is(f, n)
    BY <1>2
  <2> DEFINE g == [h \in 0 .. n + 1 |-> IF h = n + 1 THEN Step(f, h) ELSE f[h]]
  <2>2. g = [h \in 0 .. n + 1 |-> g[h]] /\ \A h \in 0 .. n + 1 : g[h] = Step(f, h)
    BY <2>1 DEF IsReindexer
  <2>3. \A h \in 0 .. n : g[h] = f[h]
    OBVIOUS
  <2> HIDE DEF g
  <2>4. \A h \in 0 .. n + 1 : Step(g, h) = Step(f, h)
    <3> TAKE h \in 0 .. n + 1
    <3>1. CASE h = 0
      BY <3>1 DEF ReindexStep
    <3>2. CASE h # 0
      <4>1. g[h - 1] = f[h - 1]
        BY <2>3, <3>2
      <4> QED BY <3>2, <4>1 DEF ReindexStep
    <3> QED BY <3>1, <3>2
  <2>5. Is(g, n + 1)
    <3> HIDE DEF Step
    <3>1. g = [h \in 0 .. n + 1 |-> Step(g, h)]
      BY <2>2, <2>4
    <3> QED BY <3>1 DEF IsReindexer, Step
  <2> QED BY <2>5
<1> HIDE DEF Known
<1>3. k \in Known
  BY <1>1, <1>2, Upwards
<1> QED BY <1>3 DEF Known

\* The rows once those of the first n places of m are as in R2.
Turned(R, R2, m, n) == [y \in Ids |-> IF \E j \in 1 .. n : m[j] = y THEN R2[y] ELSE R[y]]
\* m names each row that changed, and no row twice.
Touches(m, R, R2) ==
    m \in Seq(Ids) /\ Once(m) /\ \A y \in Ids : R2[y] # R[y] => \E j \in 1 .. Len(m) : m[j] = y

LEMMA TurnedNext ==
    ASSUME NEW R, NEW R2, NEW m, Touches(m, R, R2), NEW n, n \in 1 .. Len(m)
    PROVE  /\ Turned(R, R2, m, n)[m[n]] = R2[m[n]] /\ Turned(R, R2, m, n - 1)[m[n]] = R[m[n]]
           /\ \A y \in Ids : y # m[n] => Turned(R, R2, m, n)[y] = Turned(R, R2, m, n - 1)[y]
<1>1. m \in Seq(Ids) /\ Len(m) \in Nat /\ m[n] \in Ids /\ n \in Nat /\ 1 <= n /\ n <= Len(m)
  BY SeqIsFunction DEF Touches
<1>2. n \in 1 .. n /\ \A j \in 1 .. n - 1 : j \in 1 .. Len(m) /\ j \in 1 .. n /\ j # n
  BY <1>1
<1>3. \A j \in 1 .. n : j = n \/ j \in 1 .. n - 1
  BY <1>1
<1>4. \A j \in 1 .. n - 1 : m[j] # m[n]
  BY <1>2 DEF Touches, Once
<1>5. Turned(R, R2, m, n)[m[n]] = R2[m[n]]
  BY <1>1, <1>2 DEF Turned
<1>6. Turned(R, R2, m, n - 1)[m[n]] = R[m[n]]
  BY <1>1, <1>4 DEF Turned
<1>7. ASSUME NEW y \in Ids, y # m[n] PROVE Turned(R, R2, m, n)[y] = Turned(R, R2, m, n - 1)[y]
  <2>1. (\E j \in 1 .. n : m[j] = y) <=> (\E j \in 1 .. n - 1 : m[j] = y)
    BY <1>2, <1>3, <1>7
  <2> QED BY <2>1 DEF Turned
<1> QED BY <1>5, <1>6, <1>7

LEMMA ReindexedKeeps ==
    ASSUME NEW u, NEW t0, NEW R, NEW R2, NEW m, Touches(m, R, R2), NEW g, Filed(u, t0, g, KeysOf(R)),
           HasKeysOf(u, R), HasKeysOf(u, R2), NEW f, IsReindexer(t0, R, R2, m, f, Len(m)), ~IndexOutgrown(f[Len(m)])
    PROVE  \E g2 : Filed(u, f[Len(m)], g2, KeysOf(R2))
<1> DEFINE k == Len(m)
           T(n) == Turned(R, R2, m, n)
           Fine(n) == IndexOutgrown(f[n]) \/ \E h : Filed(u, f[n], h, KeysOf(T(n)))
           Good == {n \in 0 .. k : Fine(n)}
<1>1. k \in Nat /\ m \in Seq(Ids) /\ \A i \in 1 .. k : m[i] \in Ids
  BY SeqIsFunction DEF Touches
<1>2. \A n \in 0 .. k : f[n] = ReindexStep(t0, R, R2, m, f, n)
  BY DEF IsReindexer
<1>3. \A n \in 0 .. k : HasKeysOf(u, T(n))
  BY DEF HasKeysOf, Turned
<1>4. 0 \in Good
  <2>1. 0 \in 0 .. k
    BY <1>1
  <2>2. f[0] = ReindexStep(t0, R, R2, m, f, 0)
    BY <1>2, <2>1
  <2>3. f[0] = t0
    BY <2>2 DEF ReindexStep
  <2>4. KeysOf(T(0)) = KeysOf(R)
    <3>1. \A y \in Ids : T(0)[y] = R[y]
      BY DEF Turned
    <3> HIDE DEF T
    <3> QED BY <3>1 DEF KeysOf
  <2> QED BY <2>1, <2>3, <2>4
<1>5. ASSUME NEW n \in 0 .. k - 1, n \in Good PROVE n + 1 \in Good
  <2> DEFINE n1 == n + 1
             x == m[n1]
  <2>1. n1 \in 0 .. k /\ n1 \in 1 .. k /\ n1 # 0 /\ n1 - 1 = n /\ n \in 0 .. k
    BY <1>1
  <2>2. f[n1] = ReindexStep(t0, R, R2, m, f, n1)
    BY <1>2, <2>1
  <2>3. f[n1] = IF IndexOutgrown(f[n]) THEN f[n] ELSE Added(Dropped(f[n], R, x), R2, x)
    BY <2>1, <2>2 DEF ReindexStep
  <2> HIDE DEF n1
  <2>4. x \in Ids /\ T(n1)[x] = R2[x] /\ T(n)[x] = R[x] /\ \A y \in Ids : y # x => T(n1)[y] = T(n)[y]
    BY <1>1, <2>1, TurnedNext
  <2>5. HasKeysOf(u, T(n)) /\ HasKeysOf(u, T(n1))
    BY <1>3, <2>1
  <2>6. Fine(n1)
    <3>1. CASE IndexOutgrown(f[n]) \/ IndexOutgrown(f[n1])
      BY <2>3, <3>1
    <3>2. CASE ~IndexOutgrown(f[n]) /\ ~IndexOutgrown(f[n1])
      <4>1. PICK h : Filed(u, f[n], h, KeysOf(T(n)))
        BY <1>5, <3>2
      <4> HIDE DEF T, x
      <4>2. f[n1] = Added(Dropped(f[n], T(n), x), T(n1), x)
        BY <2>3, <2>4, <3>2 DEF Added, Dropped
      <4>3. \E h2 : Filed(u, Added(Dropped(f[n], T(n), x), T(n1), x), h2, KeysOf(T(n1)))
        <5>1. ~IndexOutgrown(Added(Dropped(f[n], T(n), x), T(n1), x))
          BY <3>2, <4>2
        <5> QED BY <2>4, <2>5, <4>1, <5>1, RowReindexed
      <4> QED BY <4>2, <4>3
    <3> QED BY <3>1, <3>2
  <2> HIDE DEF Fine
  <2>7. n1 \in Good
    BY <2>1, <2>6
  <2> QED BY <2>7 DEF n1
<1> HIDE DEF Good
<1>6. k \in Good
  <2>1. k \in Nat /\ 0 \in Nat
    BY <1>1
  <2> HIDE DEF k
  <2>2. \A n \in 0 .. k : n \in Good
    BY <1>4, <1>5, <2>1, Upwards
  <2>3. k \in 0 .. k
    BY <2>1
  <2> QED BY <2>2, <2>3
<1>7. KeysOf(T(k)) = KeysOf(R2)
  <2>1. \A y \in Ids : T(k)[y] = R2[y]
    BY DEF Turned, Touches
  <2> HIDE DEF T
  <2> QED BY <2>1 DEF KeysOf
<1>8. Fine(k)
  BY <1>6 DEF Good
<1> HIDE DEF T
<1> QED BY <1>7, <1>8

-----------------------------------------------------------------------------
(* The invariant. *)

\* The paging client, once it has started.
Paging(s) ==
    /\ s = [at |-> s.at, dir |-> s.dir, limit |-> s.limit, keep |-> s.keep,
            after |-> s.after, seen |-> s.seen, must |-> s.must]
    /\ s.at \in {"open", "done"}

\* Row x is of a size of this workload, or absent.
RowsOK == load \in Workloads /\ rows \in [Ids -> load.sizes \cup {0}]
ScanOK == scan = NoScan \/ Paging(scan)
\* The pages are a tree over all ids whose leaves hold the rows.
Sound == \E g : Stored(Tree, g, rows)

\* The index, if the table has one, is a tree over the possible keys whose
\* leaves hold one key for each row.
Keyed == KeySpace(load.sizes \X (0 .. MaxId))
IndexSound == Indexed => \E g : Filed(Keyed, index, g, KeysOf(rows))

\* Only rows of the table count as altered.
AlteredOK == altered \subseteq Ids /\ \A x \in altered : rows[x] # 0

IInv == RowsOK /\ ScanOK /\ Sound /\ IndexSound /\ Explained(panicked) /\ AlteredOK

LEMMA LoadIs ==
    ASSUME RowsOK
    PROVE  /\ load.ids \subseteq Ids /\ load.sizes \subseteq Nat \ {0}
           /\ \A x \in Ids : rows[x] \in load.sizes \cup {0}
BY SpaceAssumption DEF RowsOK

LEMMA KeyedIs ==
    ASSUME load \in Workloads
    PROVE  IsKeySpace(Keyed) /\ Keyed.keys = load.sizes \X (0 .. MaxId)
<1>1. MaxId \in Nat /\ load.sizes \subseteq Nat /\ IsFiniteSet(load.sizes)
  BY SpaceAssumption
<1>2. IsFiniteSet(0 .. MaxId)
  BY <1>1, FS_Interval
<1>3. IsFiniteSet(load.sizes \X (0 .. MaxId))
  BY <1>1, <1>2, FS_Product
<1>4. load.sizes \X (0 .. MaxId) \subseteq Nat \X Nat
  BY <1>1
<1> QED BY <1>3, <1>4, KeySpaceIs DEF Keyed

LEMMA KeyedKeys ==
    ASSUME load \in Workloads, NEW R, R \in [Ids -> load.sizes \cup {0}]
    PROVE  HasKeysOf(Keyed, R) /\ KeysOf(R) \subseteq Keyed.keys
<1>1. Keyed.keys = load.sizes \X (0 .. MaxId) /\ Ids \subseteq 0 .. MaxId
  BY KeyedIs, SpaceIs DEF Ids
<1>2. \A x \in Ids : R[x] # 0 => R[x] \in load.sizes /\ x \in 0 .. MaxId
  BY <1>1
<1>3. \A x \in Ids : R[x] # 0 => <<R[x], x>> \in Keyed.keys
  BY <1>1, <1>2
<1> QED BY <1>3 DEF HasKeysOf, KeysOf

\* index_update_row for each row touched.
LEMMA ReindexedIs ==
    ASSUME RowsOK, IndexSound, NEW present, present \in [Ids -> load.sizes \cup {0}],
           NEW touched, Touches(touched, rows, present), ~IndexOutgrown(Reindexed(present, touched)), Indexed
    PROVE  \E g : Filed(Keyed, Reindexed(present, touched), g, KeysOf(present))
<1> DEFINE k == Len(touched)
           f == CHOOSE f : IsReindexer(index, rows, present, touched, f, k)
<1>1. PICK g : Filed(Keyed, index, g, KeysOf(rows))
  BY DEF IndexSound
<1>2. HasKeysOf(Keyed, rows) /\ HasKeysOf(Keyed, present)
  BY KeyedKeys DEF RowsOK
<1>3. Reindexed(present, touched) = f[k]
  BY DEF Reindexed, IsReindexer, ReindexStep, Added, Dropped
<1>4. k \in Nat
  BY SeqIsFunction DEF Touches
<1>5. IsReindexer(index, rows, present, touched, f, k)
  <2> HIDE DEF k
  <2> QED BY <1>4, Reindexer
<1> HIDE DEF f
<1>6. ~IndexOutgrown(f[k])
  BY <1>3
<1>7. \E g2 : Filed(Keyed, f[k], g2, KeysOf(present))
  BY <1>1, <1>2, <1>5, <1>6, ReindexedKeeps
<1> QED BY <1>3, <1>7

LEMMA OneTouched ==
    ASSUME NEW x \in Ids, NEW R, NEW R2, \A y \in Ids : y # x => R2[y] = R[y]
    PROVE  Touches(<<x>>, R, R2)
<1> DEFINE m == <<x>>
<1>1. m \in Seq(Ids) /\ Len(m) = 1 /\ m[1] = x /\ 1 \in 1 .. 1
  OBVIOUS
<1> HIDE DEF m
<1>2. Once(m)
  <2>1. \A i \in 1 .. 1 : i = 1
    OBVIOUS
  <2> QED BY <1>1, <2>1 DEF Once
<1>3. Touches(m, R, R2)
  BY <1>1, <1>2 DEF Touches
<1> QED BY <1>3 DEF m

LEMMA AllTouched ==
    ASSUME NEW S, NEW R, NEW R2, \A y \in Ids : y \notin S => R2[y] = R[y]
    PROVE  Touches(Ascending(S), R, R2)
<1> DEFINE m == Ascending(S)
<1>1. /\ m \in Seq(Ids) /\ \A i, j \in 1 .. Len(m) : m[i] = m[j] => i = j
      /\ \A x \in Ids : x \in S <=> \E i \in 1 .. Len(m) : m[i] = x
  BY AscendingIs
<1> HIDE DEF m
<1>2. Touches(m, R, R2)
  BY <1>1 DEF Touches, Once
<1> QED BY <1>2 DEF m

\* Rows patched in place first, then those that moved.
LEMMA BothTouched ==
    ASSUME NEW S, NEW L, NEW R, NEW R2, \A y \in Ids : y \notin S => R2[y] = R[y]
    PROVE  Touches(Ascending(S \ ToSet(Ascending(L))) \o Ascending(L), R, R2)
<1> DEFINE b == Ascending(L)
           a == Ascending(S \ ToSet(b))
           m == a \o b
<1>1. /\ b \in Seq(Ids) /\ \A i, j \in 1 .. Len(b) : b[i] = b[j] => i = j
      /\ \A x \in Ids : x \in L <=> \E i \in 1 .. Len(b) : b[i] = x
  BY AscendingIs
<1>2. /\ a \in Seq(Ids) /\ \A i, j \in 1 .. Len(a) : a[i] = a[j] => i = j
      /\ \A x \in Ids : x \in S \ ToSet(b) <=> \E i \in 1 .. Len(a) : a[i] = x
  BY AscendingIs
<1> HIDE DEF a, b
<1>3. Len(a) \in Nat /\ Len(b) \in Nat /\ \A i \in 1 .. Len(a) : a[i] \in Ids
  BY <1>1, <1>2, SeqIsFunction
<1>4. /\ m \in Seq(Ids) /\ Len(m) = Len(a) + Len(b)
      /\ \A i \in 1 .. Len(a) : m[i] = a[i]
      /\ \A i \in 1 .. Len(b) : m[Len(a) + i] = b[i]
  BY <1>1, <1>2, <1>3
<1>5. \A x : x \in ToSet(b) <=> \E i \in 1 .. Len(b) : b[i] = x
  <2>1. DOMAIN b = 1 .. Len(b)
    BY <1>1
  <2> QED BY <2>1 DEF ToSet
<1>6. \A i \in 1 .. Len(a), j \in 1 .. Len(b) : a[i] # b[j]
  BY <1>2, <1>3, <1>5
<1> HIDE DEF m
<1>7. \A i \in 1 .. Len(m) : \/ i \in 1 .. Len(a) /\ m[i] = a[i]
                             \/ i - Len(a) \in 1 .. Len(b) /\ m[i] = b[i - Len(a)]
  <2> TAKE i \in 1 .. Len(m)
  <2>1. CASE i <= Len(a)
    BY <1>3, <1>4, <2>1
  <2>2. CASE ~(i <= Len(a))
    <3>1. i - Len(a) \in 1 .. Len(b) /\ Len(a) + (i - Len(a)) = i
      BY <1>3, <1>4, <2>2
    <3> QED BY <1>4, <3>1
  <2> QED BY <2>1, <2>2
<1>8. Once(m)
  <2> SUFFICES ASSUME NEW i \in 1 .. Len(m), NEW j \in 1 .. Len(m), m[i] = m[j] PROVE i = j
    BY DEF Once
  <2>1. CASE i \in 1 .. Len(a) /\ m[i] = a[i] /\ j \in 1 .. Len(a) /\ m[j] = a[j]
    BY <1>2, <2>1
  <2>2. CASE /\ i - Len(a) \in 1 .. Len(b) /\ m[i] = b[i - Len(a)]
             /\ j - Len(a) \in 1 .. Len(b) /\ m[j] = b[j - Len(a)]
    <3>1. i - Len(a) = j - Len(a)
      BY <1>1, <2>2
    <3> QED BY <1>3, <1>4, <3>1
  <2> QED BY <1>6, <1>7, <2>1, <2>2
<1>9. ASSUME NEW y \in Ids, R2[y] # R[y] PROVE \E j \in 1 .. Len(m) : m[j] = y
  <2>1. y \in S
    BY <1>9
  <2>2. CASE y \in ToSet(b)
    <3>1. PICK i \in 1 .. Len(b) : b[i] = y
      BY <1>5, <2>2
    <3>2. Len(a) + i \in 1 .. Len(m)
      BY <1>3, <1>4
    <3> QED BY <1>4, <3>1, <3>2
  <2>3. CASE y \notin ToSet(b)
    <3>1. PICK i \in 1 .. Len(a) : a[i] = y
      BY <1>2, <2>1, <2>3
    <3>2. i \in 1 .. Len(m)
      BY <1>3, <1>4
    <3> QED BY <1>4, <3>1, <3>2
  <2> QED BY <2>2, <2>3
<1>10. Touches(m, R, R2)
  BY <1>4, <1>8, <1>9 DEF Touches
<1> QED BY <1>10 DEF m, a, b

\* One empty leaf holds no rows.
LEMMA InitKeeps == Init => IInv
<1> SUFFICES ASSUME Init PROVE IInv
  OBVIOUS
<1> DEFINE N == MaxPages
           g == [lo |-> [p \in 1 .. N |-> 0],
                 hi |-> [p \in 1 .. N |-> MaxId + 2],
                 lv |-> [p \in 1 .. N |-> 0]]
           t == Tree
           P == t.pages
<1>1. t.pages = pages /\ t.free = free /\ t.root = root
      /\ t = [pages |-> t.pages, free |-> t.free, root |-> t.root]
  BY DEF Tree
<1>2. /\ P = [p \in PageNo |-> IF p = 1 THEN LeafPage(<<>>, 0, 0) ELSE Unused]
      /\ t.free = 2 /\ t.root = 1 /\ PageNo = 1 .. N /\ N \in Nat \ {0} /\ MaxId \in Nat
      /\ rows = [x \in Ids |-> 0]
  BY <1>1, SpaceIs DEF Init, PageNo
<1>3. /\ Space.n = N /\ Space.top = MaxId + 2
      /\ g.lo = [p \in 1 .. N |-> 0] /\ g.hi = [p \in 1 .. N |-> MaxId + 2] /\ g.lv = [p \in 1 .. N |-> 0]
  BY SpaceIs
<1> HIDE DEF t, g, N
<1>4. /\ \A p \in 1 .. N : P[p] = IF p = 1 THEN LeafPage(<<>>, 0, 0) ELSE Unused
      /\ DOMAIN P = 1 .. N /\ 1 \in 1 .. N
  BY <1>2
<1>5. /\ LeafPage(<<>>, 0, 0).kind = "leaf" /\ LeafPage(<<>>, 0, 0).rows = <<>>
      /\ LeafPage(<<>>, 0, 0).prev = 0 /\ LeafPage(<<>>, 0, 0).next = 0
      /\ Unused.kind = "unused"
  BY DEF LeafPage, Unused
<1>6. /\ P[1] = LeafPage(<<>>, 0, 0) /\ P[1].kind = "leaf" /\ P[1].rows = <<>>
      /\ P[1].prev = 0 /\ P[1].next = 0
      /\ \A p \in 1 .. N : p # 1 => P[p] = Unused /\ P[p].kind = "unused"
  BY <1>4, <1>5
<1>7. /\ \A p \in 1 .. N : g.lo[p] = 0 /\ g.hi[p] = MaxId + 2 /\ g.lv[p] = 0
      /\ InTree(P) = {1}
  <2>1. \A p \in 1 .. N : g.lo[p] = 0 /\ g.hi[p] = MaxId + 2 /\ g.lv[p] = 0
    BY <1>3
  <2>2. InTree(P) = {1}
    BY <1>4, <1>6 DEF InTree
  <2> QED BY <2>1, <2>2
<1>8. IsCover(Space, g)
  <2>1. \A p \in 1 .. N : g.lo[p] \in Nat /\ g.hi[p] \in Nat /\ g.lv[p] \in Nat
    BY <1>2, <1>7
  <2> QED BY <1>3, <2>1 DEF IsCover
<1>9. Frame(Space, t, g)
  <2>1. DOMAIN P = 1 .. Space.n /\ t.free \in 2 .. Space.n + 1
    BY <1>2, <1>3, <1>4
  <2>2. ASSUME NEW p \in 1 .. N
        PROVE  (P[p] = Unused <=> p >= t.free) /\ (P[p].kind = "unused" <=> p >= t.free)
    <3>1. CASE p = 1
      <4>1. P[p] # Unused /\ P[p].kind # "unused" /\ ~(p >= t.free)
        BY <1>2, <1>5, <1>6, <3>1
      <4> QED BY <4>1
    <3>2. CASE p # 1
      <4>1. P[p] = Unused /\ P[p].kind = "unused" /\ p >= t.free
        BY <1>2, <1>6, <3>2
      <4> QED BY <4>1
    <3> QED BY <3>1, <3>2
  <2>3. t.root \in InTree(P) /\ g.lo[t.root] = 0 /\ g.lv[t.root] + 2 <= t.free
    BY <1>2, <1>4, <1>7
  <2>4. \A p \in InTree(P) : /\ g.lo[p] < g.hi[p] /\ g.hi[p] <= Space.top
                             /\ g.lv[p] <= g.lv[t.root]
                             /\ g.lv[p] = 0 <=> P[p].kind = "leaf"
    BY <1>2, <1>3, <1>4, <1>6, <1>7
  <2>5. \A p, q \in InTree(P) : p = q
    BY <1>7
  <2> QED BY <1>1, <1>3, <1>8, <2>1, <2>2, <2>3, <2>4, <2>5 DEF Frame
<1>10. Linked(Space, t, g)
  <2>1. \A p \in 1 .. N : P[p].kind = "leaf" => p = 1
    BY <1>5, <1>6
  <2>2. g.hi[1] = Space.top /\ g.lo[1] = 0
    BY <1>3, <1>4, <1>7
  <2> QED BY <1>3, <1>6, <2>1, <2>2 DEF Linked
<1>11. Nodes(Space, t, g, g.hi)
  <2>1. \A p \in 1 .. N : P[p].kind # "branch"
    BY <1>6
  <2> QED BY <1>3, <2>1 DEF Nodes
<1>12. Whole(Space, t, g)
  <2>1. g.hi[t.root] = Space.top
    BY <1>2, <1>3, <1>4, <1>7
  <2> QED BY <1>9, <1>10, <1>11, <2>1 DEF Whole, Standing
<1>13. Contents(P, g, rows)
  <2>1. ChainsDown(P)
    BY <1>2, <1>6 DEF ChainsDown
  <2>2. Holds(P, <<>>, g.lo[1], g.hi[1], rows)
    <3>1. \A x \in Ids : rows[x] = 0
      BY <1>2
    <3>2. <<>> \in Seq(Entries) /\ Len(<<>>) = 0
      OBVIOUS
    <3> QED BY <3>1, <3>2 DEF Holds, Ordered2
  <2>3. ASSUME NEW p \in PageNo, P[p].kind = "leaf"
        PROVE  P[p] = LeafPage(P[p].rows, P[p].prev, P[p].next) /\ Holds(P, P[p].rows, g.lo[p], g.hi[p], rows)
    <3>1. p = 1
      BY <1>2, <1>6, <2>3
    <3> QED BY <1>6, <2>2, <3>1
  <2> QED BY <2>1, <2>3 DEF Contents
<1>14. Sound
  BY <1>12, <1>13 DEF Sound, Stored, t
<1>15. RowsOK /\ ScanOK
  BY DEF Init, RowsOK, ScanOK
<1>16. Explained(panicked)
  BY NoneBad DEF Init
<1>17. AlteredOK
  BY DEF Init, AlteredOK
<1>18. IndexSound
  <2>1. index = NewIndex /\ load \in Workloads
    BY DEF Init
  <2>2. KeysOf(rows) = {}
    BY <1>2 DEF KeysOf
  <2>3. \E h : Filed(Keyed, NewIndex, h, {})
    BY <2>1, KeyedIs, NewIndexIs
  <2> QED BY <2>1, <2>2, <2>3 DEF IndexSound
<1> QED BY <1>14, <1>15, <1>16, <1>17, <1>18 DEF IInv

LEMMA DoneIs ==
    ASSUME NEW t, NEW d, NEW g, NEW R, Stored(d, g, R), NEW h, NEW R0, Stored(t, h, R0), d.free = t.free
    PROVE  Written(t, Done(d), R)
<1>1. /\ Done(d).tree = d /\ Done(d).bad = <<>>
      /\ Done(d) = [tree |-> Done(d).tree, bad |-> Done(d).bad, cut |-> Done(d).cut]
  BY DEF Done
<1>2. IsTree(d) /\ t.free <= d.free
  <2>1. Whole(Space, d, g)
    BY DEF Stored
  <2>2. d = [pages |-> d.pages, free |-> d.free, root |-> d.root] /\ d.free \in Nat
    BY <2>1, WholeIs
  <2> QED BY <2>2 DEF IsTree
<1> QED BY <1>1, <1>2, NoneBad DEF Written

\* A client that is paging keeps what it has when the table changes.
LEMMA MustShrinks ==
    ASSUME ScanOK, NEW m, scan' = IF scan.at = "idle" THEN scan ELSE [scan EXCEPT !.must = m]
    PROVE  ScanOK'
<1>1. CASE scan = NoScan
  BY <1>1 DEF ScanOK, NoScan
<1>2. CASE Paging(scan)
  <2>1. scan' = [scan EXCEPT !.must = m]
    BY <1>2 DEF Paging
  <2>2. Paging(scan')
    BY <1>2, <2>1 DEF Paging
  <2> QED BY <2>2 DEF ScanOK
<1> QED BY <1>1, <1>2 DEF ScanOK

LEMMA ApplyKeeps ==
    ASSUME IInv, NEW result, NEW present, present \in [Ids -> load.sizes \cup {0}],
           Written(Tree, result, present), NEW touched, Touches(touched, rows, present),
           Apply(result, present, touched), UNCHANGED load
    PROVE  IInv'
<1>1. PICK ix : /\ ix = Reindexed(present, touched) /\ ~IndexOutgrown(ix)
                /\ panicked' = result.bad
                /\ ~Outgrown(result.tree)
                /\ IF result.bad = <<>>
                   THEN /\ pages' = result.tree.pages /\ free' = result.tree.free /\ root' = result.tree.root
                        /\ rows' = present
                        /\ altered' = {x \in Ids : x \in altered \cup result.cut /\ present[x] # 0}
                        /\ index' = ix
                        /\ scan' = IF scan.at = "idle" THEN scan
                                   ELSE [scan EXCEPT !.must = @ \cap Positions(present, Ids)]
                   ELSE UNCHANGED <<pages, free, root, rows, index, altered, scan>>
  BY DEF Apply
<1>2. Explained(panicked')
  BY <1>1 DEF Written
<1>3. CASE result.bad = <<>>
  <2>1. PICK g : Stored(result.tree, g, present)
    BY <1>1, <1>3 DEF Written
  <2>2. result.tree = Tree'
    <3>1. IsTree(result.tree)
      BY DEF Written
    <3>2. result.tree = [pages |-> result.tree.pages, free |-> result.tree.free, root |-> result.tree.root]
      BY <3>1 DEF IsTree
    <3> QED BY <1>1, <1>3, <3>2 DEF Tree
  <2>3. Stored(Tree', g, rows')
    BY <1>1, <1>3, <2>1, <2>2
  <2>4. Sound'
    BY <2>3 DEF Sound
  <2>5. RowsOK'
    BY <1>1, <1>3 DEF RowsOK, IInv
  <2>6. ScanOK'
    <3> DEFINE m == scan.must \cap Positions(present, Ids)
    <3>1. scan' = IF scan.at = "idle" THEN scan ELSE [scan EXCEPT !.must = m]
      BY <1>1, <1>3
    <3> HIDE DEF m
    <3> QED BY <3>1, MustShrinks DEF IInv
  <2>7. IndexSound'
    <3> SUFFICES ASSUME Indexed PROVE \E g2 : Filed(Keyed', index', g2, KeysOf(rows'))
      BY DEF IndexSound, Indexed
    <3>1. Keyed' = Keyed /\ index' = Reindexed(present, touched) /\ rows' = present
      BY <1>1, <1>3 DEF Keyed
    <3>2. \E g2 : Filed(Keyed, Reindexed(present, touched), g2, KeysOf(present))
      BY <1>1, ReindexedIs DEF IInv
    <3> QED BY <3>1, <3>2
  <2>8. AlteredOK'
    BY <1>1, <1>3 DEF AlteredOK
  <2> QED BY <1>2, <2>4, <2>5, <2>6, <2>7, <2>8 DEF IInv
<1>4. CASE result.bad # <<>>
  <2>1. UNCHANGED <<pages, free, root, rows, index, altered, scan, load>>
    BY <1>1, <1>4
  <2>2. Sound' /\ RowsOK' /\ ScanOK' /\ IndexSound' /\ AlteredOK'
    BY <2>1 DEF IInv, AlteredOK, Sound, Tree, RowsOK, ScanOK, IndexSound, Indexed, Keyed
  <2> QED BY <1>2, <2>2 DEF IInv
<1> QED BY <1>3, <1>4

LEMMA WritersKeep ==
    ASSUME IInv, Change, UNCHANGED load
    PROVE  IInv'
<1>1. RowsOK /\ \E g : Stored(Tree, g, rows)
  BY DEF IInv, Sound
<1>2. PICK g : Stored(Tree, g, rows)
  BY <1>1
<1>3. /\ load.ids \subseteq Ids /\ load.sizes \subseteq Nat \ {0}
      /\ rows \in [Ids -> load.sizes \cup {0}] /\ \A x \in Ids : rows[x] \in load.sizes \cup {0}
  BY <1>1, LoadIs DEF RowsOK
<1>4. ASSUME NEW x \in load.ids, NEW size \in load.sizes, Insert(x, size) PROVE IInv'
  <2> DEFINE present == [rows EXCEPT ![x] = size]
             result == TreeInsert(Tree, x, size)
  <2>1. x \in Ids /\ size \in Nat \ {0} /\ rows[x] = 0 /\ Apply(result, present, <<x>>)
    BY <1>3, <1>4 DEF Insert, Present
  <2>2. present \in [Ids -> load.sizes \cup {0}] /\ \A y \in Ids : present[y] = IF y = x THEN size ELSE rows[y]
    BY <1>3
  <2> HIDE DEF present, result
  <2>3. Written(Tree, result, present)
    BY <1>2, <2>1, <2>2, TreeInsertIs DEF result
  <2>4. Touches(<<x>>, rows, present)
    BY <2>1, <2>2, OneTouched
  <2> QED BY <2>1, <2>2, <2>3, <2>4, ApplyKeeps
<1>5. ASSUME NEW x \in load.ids, NEW size \in load.sizes, Update(x, size) PROVE IInv'
  <2> DEFINE present == [rows EXCEPT ![x] = size]
             result == TreeReplace(Tree, x, size)
  <2>1. x \in Ids /\ size \in Nat \ {0} /\ Apply(result, present, <<x>>)
    BY <1>3, <1>5 DEF Update
  <2>2. present \in [Ids -> load.sizes \cup {0}] /\ \A y \in Ids : present[y] = IF y = x THEN size ELSE rows[y]
    BY <1>3
  <2> HIDE DEF present, result
  <2>3. Written(Tree, result, present)
    BY <1>2, <2>1, <2>2, TreeReplaceIs DEF result
  <2>4. Touches(<<x>>, rows, present)
    BY <2>1, <2>2, OneTouched
  <2> QED BY <2>1, <2>2, <2>3, <2>4, ApplyKeeps
<1>6. ASSUME NEW x \in load.ids, Delete(x) PROVE IInv'
  <2> DEFINE present == [rows EXCEPT ![x] = 0]
             d == TreeDelete(Tree, x)
  <2>1. x \in Ids /\ Apply(Done(d), present, <<x>>)
    BY <1>3, <1>6 DEF Delete
  <2>2. present \in [Ids -> load.sizes \cup {0}] /\ \A y \in Ids : present[y] = IF y = x THEN 0 ELSE rows[y]
    BY <1>3
  <2> HIDE DEF present, d
  <2>3. Stored(d, g, present) /\ d.free = Tree.free
    BY <1>2, <2>1, <2>2, TreeDeleteIs DEF d
  <2>4. Written(Tree, Done(d), present)
    BY <1>2, <2>3, DoneIs
  <2>5. Touches(<<x>>, rows, present)
    BY <2>1, <2>2, OneTouched
  <2> QED BY <2>1, <2>2, <2>4, <2>5, ApplyKeeps
<1>7. ASSUME NEW S \in SUBSET load.ids, DeleteWhere(S) PROVE IInv'
  <2> DEFINE present == [x \in Ids |-> IF x \in S THEN 0 ELSE rows[x]]
             d == TreeDeleteWhere(Tree, S)
  <2>1. Apply(Done(d), present, Ascending(S))
    BY <1>7 DEF DeleteWhere
  <2>2. present \in [Ids -> load.sizes \cup {0}] /\ \A y \in Ids : present[y] = IF y \in S THEN 0 ELSE rows[y]
    BY <1>3
  <2> HIDE DEF present, d
  <2>3. Stored(d, g, present) /\ d.free = Tree.free
    BY <1>2, <2>2, TreeDeleteWhereIs DEF d
  <2>4. Written(Tree, Done(d), present)
    BY <1>2, <2>3, DoneIs
  <2>5. Touches(Ascending(S), rows, present)
    BY <2>2, AllTouched
  <2> QED BY <2>1, <2>2, <2>4, <2>5, ApplyKeeps
<1>8. ASSUME NEW S \in SUBSET load.ids, NEW size \in load.sizes, UpdateWhere(S, size) PROVE IInv'
  <2> DEFINE present == [x \in Ids |-> IF x \in S THEN size ELSE rows[x]]
             result == TreeUpdateWhere(Tree, S, size)
             touched == Ascending(S \ ToSet(Moved(Tree, S, size))) \o Moved(Tree, S, size)
  <2>1. Apply(result, present, touched) /\ S \subseteq Present
    BY <1>8 DEF UpdateWhere
  <2>2. present \in [Ids -> load.sizes \cup {0}] /\ size \in Nat \ {0}
    BY <1>3
  <2>3. \A x \in Ids : x \in S => rows[x] # 0
    BY <2>1 DEF Present
  <2>4. Written(Tree, result, present)
    <3> HIDE DEF touched
    <3> QED BY <1>2, <2>2, <2>3, TreeUpdateWhereIs
  <2>5. Touches(touched, rows, present)
    <3> DEFINE L == Left(Tree, S, size)
    <3>1. Moved(Tree, S, size) = Ascending(L)
      BY <1>2, MovedIs DEF Stored
    <3>2. \A y \in Ids : y \notin S => present[y] = rows[y]
      OBVIOUS
    <3> HIDE DEF L, present
    <3>3. Touches(Ascending(S \ ToSet(Ascending(L))) \o Ascending(L), rows, present)
      BY <3>2, BothTouched
    <3> QED BY <3>1, <3>3
  <2> HIDE DEF present, result, touched
  <2> QED BY <2>1, <2>2, <2>4, <2>5, ApplyKeeps
<1> QED BY <1>4, <1>5, <1>6, <1>7, <1>8 DEF Change

LEMMA ClientKeeps ==
    ASSUME IInv, Page, UNCHANGED load
    PROVE  IInv'
<1>1. UNCHANGED <<pages, free, root, rows, index, altered, panicked, load>>
  BY DEF Page, StartScan, ScanBatch, ScanIndexBatch, EndScan
<1>2. Sound' /\ IndexSound' /\ RowsOK' /\ Explained(panicked)' /\ AlteredOK'
  BY <1>1 DEF IInv, AlteredOK, Sound, Tree, RowsOK, IndexSound, Indexed, Keyed
<1>3. ASSUME NEW a, NEW b, NEW c, scan.at = "open", scan' = [scan EXCEPT !.seen = a, !.after = b, !.at = c],
             c \in {"open", "done"}
      PROVE  ScanOK'
  <2>1. Paging(scan)
    BY <1>3 DEF IInv, ScanOK, NoScan
  <2>2. Paging(scan')
    BY <1>3, <2>1 DEF Paging
  <2> QED BY <2>2 DEF ScanOK
<1>4. ASSUME NEW dir, NEW limit, NEW keep, StartScan(dir, limit, keep) PROVE ScanOK'
  <2> DEFINE a == IF Indexed THEN <<>> ELSE 0
             m == Positions(rows, keep)
             e == <<>>
  <2>1. scan' = [at |-> "open", dir |-> dir, limit |-> limit, keep |-> keep, after |-> a, seen |-> e, must |-> m]
    BY <1>4 DEF StartScan
  <2> HIDE DEF a, m, e
  <2>2. Paging(scan')
    BY <2>1 DEF Paging
  <2> QED BY <2>2 DEF ScanOK
<1>5. ASSUME ScanBatch PROVE ScanOK'
  <2> DEFINE r == ScanFrom(pages, root, scan.after, scan.dir, scan.limit, scan.keep)
             a == scan.seen \o r.ids
             c == IF r.last = 0 THEN "done" ELSE "open"
  <2>1. scan.at = "open" /\ scan' = [scan EXCEPT !.seen = a, !.after = r.last, !.at = c]
    BY <1>5 DEF ScanBatch
  <2>2. c \in {"open", "done"}
    OBVIOUS
  <2> HIDE DEF r, a, c
  <2> QED BY <1>3, <2>1, <2>2
<1>6. ASSUME ScanIndexBatch PROVE ScanOK'
  <2> DEFINE keys == ScanFromKey(index, scan.after, scan.dir, scan.limit)
             shown == Picked(keys, {i \in DOMAIN keys : Search(pages, root, keys[i][2]) # 0
                                                          /\ keys[i][2] \in scan.keep})
             last == IF Len(keys) < scan.limit THEN <<>> ELSE Last(keys)
             a == scan.seen \o shown
             c == IF last = <<>> THEN "done" ELSE "open"
  <2>1. scan.at = "open" /\ scan' = [scan EXCEPT !.seen = a, !.after = last, !.at = c]
    BY <1>6 DEF ScanIndexBatch
  <2>2. c \in {"open", "done"}
    OBVIOUS
  <2> HIDE DEF keys, shown, last, a, c
  <2> QED BY <1>3, <2>1, <2>2
<1>7. ASSUME EndScan PROVE ScanOK'
  BY <1>7 DEF EndScan, ScanOK
<1>8. ScanOK'
  BY <1>4, <1>5, <1>6, <1>7 DEF Page
<1> QED BY <1>2, <1>8 DEF IInv

LEMMA IInvHolds == Spec => []IInv
<1>1. IInv /\ [Next]_vars => IInv'
  <2>1. ASSUME IInv, Next PROVE IInv'
    BY <2>1, WritersKeep, ClientKeeps DEF Next
  <2>2. ASSUME IInv, UNCHANGED vars PROVE IInv'
    BY <2>2 DEF IInv, AlteredOK, Sound, Tree, RowsOK, ScanOK, IndexSound, Indexed, Keyed, vars
  <2> QED BY <2>1, <2>2
<1> QED BY <1>1, InitKeeps, PTL DEF Spec

\* The types of the variables, and that the pages handed out are exactly those
\* below the counter of allocate_page: no split, spill or new root uses a page
\* it has not allocated, or one that something else uses.
THEOREM TypesHold == Spec => []TypeOK
<1>1. IInv => TypeOK
  <2> SUFFICES ASSUME IInv PROVE TypeOK
    OBVIOUS
  <2>1. PICK g : Stored(Tree, g, rows)
    BY DEF IInv, Sound
  <2>2. Tree.pages = pages /\ Tree.free = free /\ Tree.root = root
    BY DEF Tree
  <2>3. /\ DOMAIN pages = PageNo /\ free \in 2 .. MaxPages + 1 /\ root \in PageNo
        /\ \A p \in PageNo : pages[p] = Unused <=> p >= free
    BY <2>1, <2>2, WholeIs DEF Stored
  <2>4. scan.at \in {"idle", "open", "done"}
    BY DEF IInv, ScanOK, NoScan, Paging
  <2> QED BY <2>3, <2>4 DEF TypeOK, IInv, RowsOK, AlteredOK
<1> QED BY <1>1, IInvHolds, PTL

\* search, get and every other point lookup (BTreeReader::search over
\* reassemble_row) find the rows that insert, update, update_where, delete and
\* delete_where left and no others, whatever splits and overflow chains there
\* were; each with its whole content, unless it is one that a half of a plain
\* split held last, running up to the end of its page where update_checksum wrote
\* over it.
THEOREM LookupsAreExact == Spec => []LookupsExact
<1>1. IInv => LookupsExact
  <2> SUFFICES ASSUME IInv PROVE LookupsExact
    OBVIOUS
  <2>1. PICK g : Stored(Tree, g, rows)
    BY DEF IInv, Sound
  <2>2. Tree.pages = pages /\ Tree.root = root
    BY DEF Tree
  <2>3. \A x \in Ids : Search(pages, root, x) = rows[x]
    BY <2>1, <2>2, SearchIs
  <2>4. \A x \in altered : rows[x] # 0
    BY DEF IInv, AlteredOK
  <2> QED BY <2>3, <2>4 DEF LookupsExact
<1> QED BY <1>1, IInvHolds, PTL

\* find_overflow_split_point misses no valid split point: when the insert of an
\* overflowing row runs past the end of a page, its leaf could not be cut in two.
THEOREM SplitsAreComplete == Spec => []OverflowSplitComplete
<1>1. IInv => OverflowSplitComplete
  BY DEF IInv, Explained, NoCut, OverflowSplitComplete
<1> QED BY <1>1, IInvHolds, PTL

-----------------------------------------------------------------------------
(* The whole tree: its pages by depth, and its leaves in order. *)

BranchSet(P) == {p \in PageNo : P[p].kind = "branch"}
DepthStep(P, r, f, n) ==
    IF n = 0 THEN {<<r, 0>>}
    ELSE f[n - 1] \cup UNION {{<<P[q[1]].kids[i], q[2] + 1>> : i \in DOMAIN P[q[1]].kids}
                                : q \in {q \in f[n - 1] : q[1] \in BranchSet(P)}}
IsDepths(P, r, f, m) == f = [n \in 0 .. m |-> DepthStep(P, r, f, n)]

LEMMA Depths ==
    ASSUME NEW P, NEW r, NEW N \in Nat
    PROVE  \E f : IsDepths(P, r, f, N)
<1> DEFINE Known == {m \in 0 .. N : \E f : IsDepths(P, r, f, m)}
<1>1. 0 \in Known
  <2> DEFINE f == [n \in 0 .. 0 |-> {<<r, 0>>}]
  <2>1. \A n \in 0 .. 0 : f[n] = DepthStep(P, r, f, n)
    BY DEF DepthStep
  <2>2. f = [n \in 0 .. 0 |-> f[n]]
    OBVIOUS
  <2> HIDE DEF f
  <2>3. IsDepths(P, r, f, 0)
    BY <2>1, <2>2 DEF IsDepths
  <2> QED BY <2>3
<1>2. ASSUME NEW m \in 0 .. N - 1, m \in Known PROVE m + 1 \in Known
  <2>1. PICK f : IsDepths(P, r, f, m)
    BY <1>2
  <2> DEFINE g == [n \in 0 .. m + 1 |-> IF n = m + 1 THEN DepthStep(P, r, f, n) ELSE f[n]]
  <2>2. g = [n \in 0 .. m + 1 |-> g[n]] /\ \A n \in 0 .. m + 1 : g[n] = DepthStep(P, r, f, n)
    BY <2>1 DEF IsDepths
  <2>3. \A n \in 0 .. m : g[n] = f[n]
    OBVIOUS
  <2> HIDE DEF g
  <2>4. \A n \in 0 .. m + 1 : DepthStep(P, r, g, n) = DepthStep(P, r, f, n)
    <3> TAKE n \in 0 .. m + 1
    <3>1. n # 0 => n - 1 \in 0 .. m
      OBVIOUS
    <3> QED BY <2>3, <3>1 DEF DepthStep
  <2>5. IsDepths(P, r, g, m + 1)
    BY <2>2, <2>4 DEF IsDepths
  <2>6. m + 1 \in 0 .. N
    OBVIOUS
  <2> QED BY <2>5, <2>6
<1> HIDE DEF Known
<1>3. N \in Known
  <2>1. 0 \in Nat
    OBVIOUS
  <2>2. \A n \in 0 .. N : n \in Known
    BY <1>1, <1>2, <2>1, Upwards
  <2> QED BY <2>2
<1> QED BY <1>3 DEF Known

\* Pages of one height that are for a common place are the same page.
LEMMA OnePage ==
    ASSUME NEW t, NEW g, Whole(Space, t, g), NEW p \in InTree(t.pages), NEW q \in InTree(t.pages),
           g.lv[p] = g.lv[q], NEW z \in Nat, Reaches(g, p, z), Reaches(g, q, z)
    PROVE  p = q
<1>1. p # q => g.hi[p] <= g.lo[q] \/ g.hi[q] <= g.lo[p]
  BY WholeIs
<1>2. g.lo[p] \in Nat /\ g.hi[p] \in Nat /\ g.lo[q] \in Nat /\ g.hi[q] \in Nat
  BY WholeIs
<1>3. g.lo[p] <= z /\ z < g.hi[p] /\ g.lo[q] <= z /\ z < g.hi[q]
  BY DEF Reaches
<1> QED BY <1>1, <1>2, <1>3

\* Heights and places in general.
LEMMA HeightsAre ==
    ASSUME NEW t, NEW g, Whole(Space, t, g)
    PROVE  /\ t.root \in InTree(t.pages) /\ g.lv[t.root] \in Nat
           /\ \A p \in InTree(t.pages) : /\ g.lv[p] \in Nat /\ g.lv[p] <= g.lv[t.root]
                                         /\ g.lo[p] \in Nat /\ g.lo[p] < MaxId + 2 /\ Reaches(g, p, g.lo[p])
<1>1. Frame(Space, t, g) /\ Space.top = MaxId + 2 /\ MaxId \in Nat
  BY SpaceIs DEF Whole, Standing
<1>2. t.root \in InTree(t.pages) /\ \A p \in InTree(t.pages) : g.lv[p] <= g.lv[t.root]
  BY <1>1 DEF Frame
<1>3. \A p \in InTree(t.pages) : /\ g.lv[p] \in Nat /\ g.lo[p] \in Nat /\ g.hi[p] \in Nat
                                 /\ g.lo[p] < g.hi[p] /\ g.hi[p] <= MaxId + 2
  BY WholeIs
<1>4. ASSUME NEW p \in InTree(t.pages) PROVE g.lo[p] < MaxId + 2 /\ Reaches(g, p, g.lo[p])
  <2> DEFINE x == g.lo[p]
             y == g.hi[p]
  <2>1. x \in Nat /\ y \in Nat /\ x < y /\ y <= MaxId + 2
    BY <1>3
  <2> HIDE DEF x, y
  <2>2. x <= x /\ x < MaxId + 2
    BY <1>1, <2>1
  <2> QED BY <2>1, <2>2 DEF Reaches, x, y
<1> QED BY <1>2, <1>3, <1>4

\* Every page but the root is the child of a page one above it.
LEMMA ParentIs ==
    ASSUME NEW t, NEW g, Whole(Space, t, g), NEW p \in InTree(t.pages)
    PROVE  \/ p = t.root
           \/ \E b \in InTree(t.pages) : \E i : ChildAt(t.pages, b, i, p) /\ g.lv[b] = g.lv[p] + 1
<1> DEFINE P == t.pages
           z == g.lo[p]
           s == PathTo(P, t.root, z)
           v == g.lv[p]
           k == Len(s) - v
<1>1. v \in Nat /\ z \in Nat /\ z < MaxId + 2 /\ Reaches(g, p, z) /\ v <= g.lv[t.root] /\ g.lv[t.root] \in Nat
  BY HeightsAre
<1>2. Descent(t, g, s, z) /\ Route(Space, t, s, Slots(t, s, z))
  <2> HIDE DEF z
  <2> QED BY <1>1, PathIs
<1>3. /\ s \in Seq(InTree(P)) /\ Len(s) = g.lv[t.root] + 1 /\ s[1] = t.root
      /\ \A i \in 1 .. Len(s) : Reaches(g, s[i], z) /\ g.lv[s[i]] = Len(s) - i
  BY <1>2 DEF Descent
<1>4. \A i \in 1 .. Len(s) - 1 : ChildAt(P, s[i], Slots(t, s, z)[i], s[i + 1])
  BY <1>2 DEF Route
<1> HIDE DEF s, z
<1>5. k \in 1 .. Len(s) /\ Len(s) \in Nat
  <2> DEFINE h == g.lv[t.root]
             n == Len(s)
  <2>1. n = h + 1 /\ h \in Nat /\ v \in Nat /\ v <= h
    BY <1>1, <1>3
  <2> HIDE DEF h, n, v
  <2>2. n - v \in 1 .. n /\ n \in Nat
    BY <2>1
  <2> QED BY <2>2 DEF n, k
<1>6. s[k] \in InTree(P) /\ g.lv[s[k]] = v /\ Reaches(g, s[k], z)
  <2>1. Len(s) - k = v
    BY <1>1, <1>5
  <2> QED BY <1>3, <1>5, <2>1, SeqIsFunction
<1>7. s[k] = p
  <2> HIDE DEF v, k
  <2>1. g.lv[s[k]] = g.lv[p]
    BY <1>6 DEF v
  <2> QED BY <1>1, <1>6, <2>1, OnePage
<1>8. CASE k = 1
  BY <1>3, <1>7, <1>8
<1>9. CASE k # 1
  <2>1. k - 1 \in 1 .. Len(s) - 1 /\ (k - 1) + 1 = k /\ k - 1 \in 1 .. Len(s)
    BY <1>5, <1>9
  <2>2. ChildAt(P, s[k - 1], Slots(t, s, z)[k - 1], p)
    BY <1>4, <1>7, <2>1
  <2>3. s[k - 1] \in InTree(P) /\ g.lv[s[k - 1]] = Len(s) - (k - 1)
    BY <1>3, <2>1, SeqIsFunction
  <2>4. Len(s) - (k - 1) = v + 1
    BY <1>1, <1>5
  <2> QED BY <2>2, <2>3, <2>4
<1> QED BY <1>8, <1>9

\* The pages found by depth are those of the tree, at the depth their height
\* gives.
DepthOf(t, g, p) == g.lv[t.root] - g.lv[p]
LEMMA DepthSound ==
    ASSUME NEW t, NEW g, Whole(Space, t, g), NEW m \in Nat, NEW f, IsDepths(t.pages, t.root, f, m)
    PROVE  \A n \in 0 .. m : \A q \in f[n] : q[1] \in InTree(t.pages) /\ q = <<q[1], DepthOf(t, g, q[1])>>
<1> DEFINE P == t.pages
           r == t.root
           T == InTree(P)
           Good == {n \in 0 .. m : \A q \in f[n] : q[1] \in T /\ q = <<q[1], DepthOf(t, g, q[1])>>}
<1>1. \A n \in 0 .. m : f[n] = DepthStep(P, r, f, n)
  BY DEF IsDepths
<1>2. r \in T /\ \A p \in T : g.lv[p] \in Nat
  BY HeightsAre
<1>3. 0 \in Good
  <2>1. f[0] = {<<r, 0>>} /\ 0 \in 0 .. m
    <3>1. 0 \in 0 .. m
      OBVIOUS
    <3>2. f[0] = DepthStep(P, r, f, 0)
      BY <1>1, <3>1
    <3> QED BY <3>1, <3>2 DEF DepthStep
  <2>2. DepthOf(t, g, r) = 0
    BY <1>2 DEF DepthOf
  <2> QED BY <1>2, <2>1, <2>2
<1>4. ASSUME NEW n \in 0 .. m - 1, n \in Good PROVE n + 1 \in Good
  <2>0. n + 1 \in 0 .. m /\ n + 1 # 0 /\ (n + 1) - 1 = n
    OBVIOUS
  <2>1. f[n + 1] = f[n] \cup UNION {{<<P[q[1]].kids[i], q[2] + 1>> : i \in DOMAIN P[q[1]].kids}
                                      : q \in {q \in f[n] : q[1] \in BranchSet(P)}}
    BY <1>1, <2>0 DEF DepthStep
  <2>2. ASSUME NEW x \in f[n + 1] PROVE x[1] \in T /\ x = <<x[1], DepthOf(t, g, x[1])>>
    <3>1. CASE x \in f[n]
      BY <1>4, <3>1
    <3>2. CASE x \notin f[n]
      <4>1. PICK q \in f[n] : /\ q[1] \in BranchSet(P)
                              /\ x \in {<<P[q[1]].kids[i], q[2] + 1>> : i \in DOMAIN P[q[1]].kids}
        BY <2>1, <3>2
      <4>2. PICK i \in DOMAIN P[q[1]].kids : x = <<P[q[1]].kids[i], q[2] + 1>>
        BY <4>1
      <4> DEFINE b == P[q[1]]
                 c == b.kids[i]
      <4>3. q[1] \in T /\ q[2] = g.lv[r] - g.lv[q[1]] /\ q[1] \in PageNo /\ b.kind = "branch"
        BY <1>4, <4>1 DEF DepthOf, BranchSet
      <4>4. /\ b.kids \in Seq(T)
            /\ \A j \in 1 .. Len(b.kids) : g.lv[b.kids[j]] + 1 = g.lv[q[1]]
        <5>1. Node(Space, T, b, g.lo[q[1]], g.hi[q[1]], g.lv[q[1]], g.lo, g.hi, g.lv)
          BY <4>3, WholeIs
        <5> HIDE DEF b
        <5> QED BY <5>1 DEF Node
      <4>5. c \in T /\ g.lv[c] + 1 = g.lv[q[1]]
        <5> HIDE DEF b
        <5>1. i \in 1 .. Len(b.kids)
          BY <4>2, <4>4, SeqIsFunction DEF b
        <5> QED BY <4>4, <5>1, SeqIsFunction
      <4>6. q[2] + 1 = g.lv[r] - g.lv[c]
        <5>1. g.lv[r] \in Nat /\ g.lv[c] \in Nat /\ g.lv[q[1]] \in Nat
          BY <1>2, <4>3, <4>5
        <5> QED BY <4>3, <4>5, <5>1
      <4> QED BY <4>2, <4>5, <4>6 DEF DepthOf
    <3> QED BY <3>1, <3>2
  <2> QED BY <2>0, <2>2
<1> HIDE DEF Good
<1>5. \A n \in 0 .. m : n \in Good
  <2>1. 0 \in Nat
    OBVIOUS
  <2> QED BY <1>3, <1>4, <2>1, Upwards
<1> QED BY <1>5 DEF Good

LEMMA DepthComplete ==
    ASSUME NEW t, NEW g, Whole(Space, t, g), NEW m \in Nat, NEW f, IsDepths(t.pages, t.root, f, m)
    PROVE  \A n \in 0 .. m : \A p \in InTree(t.pages) : DepthOf(t, g, p) <= n => <<p, DepthOf(t, g, p)>> \in f[n]
<1> DEFINE P == t.pages
           r == t.root
           T == InTree(P)
           Good == {n \in 0 .. m : \A p \in T : DepthOf(t, g, p) <= n => <<p, DepthOf(t, g, p)>> \in f[n]}
<1>1. \A n \in 0 .. m : f[n] = DepthStep(P, r, f, n)
  BY DEF IsDepths
<1>2. r \in T /\ \A p \in T : g.lv[p] \in Nat /\ g.lv[p] <= g.lv[r]
  BY HeightsAre
<1>3. 0 \in Good
  <2>1. f[0] = {<<r, 0>>} /\ 0 \in 0 .. m
    <3>1. 0 \in 0 .. m
      OBVIOUS
    <3>2. f[0] = DepthStep(P, r, f, 0)
      BY <1>1, <3>1
    <3> QED BY <3>1, <3>2 DEF DepthStep
  <2>2. ASSUME NEW p \in T, DepthOf(t, g, p) <= 0 PROVE <<p, DepthOf(t, g, p)>> \in f[0]
    <3>1. g.lv[p] = g.lv[r] /\ DepthOf(t, g, p) = 0
      BY <1>2, <2>2 DEF DepthOf
    <3>2. p = r
      <4>1. CASE p = r
        BY <4>1
      <4>2. CASE p # r
        <5>1. PICK b \in T : \E i : ChildAt(P, b, i, p) /\ g.lv[b] = g.lv[p] + 1
          BY <4>2, ParentIs
        <5> QED BY <1>2, <3>1, <5>1
      <4> QED BY <4>1, <4>2
    <3> QED BY <2>1, <3>1, <3>2
  <2> QED BY <2>1, <2>2
<1>4. ASSUME NEW n \in 0 .. m - 1, n \in Good PROVE n + 1 \in Good
  <2>0. n + 1 \in 0 .. m /\ n + 1 # 0 /\ (n + 1) - 1 = n /\ n \in Nat
    OBVIOUS
  <2>1. f[n + 1] = f[n] \cup UNION {{<<P[q[1]].kids[i], q[2] + 1>> : i \in DOMAIN P[q[1]].kids}
                                      : q \in {q \in f[n] : q[1] \in BranchSet(P)}}
    BY <1>1, <2>0 DEF DepthStep
  <2>2. ASSUME NEW p \in T, DepthOf(t, g, p) <= n + 1 PROVE <<p, DepthOf(t, g, p)>> \in f[n + 1]
    <3>1. CASE DepthOf(t, g, p) <= n
      BY <1>4, <2>1, <3>1
    <3>2. CASE ~(DepthOf(t, g, p) <= n)
      <4>0. DepthOf(t, g, p) \in Nat /\ DepthOf(t, g, p) = n + 1
        BY <1>2, <2>0, <2>2, <3>2 DEF DepthOf
      <4>1. p # r
        BY <1>2, <4>0, <2>0 DEF DepthOf
      <4>2. PICK b \in T : \E i : ChildAt(P, b, i, p) /\ g.lv[b] = g.lv[p] + 1
        BY <4>1, ParentIs
      <4>3. PICK i : ChildAt(P, b, i, p)
        BY <4>2
      <4>4. DepthOf(t, g, b) = n /\ DepthOf(t, g, b) + 1 = DepthOf(t, g, p)
        <5>1. g.lv[b] \in Nat /\ g.lv[p] \in Nat /\ g.lv[r] \in Nat
          BY <1>2
        <5> QED BY <2>0, <4>0, <4>2, <5>1 DEF DepthOf
      <4>5. <<b, n>> \in f[n]
        <5>1. n <= n
          BY <2>0
        <5> QED BY <1>4, <4>4, <5>1
      <4>6. P[b].kind = "branch" /\ i \in DOMAIN P[b].kids /\ P[b].kids[i] = p /\ b \in BranchSet(P)
        <5>1. P[b].kind = "branch" /\ i \in 1 .. Len(P[b].kids) /\ P[b].kids[i] = p
          BY <4>3 DEF ChildAt
        <5>2. b \in PageNo
          BY WholeIs
        <5>3. P[b].kids \in Seq(T)
          <6>1. Node(Space, T, P[b], g.lo[b], g.hi[b], g.lv[b], g.lo, g.hi, g.lv)
            BY <5>1, <5>2, WholeIs
          <6> QED BY <6>1 DEF Node
        <5> HIDE DEF T
        <5> QED BY <5>1, <5>2, <5>3, SeqIsFunction DEF BranchSet
      <4> DEFINE q == <<b, n>>
      <4>7. q[1] = b /\ q[2] = n /\ q \in f[n]
        BY <4>5
      <4> HIDE DEF q
      <4>8. <<p, n + 1>> \in {<<P[q[1]].kids[j], q[2] + 1>> : j \in DOMAIN P[q[1]].kids}
        BY <4>6, <4>7
      <4>9. <<p, n + 1>> \in f[n + 1]
        BY <2>1, <4>6, <4>7, <4>8
      <4> QED BY <4>0, <4>9
    <3> QED BY <3>1, <3>2
  <2> QED BY <2>0, <2>2
<1> HIDE DEF Good
<1>5. \A n \in 0 .. m : n \in Good
  <2>1. 0 \in Nat
    OBVIOUS
  <2> QED BY <1>3, <1>4, <2>1, Upwards
<1> QED BY <1>5 DEF Good

\* A path meets each branch page once, so the tree is no deeper than their number.
LEMMA HeightFits ==
    ASSUME NEW t, NEW g, Whole(Space, t, g)
    PROVE  Cardinality(BranchSet(t.pages)) \in Nat /\ g.lv[t.root] <= Cardinality(BranchSet(t.pages))
<1> DEFINE P == t.pages
           B == BranchSet(P)
           s == PathTo(P, t.root, 0)
           d == SubSeq(s, 1, Len(s) - 1)
<1>1. IsFiniteSet(B) /\ Cardinality(B) \in Nat
  <2>1. PageNo = 1 .. MaxPages /\ MaxPages \in Nat
    BY WholeIs, SpaceIs
  <2>2. IsFiniteSet(PageNo)
    BY <2>1, FS_Interval
  <2>3. B \in SUBSET PageNo
    BY DEF BranchSet
  <2> HIDE DEF B
  <2> QED BY <2>2, <2>3, FS_Subset, FS_CardinalityType
<1>2. Descent(t, g, s, 0)
  <2>1. 0 \in Nat /\ 0 < MaxId + 2
    BY SpaceIs
  <2> QED BY <2>1, PathIs
<1> HIDE DEF s
<1>3. /\ s \in Seq(InTree(P)) /\ Len(s) = g.lv[t.root] + 1
      /\ \A i \in 1 .. Len(s) : g.lv[s[i]] = Len(s) - i
  BY <1>2 DEF Descent
<1>4. Len(s) \in Nat \ {0} /\ \A i, j \in 1 .. Len(s) : s[i] = s[j] => i = j
  BY <1>2, DescentEnds
<1>5. \A i \in 1 .. Len(s) - 1 : s[i] \in B
  <2> TAKE i \in 1 .. Len(s) - 1
  <2>1. i \in 1 .. Len(s) /\ Len(s) - i # 0
    BY <1>4
  <2>2. s[i] \in InTree(P) /\ g.lv[s[i]] # 0
    BY <1>3, <2>1, SeqIsFunction
  <2> QED BY <2>2, WholeIs DEF BranchSet
<1>6. d \in Seq(B) /\ Len(d) = Len(s) - 1 /\ \A i \in 1 .. Len(s) - 1 : d[i] = s[i] /\ i \in 1 .. Len(s)
  <2> DEFINE n == Len(s) - 1
  <2>1. 1 \in Nat /\ n \in Nat /\ 1 <= n + 1 /\ n <= Len(s) /\ n - 1 + 1 = n
    BY <1>4
  <2>2. /\ SubSeq(s, 1, n) \in Seq(InTree(P)) /\ Len(SubSeq(s, 1, n)) = n - 1 + 1
        /\ \A i \in 1 .. n - 1 + 1 : SubSeq(s, 1, n)[i] = s[1 + i - 1]
    <3> HIDE DEF n
    <3> QED BY <1>3, <2>1, PartIs
  <2>3. \A i \in 1 .. n : 1 + i - 1 = i /\ i \in 1 .. Len(s)
    BY <1>4
  <2>4. Len(d) = n /\ \A i \in 1 .. n : d[i] = s[i] /\ i \in 1 .. Len(s)
    BY <2>1, <2>2, <2>3
  <2>5. \A i \in 1 .. Len(d) : d[i] \in B
    BY <1>5, <2>4
  <2>6. d \in Seq(InTree(P))
    BY <2>2
  <2> HIDE DEF d, B
  <2> QED BY <2>4, <2>5, <2>6, SeqInto
<1> HIDE DEF d, B
<1>7. Len(d) <= Cardinality(B)
  <2>1. \A i, j \in 1 .. Len(d) : d[i] = d[j] => i = j
    BY <1>4, <1>6
  <2> QED BY <1>1, <1>6, <2>1, Distinct
<1>8. Len(d) = g.lv[t.root]
  <2>1. g.lv[t.root] \in Nat
    BY HeightsAre
  <2> QED BY <1>3, <1>6, <2>1
<1> QED BY <1>1, <1>7, <1>8 DEF B

\* The pages of this state's tree.
LEMMA DepthIs ==
    ASSUME NEW g, Whole(Space, Tree, g)
    PROVE  Depth = {<<p, DepthOf(Tree, g, p)>> : p \in InTree(pages)}
<1> DEFINE m == Cardinality(Branches)
           f == CHOOSE f : IsDepths(pages, root, f, m)
<1>1. Tree.pages = pages /\ Tree.root = root /\ Branches = BranchSet(pages)
  BY DEF Tree, Branches, BranchSet
<1>2. m \in Nat /\ g.lv[root] <= m
  BY <1>1, HeightFits
<1> HIDE DEF m
<1>3. IsDepths(pages, root, f, m)
  BY <1>2, Depths
<1>4. Depth = f[m]
  BY <1>1 DEF Depth, IsDepths, DepthStep, m
<1> HIDE DEF f
<1>5. m \in 0 .. m /\ IsDepths(Tree.pages, Tree.root, f, m)
  BY <1>1, <1>2, <1>3
<1>6. \A q \in f[m] : q[1] \in InTree(pages) /\ q = <<q[1], DepthOf(Tree, g, q[1])>>
  <2>1. \A n \in 0 .. m : \A q \in f[n] : q[1] \in InTree(Tree.pages) /\ q = <<q[1], DepthOf(Tree, g, q[1])>>
    BY <1>2, <1>5, DepthSound
  <2> QED BY <1>1, <1>5, <2>1
<1>7. \A p \in InTree(pages) : <<p, DepthOf(Tree, g, p)>> \in f[m]
  <2>1. \A n \in 0 .. m : \A p \in InTree(Tree.pages) :
            DepthOf(Tree, g, p) <= n => <<p, DepthOf(Tree, g, p)>> \in f[n]
    BY <1>2, <1>5, DepthComplete
  <2>2. ASSUME NEW p \in InTree(pages) PROVE DepthOf(Tree, g, p) <= m
    <3>1. g.lv[root] \in Nat /\ g.lv[p] \in Nat
      BY <1>1, HeightsAre
    <3> QED BY <1>1, <1>2, <3>1 DEF DepthOf
  <2> QED BY <1>1, <1>5, <2>1, <2>2
<1> QED BY <1>4, <1>6, <1>7

LEMMA LeavesAre ==
    ASSUME NEW g, Whole(Space, Tree, g)
    PROVE  Reachable = InTree(pages) /\ Leaves = LeafSet(pages)
<1>1. Depth = {<<p, DepthOf(Tree, g, p)>> : p \in InTree(pages)}
  BY DepthIs
<1>2. Reachable = InTree(pages)
  <2>1. \A p \in InTree(pages) : <<p, DepthOf(Tree, g, p)>> \in Depth /\ <<p, DepthOf(Tree, g, p)>>[1] = p
    BY <1>1
  <2>2. \A q \in Depth : q[1] \in InTree(pages)
    BY <1>1
  <2> QED BY <2>1, <2>2 DEF Reachable
<1>3. Tree.pages = pages
  BY DEF Tree
<1>4. \A p \in PageNo : p \in InTree(pages) <=> pages[p].kind \in {"leaf", "branch"}
  BY <1>3, WholeIs
<1>5. InTree(pages) \subseteq PageNo
  BY <1>3, WholeIs
<1> QED BY <1>2, <1>4, <1>5 DEF Leaves, LeafSet

\* What a leaf shows, in the direction of a scan.
Toward(dir) == [x \in Ids |-> IF dir = "asc" THEN x ELSE (MaxId + 1) - x]
RowsToward(P, p, dir) == IF dir = "asc" THEN P[p].rows ELSE Reverse(P[p].rows)
IdsToward(P, dir) ==
    [p \in LeafSet(P) |-> [i \in DOMAIN RowsToward(P, p, dir) |-> RowsToward(P, p, dir)[i].id]]

LEMMA TowardIs ==
    ASSUME NEW dir, NEW x \in Ids
    PROVE  /\ Toward(dir)[x] \in Int
           /\ dir = "asc" => Toward(dir)[x] = x
           /\ dir # "asc" => Toward(dir)[x] = (MaxId + 1) - x
BY SpaceIs DEF Toward, Ids

\* The rows of one leaf.
HasRows(e, l, h, R, rank) ==
    /\ e \in Seq(Ids) /\ Rising(e, rank)
    /\ \A i \in 1 .. Len(e) : e[i] \in Ids /\ l <= e[i] /\ e[i] < h /\ R[e[i]] # 0
    /\ \A x \in Ids : l <= x /\ x < h /\ R[x] # 0 => \E i \in 1 .. Len(e) : e[i] = x
LEMMA LeafShows ==
    ASSUME NEW t, NEW g, NEW R, Stored(t, g, R), NEW p \in LeafSet(t.pages), NEW dir
    PROVE  HasRows(IdsToward(t.pages, dir)[p], g.lo[p], g.hi[p], R, Toward(dir))
<1> DEFINE s == t.pages[p].rows
           d == RowsToward(t.pages, p, dir)
           e == IdsToward(t.pages, dir)[p]
           l == g.lo[p]
           h == g.hi[p]
<1>1. Holds(t.pages, s, l, h, R)
  BY DEF Stored, Contents, LeafSet
<1> HIDE DEF s, l, h
<1>2. /\ s \in Seq(Entries) /\ \A i, j \in 1 .. Len(s) : i < j => s[i].id < s[j].id
      /\ \A i \in 1 .. Len(s) : l <= s[i].id /\ s[i].id < h /\ R[s[i].id] # 0
      /\ \A x \in Ids : l <= x /\ x < h /\ R[x] # 0 => \E i \in 1 .. Len(s) : s[i].id = x
  BY <1>1 DEF Holds, Ordered2, RowIs
<1>3. Len(s) \in Nat /\ \A i \in 1 .. Len(s) : s[i] \in Entries /\ s[i].id \in Ids /\ s[i].id \in Int
  <2>1. Len(s) \in Nat /\ \A i \in 1 .. Len(s) : s[i] \in Entries
    BY <1>2, SeqIsFunction
  <2>2. \A x \in Entries : x.id \in Ids
    BY DEF Entries
  <2>3. \A x \in Ids : x \in Int
    BY SpaceIs DEF Ids
  <2> QED BY <2>1, <2>2, <2>3
<1> DEFINE n == Len(s)
           back == [i \in 1 .. n |-> IF dir = "asc" THEN i ELSE n - i + 1]
<1>4. \A i \in 1 .. n : back[i] \in 1 .. n /\ back[back[i]] = i
  BY <1>3
<1>5. d \in Seq(Entries) /\ Len(d) = n /\ \A i \in 1 .. n : d[i] = s[back[i]]
  <2>1. CASE dir = "asc"
    <3>1. d = s
      BY <2>1 DEF RowsToward, s
    <3> QED BY <1>2, <2>1, <3>1
  <2>2. CASE dir # "asc"
    <3>1. d = Reverse(s)
      BY <2>2 DEF RowsToward, s
    <3> HIDE DEF d
    <3>2. /\ Reverse(s) \in Seq(Entries) /\ Len(Reverse(s)) = Len(s)
          /\ \A i \in 1 .. Len(s) : Reverse(s)[i] = s[Len(s) - i + 1]
      BY <1>2, ReverseIs
    <3> QED BY <2>2, <3>1, <3>2
  <2> QED BY <2>1, <2>2
<1>6. e = [i \in DOMAIN d |-> d[i].id]
  BY DEF IdsToward
<1> HIDE DEF d, e, back
<1>7. DOMAIN d = 1 .. n
  BY <1>5, SeqIsFunction
<1>8. /\ e \in Seq(Ids) /\ Len(e) = n
      /\ \A i \in 1 .. n : e[i] = s[back[i]].id
  <2>1. e \in [1 .. n -> Ids] /\ \A i \in 1 .. n : e[i] = s[back[i]].id
    BY <1>3, <1>4, <1>5, <1>6, <1>7
  <2> QED BY <1>3, <2>1, FunctionIsSeq
<1> HIDE DEF n
<1>9. Rising(e, Toward(dir))
  <2> SUFFICES ASSUME NEW i \in 1 .. n, NEW j \in 1 .. n, i < j
               PROVE  Toward(dir)[e[i]] < Toward(dir)[e[j]]
    BY <1>8 DEF Rising
  <2>1. /\ e[i] = s[back[i]].id /\ e[j] = s[back[j]].id /\ e[i] \in Ids /\ e[j] \in Ids
        /\ back[i] \in 1 .. n /\ back[j] \in 1 .. n /\ n \in Nat
    BY <1>3, <1>4, <1>8, SeqIsFunction DEF n
  <2>2. CASE dir = "asc"
    <3>1. back[i] = i /\ back[j] = j
      BY <2>2 DEF back
    <3>2. s[i].id < s[j].id
      BY <1>2 DEF n
    <3> QED BY <2>1, <2>2, <3>1, <3>2, TowardIs
  <2>3. CASE dir # "asc"
    <3>1. back[i] = n - i + 1 /\ back[j] = n - j + 1
      BY <2>3 DEF back
    <3>2. back[j] < back[i]
      BY <2>1, <3>1
    <3>3. s[back[j]].id < s[back[i]].id
      BY <1>2, <2>1, <3>2 DEF n
    <3>4. e[j] < e[i] /\ e[i] \in Int /\ e[j] \in Int /\ MaxId \in Int
      BY <2>1, <3>3, SpaceIs DEF Ids
    <3>5. Toward(dir)[e[i]] = (MaxId + 1) - e[i] /\ Toward(dir)[e[j]] = (MaxId + 1) - e[j]
      BY <2>1, <2>3, TowardIs
    <3> QED BY <3>4, <3>5
  <2> QED BY <2>2, <2>3
<1>10. \A i \in 1 .. Len(e) : e[i] \in Ids /\ l <= e[i] /\ e[i] < h /\ R[e[i]] # 0
  <2> TAKE i \in 1 .. Len(e)
  <2>1. i \in 1 .. n /\ e[i] = s[back[i]].id /\ back[i] \in 1 .. Len(s)
    BY <1>4, <1>8 DEF n
  <2> QED BY <1>2, <1>3, <2>1
<1>11. \A x \in Ids : l <= x /\ x < h /\ R[x] # 0 => \E i \in 1 .. Len(e) : e[i] = x
  <2> SUFFICES ASSUME NEW x \in Ids, l <= x, x < h, R[x] # 0 PROVE \E i \in 1 .. Len(e) : e[i] = x
    OBVIOUS
  <2>1. PICK k \in 1 .. Len(s) : s[k].id = x
    BY <1>2
  <2>2. back[k] \in 1 .. n /\ back[back[k]] = k
    BY <1>4, <2>1 DEF n
  <2> QED BY <1>8, <2>1, <2>2
<1>12. HasRows(e, l, h, R, Toward(dir))
  BY <1>8, <1>9, <1>10, <1>11 DEF HasRows
<1> QED BY <1>12 DEF e, l, h

LEMMA ShelvesAre ==
    ASSUME NEW t, NEW g, NEW R, Stored(t, g, R)
    PROVE  /\ Shelved(LeafSet(t.pages), g.lo, g.hi, IdsToward(t.pages, "asc"), Ids, Toward("asc"))
           /\ Shelved(LeafSet(t.pages), Mirrored(g.hi), Mirrored(g.lo), IdsToward(t.pages, "desc"), Ids,
                      Toward("desc"))
<1>1. Whole(Space, t, g)
  BY DEF Stored
<1>2. ASSUME NEW p \in LeafSet(t.pages)
      PROVE  /\ g.lo[p] \in Nat /\ g.hi[p] \in Nat
             /\ Mirrored(g.lo)[p] = (MaxId + 2) - g.lo[p] /\ Mirrored(g.hi)[p] = (MaxId + 2) - g.hi[p]
  <2>1. p \in PageNo /\ g.lo[p] \in Nat /\ g.hi[p] \in Nat
    BY <1>1, WholeIs DEF LeafSet
  <2>2. g.lo[p] \in Int /\ g.hi[p] \in Int
    BY <2>1
  <2> QED BY <2>1, <2>2, MirroredIs
<1>3. ASSUME NEW p \in LeafSet(t.pages), NEW i \in 1 .. Len(IdsToward(t.pages, "asc")[p])
      PROVE  /\ Toward("asc")[IdsToward(t.pages, "asc")[p][i]] \in Int
             /\ g.lo[p] <= Toward("asc")[IdsToward(t.pages, "asc")[p][i]]
             /\ Toward("asc")[IdsToward(t.pages, "asc")[p][i]] < g.hi[p]
  <2> DEFINE x == IdsToward(t.pages, "asc")[p][i]
  <2>1. x \in Ids /\ g.lo[p] <= x /\ x < g.hi[p]
    <3>1. HasRows(IdsToward(t.pages, "asc")[p], g.lo[p], g.hi[p], R, Toward("asc"))
      BY LeafShows
    <3> QED BY <3>1 DEF HasRows
  <2> HIDE DEF x
  <2>2. Toward("asc")[x] = x /\ Toward("asc")[x] \in Int
    BY <2>1, TowardIs
  <2> QED BY <2>1, <2>2 DEF x
<1>4. ASSUME NEW p \in LeafSet(t.pages), NEW i \in 1 .. Len(IdsToward(t.pages, "desc")[p])
      PROVE  /\ Toward("desc")[IdsToward(t.pages, "desc")[p][i]] \in Int
             /\ Mirrored(g.hi)[p] <= Toward("desc")[IdsToward(t.pages, "desc")[p][i]]
             /\ Toward("desc")[IdsToward(t.pages, "desc")[p][i]] < Mirrored(g.lo)[p]
  <2> DEFINE x == IdsToward(t.pages, "desc")[p][i]
             l == g.lo[p]
             h == g.hi[p]
  <2>1. x \in Ids /\ l <= x /\ x < h
    <3>1. HasRows(IdsToward(t.pages, "desc")[p], l, h, R, Toward("desc"))
      BY LeafShows
    <3> QED BY <3>1 DEF HasRows
  <2>2. l \in Nat /\ h \in Nat /\ Mirrored(g.lo)[p] = (MaxId + 2) - l /\ Mirrored(g.hi)[p] = (MaxId + 2) - h
    BY <1>2
  <2> HIDE DEF x, l, h
  <2>3. Toward("desc")[x] = (MaxId + 1) - x /\ Toward("desc")[x] \in Int
    BY <2>1, TowardIs
  <2>4. x \in Nat /\ MaxId \in Nat
    BY <2>1, SpaceIs DEF Ids
  <2>5. (MaxId + 2) - h <= (MaxId + 1) - x /\ (MaxId + 1) - x < (MaxId + 2) - l
    BY <2>1, <2>2, <2>4
  <2> QED BY <2>2, <2>3, <2>5 DEF x
<1>5. \A p \in LeafSet(t.pages), dir \in {"asc", "desc"} :
          IdsToward(t.pages, dir)[p] \in Seq(Ids) /\ Rising(IdsToward(t.pages, dir)[p], Toward(dir))
  BY LeafShows DEF HasRows
<1> QED BY <1>3, <1>4, <1>5 DEF Shelved

\* The ids a scan meets from leaf p on are those of the rows from there on.
Onward(g, R, p, dir) == {x \in Ids : R[x] # 0 /\ IF dir = "asc" THEN g.lo[p] <= x ELSE x < g.hi[p]}
MetIds(P, p, dir) ==
    FlattenSeq([i \in DOMAIN Chain(P, p, dir) |-> IdsToward(P, dir)[Chain(P, p, dir)[i]]])

LEMMA OnwardAsc ==
    ASSUME NEW t, NEW g, NEW R, Stored(t, g, R), NEW p \in LeafSet(t.pages)
    PROVE  Met(LeafSet(t.pages), g.lo, IdsToward(t.pages, "asc"), Ids, p) = Onward(g, R, p, "asc")
<1> DEFINE L == LeafSet(t.pages)
           E == IdsToward(t.pages, "asc")
           M == Met(L, g.lo, E, Ids, p)
<1>1. Whole(Space, t, g)
  BY DEF Stored
<1>2. \A q \in L : g.lo[q] \in Nat /\ g.hi[q] \in Nat /\ g.lo[q] < g.hi[q]
  BY <1>1, WholeIs DEF LeafSet
<1>3. ASSUME NEW x \in M PROVE x \in Onward(g, R, p, "asc")
  <2>1. PICK q \in L : g.lo[p] <= g.lo[q] /\ \E i \in 1 .. Len(E[q]) : E[q][i] = x
    BY DEF Met
  <2>2. x \in Ids /\ g.lo[q] <= x /\ R[x] # 0
    <3>1. HasRows(E[q], g.lo[q], g.hi[q], R, Toward("asc"))
      BY LeafShows
    <3> HIDE DEF E
    <3> QED BY <2>1, <3>1 DEF HasRows
  <2>3. g.lo[p] <= x
    <3>1. x \in Int
      BY <2>2, SpaceIs DEF Ids
    <3> QED BY <1>2, <2>1, <2>2, <3>1
  <2> QED BY <2>2, <2>3 DEF Onward
<1>4. ASSUME NEW x \in Onward(g, R, p, "asc") PROVE x \in M
  <2>1. x \in Ids /\ R[x] # 0 /\ g.lo[p] <= x
    BY DEF Onward
  <2>2. x \in Nat /\ x < MaxId + 2
    BY <2>1, SpaceIs DEF Ids
  <2> DEFINE q == LeafFor(t.pages, t.root, x)
  <2>3. LeafAt(t, g, q, x)
    BY <1>1, <2>2, PathIs
  <2> HIDE DEF q
  <2>4. q \in L /\ g.lo[q] <= x /\ x < g.hi[q]
    BY <2>3 DEF LeafAt, Reaches, LeafSet
  <2>5. \E i \in 1 .. Len(E[q]) : E[q][i] = x
    <3>1. HasRows(E[q], g.lo[q], g.hi[q], R, Toward("asc"))
      BY <2>4, LeafShows
    <3> HIDE DEF E
    <3> QED BY <2>1, <2>4, <3>1 DEF HasRows
  <2>6. g.lo[p] <= g.lo[q]
    <3>1. p # q => g.hi[p] <= g.lo[q] \/ g.hi[q] <= g.lo[p]
      <4>1. p \in InTree(t.pages) /\ q \in InTree(t.pages) /\ g.lv[p] = 0 /\ g.lv[q] = 0
        BY <1>1, <2>4, WholeIs DEF LeafSet
      <4> QED BY <1>1, <4>1, WholeIs
    <3>2. g.lo[p] \in Nat /\ g.hi[p] \in Nat /\ g.lo[p] < g.hi[p] /\ g.lo[q] \in Nat /\ g.hi[q] \in Nat
      BY <1>2, <2>4
    <3> QED BY <2>1, <2>2, <2>4, <3>1, <3>2
  <2> QED BY <2>1, <2>4, <2>5, <2>6 DEF Met
<1> QED BY <1>3, <1>4

LEMMA OnwardDesc ==
    ASSUME NEW t, NEW g, NEW R, Stored(t, g, R), NEW p \in LeafSet(t.pages)
    PROVE  Met(LeafSet(t.pages), Mirrored(g.hi), IdsToward(t.pages, "desc"), Ids, p) = Onward(g, R, p, "desc")
<1> DEFINE L == LeafSet(t.pages)
           E == IdsToward(t.pages, "desc")
           a == Mirrored(g.hi)
           M == Met(L, a, E, Ids, p)
<1>1. Whole(Space, t, g)
  BY DEF Stored
<1>2. \A q \in L : /\ g.lo[q] \in Nat /\ g.hi[q] \in Nat /\ g.lo[q] < g.hi[q]
                   /\ a[q] = (MaxId + 2) - g.hi[q]
  <2> TAKE q \in L
  <2>1. q \in PageNo /\ g.lo[q] \in Nat /\ g.hi[q] \in Nat /\ g.lo[q] < g.hi[q]
    BY <1>1, WholeIs DEF LeafSet
  <2>2. g.hi[q] \in Int
    BY <2>1
  <2> QED BY <2>1, <2>2, MirroredIs
<1>3. \A q \in L : a[p] <= a[q] <=> g.hi[q] <= g.hi[p]
  <2> TAKE q \in L
  <2>1. /\ g.hi[q] \in Nat /\ g.hi[p] \in Nat /\ MaxId \in Nat
        /\ a[p] = (MaxId + 2) - g.hi[p] /\ a[q] = (MaxId + 2) - g.hi[q]
    BY <1>2, SpaceIs
  <2> HIDE DEF a
  <2> QED BY <2>1
<1> HIDE DEF a
<1>4. ASSUME NEW x \in M PROVE x \in Onward(g, R, p, "desc")
  <2>1. PICK q \in L : a[p] <= a[q] /\ \E i \in 1 .. Len(E[q]) : E[q][i] = x
    BY DEF Met
  <2>2. x \in Ids /\ x < g.hi[q] /\ R[x] # 0
    <3>1. HasRows(E[q], g.lo[q], g.hi[q], R, Toward("desc"))
      BY LeafShows
    <3> HIDE DEF E
    <3> QED BY <2>1, <3>1 DEF HasRows
  <2>3. x < g.hi[p]
    <3>1. x \in Int
      BY <2>2, SpaceIs DEF Ids
    <3>2. g.hi[q] <= g.hi[p] /\ g.hi[q] \in Nat /\ g.hi[p] \in Nat
      BY <1>2, <1>3, <2>1
    <3> QED BY <2>2, <3>1, <3>2
  <2> QED BY <2>2, <2>3 DEF Onward
<1>5. ASSUME NEW x \in Onward(g, R, p, "desc") PROVE x \in M
  <2>1. x \in Ids /\ R[x] # 0 /\ x < g.hi[p]
    BY DEF Onward
  <2>2. x \in Nat /\ x < MaxId + 2
    BY <2>1, SpaceIs DEF Ids
  <2> DEFINE q == LeafFor(t.pages, t.root, x)
  <2>3. LeafAt(t, g, q, x)
    BY <1>1, <2>2, PathIs
  <2> HIDE DEF q
  <2>4. q \in L /\ g.lo[q] <= x /\ x < g.hi[q]
    BY <2>3 DEF LeafAt, Reaches, LeafSet
  <2>5. \E i \in 1 .. Len(E[q]) : E[q][i] = x
    <3>1. HasRows(E[q], g.lo[q], g.hi[q], R, Toward("desc"))
      BY <2>4, LeafShows
    <3> HIDE DEF E
    <3> QED BY <2>1, <2>4, <3>1 DEF HasRows
  <2>6. g.hi[q] <= g.hi[p]
    <3>1. p # q => g.hi[p] <= g.lo[q] \/ g.hi[q] <= g.lo[p]
      <4>1. p \in InTree(t.pages) /\ q \in InTree(t.pages) /\ g.lv[p] = 0 /\ g.lv[q] = 0
        BY <1>1, <2>4, WholeIs DEF LeafSet
      <4> QED BY <1>1, <4>1, WholeIs
    <3>2. g.lo[p] \in Nat /\ g.hi[p] \in Nat /\ g.lo[p] < g.hi[p] /\ g.lo[q] \in Nat /\ g.hi[q] \in Nat
      BY <1>2, <2>4
    <3> QED BY <2>1, <2>2, <2>4, <3>1, <3>2
  <2>7. a[p] <= a[q]
    BY <1>3, <2>4, <2>6
  <2> QED BY <2>1, <2>4, <2>5, <2>7 DEF Met
<1> QED BY <1>4, <1>5 DEF a

LEMMA MetIdsAre ==
    ASSUME NEW t, NEW g, NEW R, Stored(t, g, R), NEW p \in LeafSet(t.pages), NEW dir \in {"asc", "desc"}
    PROVE  Lists(MetIds(t.pages, p, dir), Onward(g, R, p, dir), Toward(dir))
<1> DEFINE L == LeafSet(t.pages)
<1>1. Whole(Space, t, g)
  BY DEF Stored
<1>2. /\ Joins(MaxPages, L, MaxId + 2, g.lo, g.hi, NextOf(t.pages))
      /\ Joins(MaxPages, L, MaxId + 2, Mirrored(g.hi), Mirrored(g.lo), PrevOf(t.pages))
  BY <1>1, LeavesJoin
<1>3. /\ Chain(t.pages, p, "asc") = Follow(NextOf(t.pages), p, MaxPages)
      /\ Chain(t.pages, p, "desc") = Follow(PrevOf(t.pages), p, MaxPages)
  BY DEF Chain, NextOf, PrevOf
<1>4. /\ Shelved(L, g.lo, g.hi, IdsToward(t.pages, "asc"), Ids, Toward("asc"))
      /\ Shelved(L, Mirrored(g.hi), Mirrored(g.lo), IdsToward(t.pages, "desc"), Ids, Toward("desc"))
  BY ShelvesAre
<1>5. CASE dir = "asc"
  <2> DEFINE s == Chain(t.pages, p, "asc")
             E == IdsToward(t.pages, "asc")
             rank == Toward("asc")
             top == MaxId + 2
             a == g.lo
             b == g.hi
             link == NextOf(t.pages)
  <2> HIDE DEF L, E, rank, top, a, b, link
  <2>1. Joins(MaxPages, L, top, a, b, link) /\ Shelved(L, a, b, E, Ids, rank) /\ s = Follow(link, p, MaxPages)
        /\ p \in L
    BY <1>2, <1>3, <1>4 DEF L, E, rank, top, a, b, link
  <2> HIDE DEF s
  <2>2. IsChain(L, top, a, b, p, s)
    BY <2>1, ChainIs
  <2>3. MeetsAll(L, a, b, E, Ids, rank, p, s)
    BY <2>1, <2>2, ChainMeets
  <2>4. Lists(FlattenSeq([i \in DOMAIN s |-> E[s[i]]]), Met(L, a, E, Ids, p), rank)
    BY <2>3 DEF MeetsAll
  <2>5. Met(L, a, E, Ids, p) = Onward(g, R, p, "asc")
    BY OnwardAsc DEF L, E, a
  <2>6. MetIds(t.pages, p, dir) = FlattenSeq([i \in DOMAIN s |-> E[s[i]]])
    BY <1>5 DEF MetIds, s, E
  <2> QED BY <1>5, <2>4, <2>5, <2>6 DEF rank
<1>6. CASE dir = "desc"
  <2> DEFINE s == Chain(t.pages, p, "desc")
             E == IdsToward(t.pages, "desc")
             rank == Toward("desc")
             top == MaxId + 2
             a == Mirrored(g.hi)
             b == Mirrored(g.lo)
             link == PrevOf(t.pages)
  <2> HIDE DEF L, E, rank, top, a, b, link
  <2>1. Joins(MaxPages, L, top, a, b, link) /\ Shelved(L, a, b, E, Ids, rank) /\ s = Follow(link, p, MaxPages)
        /\ p \in L
    BY <1>2, <1>3, <1>4 DEF L, E, rank, top, a, b, link
  <2> HIDE DEF s
  <2>2. IsChain(L, top, a, b, p, s)
    BY <2>1, ChainIs
  <2>3. MeetsAll(L, a, b, E, Ids, rank, p, s)
    BY <2>1, <2>2, ChainMeets
  <2>4. Lists(FlattenSeq([i \in DOMAIN s |-> E[s[i]]]), Met(L, a, E, Ids, p), rank)
    BY <2>3 DEF MeetsAll
  <2>5. Met(L, a, E, Ids, p) = Onward(g, R, p, "desc")
    BY OnwardDesc DEF L, E, a
  <2>6. MetIds(t.pages, p, dir) = FlattenSeq([i \in DOMAIN s |-> E[s[i]]])
    BY <1>6 DEF MetIds, s, E
  <2> QED BY <1>6, <2>4, <2>5, <2>6 DEF rank
<1> QED BY <1>5, <1>6

LEMMA SearchTreeIs ==
    ASSUME NEW g, Stored(Tree, g, rows)
    PROVE  SearchTree
<1>1. /\ Tree.pages = pages /\ Tree.root = root
      /\ Whole(Space, Tree, g) /\ Contents(pages, g, rows)
  BY DEF Tree, Stored
<1>2. /\ Depth = {<<p, DepthOf(Tree, g, p)>> : p \in InTree(pages)}
      /\ Reachable = InTree(pages) /\ Leaves = LeafSet(pages)
  BY <1>1, DepthIs, LeavesAre
<1>3. ASSUME NEW q \in Depth, NEW s \in Depth
      PROVE  /\ pages[q[1]].kind = "leaf" /\ pages[s[1]].kind = "leaf" => q[2] = s[2]
             /\ q[1] = s[1] => q = s
  <2>1. PICK p \in InTree(pages) : q = <<p, DepthOf(Tree, g, p)>>
    BY <1>2
  <2>2. PICK r \in InTree(pages) : s = <<r, DepthOf(Tree, g, r)>>
    BY <1>2
  <2>3. /\ pages[p].kind = "leaf" => g.lv[p] = 0
        /\ pages[r].kind = "leaf" => g.lv[r] = 0
    BY <1>1, WholeIs
  <2>4. pages[p].kind = "leaf" /\ pages[r].kind = "leaf" => DepthOf(Tree, g, p) = DepthOf(Tree, g, r)
    BY <2>3 DEF DepthOf
  <2> QED BY <2>1, <2>2, <2>4
<1>4. ASSUME NEW p \in Leaves, NEW x \in LeafIds(p) PROVE LeafFor(pages, root, x) = p
  <2>1. p \in LeafSet(pages) /\ p \in PageNo /\ pages[p].kind = "leaf" /\ p \in InTree(pages)
    BY <1>1, <1>2, WholeIs DEF LeafSet
  <2> DEFINE s == pages[p].rows
             l == g.lo[p]
             h == g.hi[p]
  <2>2. Holds(pages, s, l, h, rows)
    BY <1>1, <2>1 DEF Contents
  <2>3. PICK i \in DOMAIN s : x = s[i].id
    BY DEF LeafIds
  <2> HIDE DEF s
  <2>4. x \in Ids /\ l <= x /\ x < h
    <3>1. s \in Seq(Entries) /\ \A j \in 1 .. Len(s) : RowIs(pages, s[j], l, h, rows)
      BY <2>2 DEF Holds
    <3>2. i \in 1 .. Len(s) /\ s[i] \in Entries
      BY <2>3, <3>1, SeqIsFunction
    <3> QED BY <2>3, <3>1, <3>2 DEF RowIs, Entries
  <2>5. x \in Nat /\ x < MaxId + 2 /\ x \in Int
    BY <2>4, SpaceIs DEF Ids
  <2>6. LeafAt(Tree, g, p, x)
    BY <1>1, <2>1, <2>4 DEF LeafAt, Reaches
  <2>7. LeafAt(Tree, g, LeafFor(pages, root, x), x)
    BY <1>1, <2>5, PathIs
  <2> QED BY <1>1, <2>5, <2>6, <2>7, OneLeaf
<1>5. Alone(Space, Tree)
  <2>1. IsRange(Tree, g, g.hi)
    <3>1. \A p \in InTree(Tree.pages) : g.hi[p] \in Nat /\ g.lo[p] < g.hi[p]
      BY <1>1, WholeIs
    <3> QED BY <3>1 DEF IsRange
  <2>2. Frame(Space, Tree, g) /\ Nodes(Space, Tree, g, g.hi) /\ IsSpace(Space)
    BY <1>1, SpaceIs DEF Whole, Standing
  <2> QED BY <2>1, <2>2, AllAlone
<1>6. ASSUME NEW p \in Reachable \cap Branches
      PROVE  /\ p \in PageNo /\ pages[p].kind = "branch" /\ pages[p].kids \in Seq(InTree(pages))
             /\ Len(pages[p].kids) = Len(pages[p].keys) + 1
  <2>1. p \in PageNo /\ pages[p].kind = "branch"
    BY DEF Branches
  <2>2. Node(Space, InTree(pages), pages[p], g.lo[p], g.hi[p], g.lv[p], g.lo, g.hi, g.lv)
    BY <1>1, <2>1, WholeIs
  <2> QED BY <2>1, <2>2 DEF Node
<1>7. ASSUME NEW p \in Reachable \cap Branches, NEW q \in Reachable \cap Branches,
             NEW i \in DOMAIN pages[p].kids, NEW j \in DOMAIN pages[q].kids, pages[p].kids[i] = pages[q].kids[j]
      PROVE  p = q /\ i = j
  <2> DEFINE T == InTree(pages)
             a == pages[p].kids
             b == pages[q].kids
  <2>1. a \in Seq(T) /\ b \in Seq(T) /\ p \in 1 .. Space.n /\ q \in 1 .. Space.n
        /\ pages[p].kind = "branch" /\ pages[q].kind = "branch"
    BY <1>6, SpaceIs DEF PageNo
  <2>2. i \in 1 .. Len(a) /\ j \in 1 .. Len(b)
    <3> HIDE DEF T, a, b
    <3>1. DOMAIN a = 1 .. Len(a) /\ DOMAIN b = 1 .. Len(b)
      BY <2>1, SeqIsFunction
    <3> QED BY <3>1 DEF a, b
  <2> QED BY <1>1, <1>5, <1>7, <2>1, <2>2 DEF Alone
<1> QED BY <1>3, <1>4, <1>6, <1>7 DEF SearchTree

\* All leaves are equally deep, each page has one place in one parent, and each
\* row is in the leaf its separators lead to, through any number of leaf, branch
\* and root splits (insert_recursive, insert_into_branch, the new root).
THEOREM SearchTreeHolds == Spec => []SearchTree
<1>1. IInv => SearchTree
  BY SearchTreeIs DEF IInv, Sound
<1> QED BY <1>1, IInvHolds, PTL

LEMMA ChainIntactIs ==
    ASSUME NEW g, Stored(Tree, g, rows)
    PROVE  ChainIntact
<1> DEFINE L == LeafSet(pages)
           first == EndLeaf(pages, root, "asc")
           last == EndLeaf(pages, root, "desc")
           fwd == Chain(pages, first, "asc")
           bwd == Chain(pages, last, "desc")
           a == g.lo
           b == g.hi
           c == Mirrored(g.hi)
           d == Mirrored(g.lo)
           top == MaxId + 2
<1>1. /\ Tree.pages = pages /\ Tree.root = root
      /\ Whole(Space, Tree, g)
  BY DEF Tree, Stored
<1>2. Leaves = L
  BY <1>1, LeavesAre
<1>3. /\ Joins(MaxPages, L, top, a, b, NextOf(pages)) /\ Joins(MaxPages, L, top, c, d, PrevOf(pages))
      /\ IsChain(L, top, a, b, first, fwd) /\ IsChain(L, top, c, d, last, bwd)
  BY <1>1, LeavesJoin, ChainsAre
<1>4. LeafAt(Tree, g, first, 0) /\ LeafAt(Tree, g, last, MaxId + 1)
  BY <1>1, EndLeafIs
<1>5. first \in L /\ last \in L
  BY <1>1, <1>4 DEF LeafAt, LeafSet
<1>6. \A q \in L : /\ q \in PageNo /\ a[q] \in Nat /\ b[q] \in Nat /\ a[q] < b[q] /\ b[q] <= top
                   /\ c[q] = top - b[q] /\ d[q] = top - a[q]
  <2> TAKE q \in L
  <2>1. q \in PageNo /\ a[q] \in Nat /\ b[q] \in Nat /\ a[q] < b[q] /\ b[q] <= top
    BY <1>1, WholeIs DEF LeafSet
  <2>2. g.hi[q] \in Int /\ g.lo[q] \in Int
    BY <2>1
  <2> QED BY <2>1, <2>2, MirroredIs
<1>7. \A q \in L : a[first] <= a[q]
  <2>1. a[first] <= 0
    BY <1>4 DEF LeafAt, Reaches
  <2>2. a[first] \in Nat
    BY <1>5, <1>6
  <2> HIDE DEF L, first
  <2> QED BY <1>6, <2>1, <2>2
<1>8. \A q \in L : c[last] <= c[q]
  <2>1. MaxId + 1 < b[last]
    BY <1>4 DEF LeafAt, Reaches
  <2>2. b[last] \in Nat /\ b[last] <= top /\ c[last] = top - b[last] /\ MaxId \in Nat
    BY <1>5, <1>6, SpaceIs
  <2>3. c[last] = 0
    <3> HIDE DEF last, c, b
    <3> QED BY <2>1, <2>2
  <2> HIDE DEF L, last, c, b
  <2>4. \A q \in L : b[q] \in Nat /\ b[q] <= top /\ c[q] = top - b[q] /\ top \in Nat
    BY <1>6, <2>2
  <2>5. \A q \in L : 0 <= c[q]
    BY <2>4
  <2> QED BY <2>3, <2>5
<1>9. IsFiniteSet(L)
  <2>1. PageNo = 1 .. MaxPages /\ MaxPages \in Nat /\ L \in SUBSET PageNo
    BY SpaceIs DEF PageNo, LeafSet
  <2>2. IsFiniteSet(PageNo)
    BY <2>1, FS_Interval
  <2> HIDE DEF L
  <2> QED BY <2>1, <2>2, FS_Subset
<1>10. Ranked(L, a) /\ Ranked(L, c) /\ Against(L, a, c)
  <2>1. Ranked(L, a)
    BY <1>6 DEF Ranked
  <2>2. top \in Nat
    BY SpaceIs
  <2>3. Ranked(L, c)
    <3> HIDE DEF L, c, b, top
    <3> QED BY <1>6, <2>2 DEF Ranked
  <2>4. ASSUME NEW x \in L, NEW y \in L, a[x] < a[y] PROVE c[y] < c[x]
    <3>1. x # y
      <4> HIDE DEF L, a
      <4>1. a[x] \in Nat
        BY <1>6
      <4> QED BY <2>4, <4>1
    <3>2. b[x] <= a[y] \/ b[y] <= a[x]
      BY <1>3, <3>1 DEF Joins
    <3>3. /\ a[x] \in Nat /\ b[x] \in Nat /\ a[y] \in Nat /\ b[y] \in Nat
          /\ a[x] < b[x] /\ a[y] < b[y] /\ c[x] = top - b[x] /\ c[y] = top - b[y]
      BY <1>6
    <3> HIDE DEF L, a, b, c, d, top
    <3>4. b[x] < b[y]
      BY <2>4, <3>2, <3>3
    <3> QED BY <2>2, <3>3, <3>4
  <2> QED BY <2>1, <2>3, <2>4 DEF Against
<1> HIDE DEF L, first, last, a, b, c, d, top, fwd, bwd
<1>11. Lists(fwd, L, a) /\ Lists(bwd, L, c)
  BY <1>3, <1>5, <1>7, <1>8, ChainLists
<1>12. Len(fwd) = Cardinality(L) /\ {fwd[i] : i \in DOMAIN fwd} = L
  BY <1>9, <1>10, <1>11, ListCounts
<1>13. bwd = Reverse(fwd)
  <2>1. Lists(Reverse(fwd), L, c)
    BY <1>10, <1>11, ReversedLists
  <2> QED BY <1>10, <1>11, <2>1, SameLists
<1> DEFINE ids == FlattenSeq([i \in DOMAIN fwd |-> [j \in DOMAIN pages[fwd[i]].rows |-> pages[fwd[i]].rows[j].id]])
<1>14. ids = MetIds(pages, first, "asc")
  <2>1. DOMAIN fwd = 1 .. Len(fwd) /\ \A i \in 1 .. Len(fwd) : fwd[i] \in L
    BY <1>11, SeqIsFunction DEF Lists
  <2>2. \A i \in DOMAIN fwd : IdsToward(pages, "asc")[fwd[i]]
                              = [j \in DOMAIN pages[fwd[i]].rows |-> pages[fwd[i]].rows[j].id]
    BY <2>1 DEF IdsToward, RowsToward, L
  <2>3. [i \in DOMAIN fwd |-> IdsToward(pages, "asc")[fwd[i]]]
        = [i \in DOMAIN fwd |-> [j \in DOMAIN pages[fwd[i]].rows |-> pages[fwd[i]].rows[j].id]]
    BY <2>2
  <2> QED BY <2>3 DEF MetIds, fwd
<1>15. ASSUME NEW i \in DOMAIN ids, NEW j \in DOMAIN ids, i < j PROVE ids[i] < ids[j]
  <2> DEFINE s == MetIds(pages, first, "asc")
             S == Onward(g, rows, first, "asc")
  <2>1. Lists(s, S, Toward("asc"))
    <3>1. first \in LeafSet(Tree.pages)
      BY <1>1, <1>5 DEF L
    <3> QED BY <1>1, <3>1, MetIdsAre
  <2>2. s = ids
    BY <1>14
  <2>3. S \subseteq Ids
    BY DEF Onward
  <2> HIDE DEF s, S, ids
  <2>4. s \in Seq(S) /\ Rising(s, Toward("asc"))
    BY <2>1 DEF Lists
  <2>5. i \in 1 .. Len(s) /\ j \in 1 .. Len(s)
    BY <2>2, <2>4, SeqIsFunction
  <2>6. s[i] \in Ids /\ s[j] \in Ids /\ Toward("asc")[s[i]] < Toward("asc")[s[j]]
    BY <1>15, <2>3, <2>4, <2>5, SeqIsFunction DEF Rising
  <2>7. s[i] < s[j]
    BY <2>6, TowardIs
  <2> QED BY <2>2, <2>7
<1> QED BY <1>2, <1>12, <1>13, <1>15 DEF ChainIntact, fwd, bwd, first, last

\* The leaf chain, read forwards from the leftmost leaf and backwards from the
\* rightmost, visits every leaf once, in the same order, with ascending ids:
\* split_leaf fixes up next, prev and the old neighbour's prev together.
THEOREM ChainStaysIntact == Spec => []ChainIntact
<1>1. IInv => ChainIntact
  BY ChainIntactIs DEF IInv, Sound
<1> QED BY <1>1, IInvHolds, PTL
-----------------------------------------------------------------------------
(* Lookups in the index. *)

\* The keys of the rows of value v, in id order.
KeysWith(R, v) == LET ids == Ascending({x \in Ids : R[x] = v}) IN [i \in DOMAIN ids |-> <<v, ids[i]>>]

LEMMA KeysWithAre ==
    ASSUME NEW u, IsKeySpace(u), NEW R, KeysOf(R) \subseteq u.keys, NEW v, v # 0
    PROVE  Lists(KeysWith(R, v), Prefixed(KeysOf(R), v), u.rank) /\ Len(KeysWith(R, v)) <= MaxId
<1> DEFINE S == {x \in Ids : R[x] = v}
           ids == Ascending(S)
           K == Prefixed(KeysOf(R), v)
           keys == KeysWith(R, v)
<1>1. /\ ids \in Seq(Ids) /\ \A x \in Ids : x \in S <=> \E i \in 1 .. Len(ids) : ids[i] = x
      /\ \A i, j \in 1 .. Len(ids) : i < j => ids[i] < ids[j]
      /\ Len(ids) <= MaxId
  BY AscendingIs
<1>2. keys = [i \in DOMAIN ids |-> <<v, ids[i]>>]
  BY DEF KeysWith
<1>3. \A k \in K : k = <<v, k[2]>> /\ k[2] \in S
  BY DEF Prefixed, KeysOf
<1>4. \A x \in S : <<v, x>> \in K
  <2> TAKE x \in S
  <2>1. <<v, x>> \in KeysOf(R)
    BY KeysOfIs
  <2> QED BY <2>1 DEF Prefixed
<1>5. K \subseteq u.keys
  BY DEF Prefixed
<1>6. \A i \in 1 .. Len(ids) : ids[i] \in Ids /\ ids[i] \in Nat
  <2>1. Ids \subseteq Nat
    BY SpaceIs DEF Ids
  <2> QED BY <1>1, <2>1, SeqIsFunction
<1> HIDE DEF ids, K, keys
<1>7. Len(ids) \in Nat /\ DOMAIN ids = 1 .. Len(ids)
  BY <1>1, SeqIsFunction
<1>8. keys \in Seq(K)
  <2>1. \A i \in 1 .. Len(ids) : <<v, ids[i]>> \in K
    BY <1>1, <1>4, <1>6
  <2>2. keys \in [1 .. Len(ids) -> K]
    BY <1>2, <1>7, <2>1
  <2> QED BY <1>7, <2>2, FunctionIsSeq
<1>9. Len(keys) = Len(ids) /\ \A i \in 1 .. Len(ids) : keys[i] = <<v, ids[i]>>
  <2>1. DOMAIN keys = 1 .. Len(ids) /\ DOMAIN keys = 1 .. Len(keys) /\ Len(keys) \in Nat
    BY <1>2, <1>7, <1>8, SeqIsFunction
  <2> QED BY <1>2, <1>7, <2>1
<1>10. Rising(keys, u.rank)
  <2> SUFFICES ASSUME NEW i \in 1 .. Len(ids), NEW j \in 1 .. Len(ids), i < j
               PROVE  u.rank[keys[i]] < u.rank[keys[j]]
    BY <1>9 DEF Rising
  <2>1. ids[i] < ids[j]
    BY <1>1
  <2>2. Before(<<v, ids[i]>>, <<v, ids[j]>>)
    BY <2>1 DEF Before
  <2>3. keys[i] \in u.keys /\ keys[j] \in u.keys
    BY <1>5, <1>8, <1>9, SeqIsFunction
  <2> QED BY <1>9, <2>2, <2>3 DEF IsKeySpace
<1>11. ASSUME NEW k \in K PROVE \E i \in 1 .. Len(keys) : keys[i] = k
  <2>1. k = <<v, k[2]>> /\ k[2] \in S /\ k[2] \in Ids
    BY <1>3
  <2>2. PICK i \in 1 .. Len(ids) : ids[i] = k[2]
    BY <1>1, <2>1
  <2> QED BY <1>9, <2>1, <2>2
<1>12. Lists(keys, K, u.rank)
  BY <1>8, <1>10, <1>11 DEF Lists
<1> QED BY <1>1, <1>9, <1>12 DEF K, keys

\* scan_prefix, count_prefix and scan_prefix_limit find the rows that insert,
\* update, update_where, delete and delete_where left with that value, all of
\* them, in id order and once, whatever splits of the index there were:
\* index_update_row leaves no stale key, and no separator leads past a key.
THEOREM IndexLookupsAreExact == Spec => []IndexLookupsExact
<1>1. IInv => IndexLookupsExact
  <2> SUFFICES ASSUME IInv, Indexed, NEW v \in load.sizes
               PROVE  LET keys == KeysWith(rows, v)
                      IN  /\ ScanPrefix(index, v, MaxId) = keys
                          /\ CountPrefix(index, v) = Len(keys)
                          /\ \A max \in 1 .. MaxId : ScanPrefix(index, v, max) = SubSeq(keys, 1, Min({max, Len(keys)}))
    BY DEF IndexLookupsExact, KeysWith
  <2> DEFINE keys == KeysWith(rows, v)
  <2>1. load \in Workloads /\ rows \in [Ids -> load.sizes \cup {0}]
    BY DEF IInv, RowsOK
  <2>2. PICK g : Filed(Keyed, index, g, KeysOf(rows))
    BY DEF IInv, IndexSound
  <2>3. IsKeySpace(Keyed) /\ <<v, 0>> \in Keyed.keys /\ KeysOf(rows) \subseteq Keyed.keys /\ v # 0
        /\ MaxId \in Nat \ {0}
    <3>1. 0 \in 0 .. MaxId /\ v # 0 /\ MaxId \in Nat \ {0}
      BY <2>1, SpaceAssumption
    <3> QED BY <2>1, <3>1, KeyedIs, KeyedKeys
  <2>4. Lists(keys, Prefixed(KeysOf(rows), v), Keyed.rank) /\ Len(keys) <= MaxId
    BY <2>3, KeysWithAre
  <2> HIDE DEF keys
  <2>5. /\ \A max \in Nat \ {0} : ScanPrefix(index, v, max) = SubSeq(keys, 1, Min({max, Len(keys)}))
        /\ \A max \in Nat \ {0} : Len(keys) <= max => ScanPrefix(index, v, max) = keys
        /\ CountPrefix(index, v) = Len(keys)
    BY <2>2, <2>3, <2>4, LookupsByPrefix
  <2>6. \A max \in 1 .. MaxId : max \in Nat \ {0}
    BY <2>3
  <2> QED BY <2>3, <2>4, <2>5, <2>6 DEF keys
<1> QED BY <1>1, IInvHolds, PTL

-----------------------------------------------------------------------------
(* A client paging through the table. *)

\* The first rows or keys of a list, up to a limit.
Firsts(b, S, rank, limit) ==
    /\ b \in Seq(S) /\ Rising(b, rank) /\ Len(b) <= limit
    /\ Len(b) < limit => \A x \in S : \E i \in 1 .. Len(b) : b[i] = x
    /\ Len(b) = limit => /\ Last(b) \in S /\ \A i \in 1 .. Len(b) : rank[b[i]] <= rank[Last(b)]
                         /\ \A x \in S : (\E i \in 1 .. Len(b) : b[i] = x) \/ rank[Last(b)] < rank[x]

LEMMA LastIs ==
    ASSUME NEW S, NEW b, b \in Seq(S), Len(b) # 0, NEW rank, Ranked(S, rank), Rising(b, rank)
    PROVE  /\ Last(b) \in S /\ Len(b) \in 1 .. Len(b) /\ b[Len(b)] = Last(b)
           /\ \A i \in 1 .. Len(b) : rank[b[i]] <= rank[Last(b)]
<1>1. Len(b) \in Nat /\ Len(b) \in 1 .. Len(b) /\ Last(b) = b[Len(b)] /\ \A i \in 1 .. Len(b) : b[i] \in S
  BY SeqIsFunction DEF Last
<1>2. ASSUME NEW i \in 1 .. Len(b) PROVE rank[b[i]] <= rank[Last(b)]
  <2>1. rank[b[i]] \in Int /\ rank[Last(b)] \in Int
    BY <1>1 DEF Ranked
  <2>2. CASE i = Len(b)
    BY <1>1, <2>1, <2>2
  <2>3. CASE i < Len(b)
    <3>1. rank[b[i]] < rank[Last(b)]
      BY <1>1, <2>3 DEF Rising
    <3> QED BY <2>1, <3>1
  <2> QED BY <1>1, <2>2, <2>3
<1> QED BY <1>1, <1>2

LEMMA FirstsOf ==
    ASSUME NEW s, NEW S, NEW rank, Ranked(S, rank), Lists(s, S, rank), NEW limit \in Nat \ {0}
    PROVE  Firsts(SubSeq(s, 1, Min({limit, Len(s)})), S, rank, limit)
<1> DEFINE n == Min({limit, Len(s)})
           b == SubSeq(s, 1, n)
<1>1. s \in Seq(S) /\ Len(s) \in Nat /\ \A x \in S : \E i \in 1 .. Len(s) : s[i] = x
  BY SeqIsFunction DEF Lists
<1>2. n = IF limit <= Len(s) THEN limit ELSE Len(s)
  BY <1>1, Lesser
<1>3. n \in 0 .. Len(s) /\ n <= limit
  <2> HIDE DEF n
  <2> QED BY <1>1, <1>2
<1> HIDE DEF n
<1>4. Heads(b, S, rank) /\ Len(b) = n /\ \A i \in 1 .. n : b[i] = s[i]
  BY <1>3, HeadsOf
<1> HIDE DEF b
<1>5. /\ b \in Seq(S) /\ Rising(b, rank)
      /\ \A x \in S : (\E i \in 1 .. Len(b) : b[i] = x) \/ (\A i \in 1 .. Len(b) : rank[b[i]] < rank[x])
  BY <1>4 DEF Heads
<1>6. ASSUME Len(b) < limit, NEW x \in S PROVE \E i \in 1 .. Len(b) : b[i] = x
  <2>1. n = Len(s)
    BY <1>1, <1>2, <1>4, <1>6
  <2> QED BY <1>1, <1>4, <2>1
<1>7. ASSUME Len(b) = limit
      PROVE  /\ Last(b) \in S /\ \A i \in 1 .. Len(b) : rank[b[i]] <= rank[Last(b)]
             /\ \A x \in S : (\E i \in 1 .. Len(b) : b[i] = x) \/ rank[Last(b)] < rank[x]
  <2>1. Len(b) # 0
    BY <1>7
  <2>2. /\ Last(b) \in S /\ Len(b) \in 1 .. Len(b) /\ b[Len(b)] = Last(b)
        /\ \A i \in 1 .. Len(b) : rank[b[i]] <= rank[Last(b)]
    BY <1>5, <2>1, LastIs
  <2> QED BY <1>5, <2>2
<1>8. Firsts(b, S, rank, limit)
  BY <1>3, <1>4, <1>5, <1>6, <1>7 DEF Firsts
<1> QED BY <1>8 DEF b, n

\* A client c has been shown members of D in order, none beyond its token, and
\* all of those it has to be shown that are not beyond its token; once it is
\* done, all of those it has to be shown.
Shown(D, face, c, none) ==
    /\ c.seen \in Seq(D) /\ Rising(c.seen, face)
    /\ c.at = "open" => c.after \in D \cup {none}
    /\ c.at = "open" => \A i \in 1 .. Len(c.seen) : c.after # none /\ face[c.seen[i]] <= face[c.after]
    /\ \A m \in c.must : /\ m \in D
                         /\ \/ \E i \in 1 .. Len(c.seen) : c.seen[i] = m
                            \/ c.at = "open" /\ (c.after = none \/ face[c.after] < face[m])

\* One more batch b: what is beyond the client's token, and all of it that the
\* client has to be shown and that is not beyond the new token.
NextBatch(D, face, c, none, b, at, after) ==
    /\ b \in Seq(D) /\ Rising(b, face)
    /\ \A i \in 1 .. Len(b) : c.after = none \/ face[c.after] < face[b[i]]
    /\ at = "open" => /\ after \in D /\ (c.after = none \/ face[c.after] <= face[after])
                      /\ \A i \in 1 .. Len(b) : face[b[i]] <= face[after]
    /\ \A m \in c.must : c.after = none \/ face[c.after] < face[m] =>
          (\E i \in 1 .. Len(b) : b[i] = m) \/ (at = "open" /\ face[after] < face[m])

LEMMA MoreShown ==
    ASSUME NEW D, NEW face, Ranked(D, face), NEW none, none \notin D, NEW c, Shown(D, face, c, none), c.at = "open",
           NEW b, NEW at, NEW after, NextBatch(D, face, c, none, b, at, after),
           NEW c2, c2.seen = c.seen \o b, c2.after = after, c2.at = at, c2.must = c.must
    PROVE  Shown(D, face, c2, none)
<1> DEFINE s == c.seen
           n == Len(s)
           k == Len(b)
           r == s \o b
<1>1. /\ s \in Seq(D) /\ b \in Seq(D) /\ n \in Nat /\ k \in Nat
      /\ \A i \in 1 .. n : s[i] \in D /\ face[s[i]] \in Int
      /\ \A i \in 1 .. k : b[i] \in D /\ face[b[i]] \in Int
  BY SeqIsFunction DEF Shown, NextBatch, Ranked
<1>2. /\ r \in Seq(D) /\ Len(r) = n + k
      /\ \A i \in 1 .. n : i \in 1 .. n + k /\ r[i] = s[i]
      /\ \A i \in 1 .. k : n + i \in 1 .. n + k /\ r[n + i] = b[i]
      /\ \A i \in 1 .. n + k : i \notin 1 .. n => i - n \in 1 .. k /\ r[i] = b[i - n]
  BY <1>1
<1>3. c.after \in D \cup {none} /\ (c.after # none => face[c.after] \in Int)
  BY DEF Shown, Ranked
<1>4. \A i \in 1 .. n : c.after # none /\ face[s[i]] <= face[c.after]
  BY DEF Shown
<1>5. \A i \in 1 .. k : c.after = none \/ face[c.after] < face[b[i]]
  BY DEF NextBatch
<1> HIDE DEF s, n, k, r
<1>6. Rising(r, face)
  <2> SUFFICES ASSUME NEW i \in 1 .. n + k, NEW j \in 1 .. n + k, i < j PROVE face[r[i]] < face[r[j]]
    BY <1>2 DEF Rising
  <2>1. CASE j \in 1 .. n
    <3>1. i \in 1 .. n
      BY <1>1, <2>1
    <3>2. \A a, d \in 1 .. n : a < d => face[s[a]] < face[s[d]]
      BY DEF Shown, Rising, s, n
    <3> QED BY <1>2, <2>1, <3>1, <3>2
  <2>2. CASE i \notin 1 .. n
    <3>1. j \notin 1 .. n
      BY <1>1, <2>2
    <3>2. i - n \in 1 .. k /\ r[i] = b[i - n] /\ j - n \in 1 .. k /\ r[j] = b[j - n]
      BY <1>2, <2>2, <3>1
    <3>3. i - n < j - n
      BY <1>1
    <3>4. \A a, d \in 1 .. k : a < d => face[b[a]] < face[b[d]]
      BY DEF NextBatch, Rising, k
    <3> QED BY <3>2, <3>3, <3>4
  <2>3. CASE i \in 1 .. n /\ j \notin 1 .. n
    <3>1. r[i] = s[i] /\ j - n \in 1 .. k /\ r[j] = b[j - n]
      BY <1>2, <2>3
    <3>2. c.after # none /\ face[s[i]] <= face[c.after] /\ face[c.after] < face[b[j - n]]
      BY <1>4, <1>5, <2>3, <3>1
    <3>3. face[s[i]] \in Int /\ face[c.after] \in Int /\ face[b[j - n]] \in Int
      BY <1>1, <1>3, <2>3, <3>1, <3>2
    <3>4. face[s[i]] < face[b[j - n]]
      BY <3>2, <3>3
    <3> QED BY <3>1, <3>4
  <2> QED BY <2>1, <2>2, <2>3
<1>7. ASSUME at = "open", NEW i \in 1 .. n + k PROVE after # none /\ face[r[i]] <= face[after]
  <2>1. after \in D /\ face[after] \in Int /\ (c.after = none \/ face[c.after] <= face[after])
    BY <1>7 DEF NextBatch, Ranked
  <2>2. CASE i \in 1 .. n
    <3>1. c.after # none /\ face[s[i]] <= face[c.after] /\ face[c.after] <= face[after]
      BY <1>4, <2>1, <2>2
    <3>2. face[s[i]] <= face[after]
      BY <1>1, <1>3, <2>1, <2>2, <3>1
    <3> QED BY <1>2, <2>1, <2>2, <3>2
  <2>3. CASE i \notin 1 .. n
    <3>1. i - n \in 1 .. k /\ r[i] = b[i - n]
      BY <1>2, <2>3
    <3>2. \A j \in 1 .. k : face[b[j]] <= face[after]
      BY <1>7 DEF NextBatch, k
    <3> QED BY <2>1, <3>1, <3>2
  <2> QED BY <2>2, <2>3
<1>8. ASSUME NEW m \in c.must
      PROVE  /\ m \in D
             /\ (\E i \in 1 .. n + k : r[i] = m) \/ (at = "open" /\ (after = none \/ face[after] < face[m]))
  <2>1. m \in D /\ ((\E i \in 1 .. n : s[i] = m) \/ c.after = none \/ face[c.after] < face[m])
    BY DEF Shown, s, n
  <2>2. CASE \E i \in 1 .. n : s[i] = m
    BY <1>2, <2>1, <2>2
  <2>3. CASE c.after = none \/ face[c.after] < face[m]
    <3>1. (\E i \in 1 .. k : b[i] = m) \/ (at = "open" /\ face[after] < face[m])
      BY <2>3 DEF NextBatch, k
    <3>2. CASE \E i \in 1 .. k : b[i] = m
      BY <1>2, <2>1, <3>2
    <3> QED BY <2>1, <3>1, <3>2
  <2> QED BY <2>1, <2>2, <2>3
<1>9. at = "open" => after \in D \cup {none}
  BY DEF NextBatch
<1> QED BY <1>2, <1>6, <1>7, <1>8, <1>9 DEF Shown, s, r

\* The rows beyond the token of a scan.
RowsBeyond(R, after, dir) == {x \in Ids : R[x] # 0 /\ Beyond(x, after, dir)}
ScanStart(P, r, after, dir) == IF after = 0 THEN EndLeaf(P, r, dir) ELSE LeafFor(P, r, after)

LEMMA TowardRanks ==
    ASSUME NEW dir \in {"asc", "desc"}
    PROVE  /\ Ranked(Ids, Toward(dir)) /\ 0 \notin Ids
           /\ \A x \in Ids : \A after \in Ids \cup {0} :
                 Beyond(x, after, dir) <=> (after = 0 \/ Toward(dir)[after] < Toward(dir)[x])
           /\ \A x, y \in Ids : Toward(dir)[x] = Toward(dir)[y] => x = y
<1>1. Ids \subseteq Nat \ {0} /\ MaxId \in Nat
  BY SpaceIs DEF Ids
<1>2. \A x \in Ids : /\ Toward(dir)[x] \in Int /\ (dir = "asc" => Toward(dir)[x] = x)
                     /\ (dir # "asc" => Toward(dir)[x] = (MaxId + 1) - x)
  BY TowardIs
<1>3. ASSUME NEW x \in Ids, NEW after \in Ids \cup {0}
      PROVE  Beyond(x, after, dir) <=> (after = 0 \/ Toward(dir)[after] < Toward(dir)[x])
  <2>1. CASE after = 0
    BY <2>1 DEF Beyond
  <2>2. CASE after \in Ids /\ dir = "asc"
    BY <1>1, <1>2, <2>2 DEF Beyond
  <2>3. CASE after \in Ids /\ dir # "asc"
    <3>1. Toward(dir)[after] = (MaxId + 1) - after /\ Toward(dir)[x] = (MaxId + 1) - x
      BY <1>2, <2>3
    <3>2. x < after <=> (MaxId + 1) - after < (MaxId + 1) - x
      BY <1>1, <2>3
    <3> QED BY <1>1, <2>3, <3>1, <3>2 DEF Beyond
  <2> QED BY <2>1, <2>2, <2>3
<1>4. ASSUME NEW x \in Ids, NEW y \in Ids, Toward(dir)[x] = Toward(dir)[y] PROVE x = y
  <2>1. CASE dir = "asc"
    BY <1>2, <1>4, <2>1
  <2>2. CASE dir # "asc"
    <3>1. (MaxId + 1) - x = (MaxId + 1) - y
      BY <1>2, <1>4, <2>2
    <3> QED BY <1>1, <3>1
  <2> QED BY <2>1, <2>2
<1> QED BY <1>1, <1>2, <1>3, <1>4 DEF Ranked

\* From the leaf scan_from starts at, nothing beyond the token is missed.
LEMMA ScanStartIs ==
    ASSUME NEW t, NEW g, NEW R, Stored(t, g, R), NEW dir \in {"asc", "desc"}, NEW after \in Ids \cup {0}
    PROVE  /\ ScanStart(t.pages, t.root, after, dir) \in LeafSet(t.pages)
           /\ \A x \in Ids : Beyond(x, after, dir) /\ R[x] # 0
                                => x \in Onward(g, R, ScanStart(t.pages, t.root, after, dir), dir)
<1> DEFINE p == ScanStart(t.pages, t.root, after, dir)
           z == IF after # 0 THEN after ELSE IF dir = "asc" THEN 0 ELSE MaxId + 1
<1>1. Whole(Space, t, g) /\ MaxId \in Nat /\ Ids = 1 .. MaxId
  BY SpaceIs DEF Stored, Ids
<1>2. LeafAt(t, g, p, z)
  <2>1. CASE after = 0
    BY <1>1, <2>1, EndLeafIs DEF ScanStart
  <2>2. CASE after # 0
    <3>1. after \in Nat /\ after < MaxId + 2
      BY <1>1, <2>2
    <3> QED BY <1>1, <2>2, <3>1, PathIs DEF ScanStart
  <2> QED BY <2>1, <2>2
<1> HIDE DEF p
<1>3. p \in PageNo /\ p \in LeafSet(t.pages) /\ g.lo[p] <= z /\ z < g.hi[p]
  BY <1>2 DEF LeafAt, LeafSet, Reaches
<1>4. g.lo[p] \in Nat /\ g.hi[p] \in Nat
  BY <1>1, <1>3, WholeIs
<1>5. ASSUME NEW x \in Ids, Beyond(x, after, dir), R[x] # 0 PROVE x \in Onward(g, R, p, dir)
  <2>1. x \in Nat /\ 0 < x /\ x < MaxId + 1 /\ after \in Nat
    BY <1>1
  <2>2. CASE dir = "asc"
    <3>1. z = after /\ (after = 0 \/ x > after)
      BY <1>5, <2>2 DEF Beyond
    <3>2. g.lo[p] <= x
      BY <1>3, <1>4, <2>1, <3>1
    <3> QED BY <1>5, <2>2, <3>2 DEF Onward
  <2>3. CASE dir # "asc"
    <3>1. z = MaxId + 1 \/ (z = after /\ x < after)
      BY <1>5, <2>3 DEF Beyond
    <3>2. x < g.hi[p]
      <4> HIDE DEF z
      <4> QED BY <1>1, <1>3, <1>4, <2>1, <3>1
    <3> QED BY <1>5, <2>3, <3>2 DEF Onward
  <2> QED BY <2>2, <2>3
<1> QED BY <1>3, <1>5 DEF p

\* The ids scan_from meets on the pages of the chain.
LEMMA MetOnPages ==
    ASSUME NEW t, NEW g, Whole(Space, t, g), NEW p \in LeafSet(t.pages), NEW dir \in {"asc", "desc"}
    PROVE  \A i \in DOMAIN Chain(t.pages, p, dir) : Chain(t.pages, p, dir)[i] \in LeafSet(t.pages)
<1> DEFINE L == LeafSet(t.pages)
           s == Chain(t.pages, p, dir)
<1>1. /\ Joins(MaxPages, L, MaxId + 2, g.lo, g.hi, NextOf(t.pages))
      /\ Joins(MaxPages, L, MaxId + 2, Mirrored(g.hi), Mirrored(g.lo), PrevOf(t.pages))
  BY LeavesJoin
<1>2. s \in Seq(L)
  <2>1. CASE dir = "asc"
    <3>1. s = Follow(NextOf(t.pages), p, MaxPages)
      BY <2>1 DEF Chain, NextOf
    <3> HIDE DEF s, L
    <3>2. IsChain(L, MaxId + 2, g.lo, g.hi, p, s)
      BY <1>1, <3>1, ChainIs DEF L
    <3> QED BY <3>2 DEF IsChain
  <2>2. CASE dir = "desc"
    <3>1. s = Follow(PrevOf(t.pages), p, MaxPages)
      BY <2>2 DEF Chain, PrevOf
    <3> HIDE DEF s, L
    <3>2. IsChain(L, MaxId + 2, Mirrored(g.hi), Mirrored(g.lo), p, s)
      BY <1>1, <3>1, ChainIs DEF L
    <3> QED BY <3>2 DEF IsChain
  <2> QED BY <2>1, <2>2
<1> HIDE DEF s, L
<1>3. \A i \in DOMAIN s : s[i] \in L
  BY <1>2, SeqIsFunction
<1> QED BY <1>3 DEF s, L

\* A batch of the ids met.
Batched(met, after, dir, limit, keep) ==
    LET candidates == Picked(met, {i \in DOMAIN met : Beyond(met[i], after, dir)})
        kept == Picked(candidates, {i \in DOMAIN candidates : candidates[i] \in keep})
        batch == SubSeq(kept, 1, Min({limit, Len(kept)}))
    IN  [ids |-> batch, last |-> IF Len(batch) = limit /\ Last(batch) # Last(candidates) THEN Last(batch) ELSE 0]
IdsMet(P, p, dir) ==
    LET ids(q) == LET s == P[q].rows
                      t == IF dir = "asc" THEN s ELSE Reverse(s)
                  IN  [i \in DOMAIN t |-> t[i].id]
        leaves == Chain(P, p, dir)
    IN  FlattenSeq([i \in DOMAIN leaves |-> ids(leaves[i])])

\* scan_from: the first rows that match among those beyond the token, and a
\* token when there may be more.
ScanFromGives(t, R, after, dir, limit, keep, candidates, batch) ==
    /\ Lists(candidates, RowsBeyond(R, after, dir), Toward(dir))
    /\ Firsts(batch, RowsBeyond(R, after, dir) \cap keep, Toward(dir), limit)
    /\ ScanFrom(t.pages, t.root, after, dir, limit, keep)
          = [ids |-> batch,
             last |-> IF Len(batch) = limit /\ Last(batch) # Last(candidates) THEN Last(batch) ELSE 0]
LEMMA ScanFromIs ==
    ASSUME NEW t, NEW g, NEW R, Stored(t, g, R), NEW dir \in {"asc", "desc"}, NEW after \in Ids \cup {0},
           NEW limit \in Nat \ {0}, NEW keep
    PROVE  \E candidates, batch : ScanFromGives(t, R, after, dir, limit, keep, candidates, batch)
<1> DEFINE P == t.pages
           p == ScanStart(P, t.root, after, dir)
           met == MetIds(P, p, dir)
           C == {i \in DOMAIN met : Beyond(met[i], after, dir)}
           candidates == Picked(met, C)
           K == {i \in DOMAIN candidates : candidates[i] \in keep}
           kept == Picked(candidates, K)
           batch == SubSeq(kept, 1, Min({limit, Len(kept)}))
           O == Onward(g, R, p, dir)
           B == RowsBeyond(R, after, dir)
           rank == Toward(dir)
<1>1. Whole(Space, t, g) /\ p \in LeafSet(P) /\ \A x \in Ids : Beyond(x, after, dir) /\ R[x] # 0 => x \in O
  BY ScanStartIs DEF Stored
<1>2. met = IdsMet(P, p, dir)
  <2> DEFINE c == Chain(P, p, dir)
  <2>1. \A i \in DOMAIN c : c[i] \in LeafSet(P)
    BY <1>1, MetOnPages
  <2> HIDE DEF c
  <2>2. \A i \in DOMAIN c : IdsToward(P, dir)[c[i]] = LET s == P[c[i]].rows
                                                         u == IF dir = "asc" THEN s ELSE Reverse(s)
                                                     IN  [j \in DOMAIN u |-> u[j].id]
    BY <2>1 DEF IdsToward, RowsToward
  <2>3. [i \in DOMAIN c |-> IdsToward(P, dir)[c[i]]]
        = [i \in DOMAIN c |-> LET s == P[c[i]].rows
                                  u == IF dir = "asc" THEN s ELSE Reverse(s)
                              IN  [j \in DOMAIN u |-> u[j].id]]
    BY <2>2
  <2>4. FlattenSeq([i \in DOMAIN c |-> IdsToward(P, dir)[c[i]]])
        = FlattenSeq([i \in DOMAIN c |-> LET s == P[c[i]].rows
                                             u == IF dir = "asc" THEN s ELSE Reverse(s)
                                         IN  [j \in DOMAIN u |-> u[j].id]])
    BY <2>3
  <2> QED BY <2>4 DEF MetIds, IdsMet, c
<1>3. ScanFrom(P, t.root, after, dir, limit, keep)
        = [ids |-> batch, last |-> IF Len(batch) = limit /\ Last(batch) # Last(candidates) THEN Last(batch) ELSE 0]
  <2>1. limit # 0
    OBVIOUS
  <2>2. ScanFrom(P, t.root, after, dir, limit, keep)
          = Batched(IdsMet(P, ScanStart(P, t.root, after, dir), dir), after, dir, limit, keep)
    BY <2>1 DEF ScanFrom, Batched, IdsMet, ScanStart
  <2>3. ScanFrom(P, t.root, after, dir, limit, keep) = Batched(met, after, dir, limit, keep)
    BY <1>2, <2>2
  <2> HIDE DEF met
  <2> QED BY <2>3 DEF Batched
<1>4. Lists(met, O, rank)
  BY <1>1, MetIdsAre
<1>5. Ranked(Ids, rank) /\ O \subseteq Ids
  BY TowardRanks DEF Onward
<1> HIDE DEF met, O, rank, p
<1>6. Lists(candidates, O \cap B, rank)
  <2>1. met \in Seq(O)
    BY <1>4 DEF Lists
  <2>2. \A i \in 1 .. Len(met) : i \in C <=> met[i] \in B
    <3>1. \A x \in O : x \in Ids /\ R[x] # 0
      BY DEF O, Onward
    <3>2. DOMAIN met = 1 .. Len(met) /\ \A i \in 1 .. Len(met) : met[i] \in O
      BY <2>1, SeqIsFunction
    <3> QED BY <3>1, <3>2 DEF RowsBeyond
  <2> HIDE DEF C, B
  <2> QED BY <1>4, <2>2, PickedLists
<1>7. O \cap B = B
  BY <1>1 DEF RowsBeyond
<1> HIDE DEF C, candidates, B
<1>8. Lists(candidates, B, rank)
  BY <1>6, <1>7
<1>9. Lists(kept, B \cap keep, rank)
  <2>1. candidates \in Seq(B)
    BY <1>8 DEF Lists
  <2>2. \A i \in 1 .. Len(candidates) : i \in K <=> candidates[i] \in keep
    BY <2>1, SeqIsFunction
  <2> HIDE DEF K
  <2> QED BY <1>8, <2>2, PickedLists
<1>10. Ranked(B \cap keep, rank)
  BY <1>5, <1>7 DEF Ranked
<1> HIDE DEF K, kept
<1>11. Firsts(batch, B \cap keep, rank, limit)
  BY <1>9, <1>10, FirstsOf
<1> HIDE DEF batch
<1>12. ScanFromGives(t, R, after, dir, limit, keep, candidates, batch)
  BY <1>3, <1>8, <1>11 DEF ScanFromGives, B, rank
<1> QED BY <1>12

LEMMA FacingRanks ==
    ASSUME NEW u, IsKeySpace(u), NEW dir \in {"asc", "desc"}
    PROVE  /\ Ranked(u.keys, Facing(u, dir)) /\ <<>> \notin u.keys
           /\ \A k \in u.keys : \A after \in u.keys \cup {<<>>} :
                 PastBound(k, after, dir) <=> (after = <<>> \/ Facing(u, dir)[after] < Facing(u, dir)[k])
           /\ \A j, k \in u.keys : Facing(u, dir)[j] < Facing(u, dir)[k]
                 => IF dir = "asc" THEN Before(j, k) ELSE Before(k, j)
<1>1. /\ u.keys \subseteq Nat \X Nat
      /\ \A a, b \in u.keys : Before(a, b) <=> u.rank[a] < u.rank[b]
  BY DEF IsKeySpace
<1>2. /\ \A k \in u.keys : /\ Facing(u, dir)[k] \in Int
                           /\ Facing(u, dir)[k] = IF dir = "asc" THEN u.rank[k] ELSE (u.top - 1) - u.rank[k]
                           /\ u.rank[k] \in Nat
      /\ u.top \in Nat
  BY FacingIs
<1>3. <<>> \notin u.keys
  <2>1. \A k \in Nat \X Nat : k # <<>>
    <3> TAKE k \in Nat \X Nat
    <3>1. k = <<k[1], k[2]>>
      OBVIOUS
    <3> QED BY <3>1
  <2> QED BY <1>1, <2>1
<1>4. \A j, k \in u.keys : Facing(u, dir)[j] < Facing(u, dir)[k]
                              <=> IF dir = "asc" THEN Before(j, k) ELSE Before(k, j)
  <2> TAKE j, k \in u.keys
  <2>1. u.rank[j] \in Nat /\ u.rank[k] \in Nat
    BY <1>2
  <2>2. CASE dir = "asc"
    BY <1>1, <1>2, <2>2
  <2>3. CASE dir # "asc"
    <3>1. Facing(u, dir)[j] = (u.top - 1) - u.rank[j] /\ Facing(u, dir)[k] = (u.top - 1) - u.rank[k]
      BY <1>2, <2>3
    <3>2. Facing(u, dir)[j] < Facing(u, dir)[k] <=> u.rank[k] < u.rank[j]
      BY <1>2, <2>1, <3>1
    <3> QED BY <1>1, <2>3, <3>2
  <2> QED BY <2>2, <2>3
<1>5. ASSUME NEW k \in u.keys, NEW after \in u.keys \cup {<<>>}
      PROVE  PastBound(k, after, dir) <=> (after = <<>> \/ Facing(u, dir)[after] < Facing(u, dir)[k])
  <2>1. CASE after = <<>>
    BY <2>1 DEF PastBound
  <2>2. CASE after \in u.keys
    BY <1>3, <1>4, <2>2 DEF PastBound
  <2> QED BY <2>1, <2>2
<1> QED BY <1>2, <1>3, <1>4, <1>5 DEF Ranked

\* scan_from_key: the first keys beyond the token.
LEMMA IndexBatchIs ==
    ASSUME NEW u, NEW t, NEW g, NEW K, Filed(u, t, g, K), NEW dir \in {"asc", "desc"},
           NEW after \in u.keys \cup {<<>>}, NEW limit \in Nat \ {0}
    PROVE  Firsts(ScanFromKey(t, after, dir, limit), ScannedPast(u, K, after, dir), Facing(u, dir), limit)
<1>1. PICK past : KeyScan(u, t, K, after, dir, limit, past)
  BY ScanFromKeyIs
<1>0. /\ Lists(past, ScannedPast(u, K, after, dir), Facing(u, dir))
      /\ ScanFromKey(t, after, dir, limit) = SubSeq(past, 1, Min({limit, Len(past)}))
  BY <1>1 DEF KeyScan
<1>2. Ranked(ScannedPast(u, K, after, dir), Facing(u, dir))
  <2>1. IsKeySpace(u) /\ K \subseteq u.keys
    BY DEF Filed
  <2> QED BY <2>1, FacingRanks DEF Ranked, ScannedPast
<1>3. Firsts(SubSeq(past, 1, Min({limit, Len(past)})), ScannedPast(u, K, after, dir), Facing(u, dir), limit)
  BY <1>0, <1>2, FirstsOf
<1> QED BY <1>0, <1>3

\* What the client is shown of a batch of keys.
ShowsOf(d, b, S, T, rank) ==
    /\ d \in Seq(S) /\ Rising(d, rank)
    /\ \A i \in 1 .. Len(d) : \E j \in 1 .. Len(b) : d[i] = b[j]
    /\ \A j \in 1 .. Len(b) : b[j] \in T => \E i \in 1 .. Len(d) : d[i] = b[j]
LEMMA ShownOfFirsts ==
    ASSUME NEW S, NEW rank, NEW b, NEW limit, Firsts(b, S, rank, limit), NEW I, NEW T,
           \A i \in 1 .. Len(b) : i \in I <=> b[i] \in T
    PROVE  ShowsOf(Picked(b, I), b, S, T, rank)
<1> DEFINE A == {b[j] : j \in 1 .. Len(b)}
           d == Picked(b, I)
<1>1. b \in Seq(S) /\ Rising(b, rank) /\ A \subseteq S
  BY SeqIsFunction DEF Firsts
<1>2. Lists(b, A, rank)
  <2>1. \A j \in 1 .. Len(b) : b[j] \in A
    OBVIOUS
  <2>2. \A x \in A : \E j \in 1 .. Len(b) : b[j] = x
    OBVIOUS
  <2> HIDE DEF A
  <2>3. b \in Seq(A)
    BY <1>1, <2>1, SeqInto
  <2> QED BY <1>1, <2>2, <2>3 DEF Lists
<1> HIDE DEF A
<1>3. Lists(d, A \cap T, rank)
  BY <1>2, PickedLists
<1> HIDE DEF d
<1>4. d \in Seq(A \cap T) /\ Rising(d, rank) /\ \A x \in A \cap T : \E i \in 1 .. Len(d) : d[i] = x
  BY <1>3 DEF Lists
<1>5. \A i \in 1 .. Len(d) : d[i] \in A /\ d[i] \in S
  BY <1>1, <1>4, SeqIsFunction
<1>6. d \in Seq(S)
  BY <1>4, <1>5, SeqInto
<1> QED BY <1>4, <1>5, <1>6 DEF A, d, ShowsOf

\* The invariant of the client s, of which P are the places it may have to be
\* shown.
Sees(s, P, D, face, none) ==
    s.at # "idle" =>
        /\ s.dir \in {"asc", "desc"} /\ s.limit \in Nat \ {0} /\ s.keep \subseteq Ids
        /\ s.must \subseteq P /\ Shown(D, face, s, none)
Follows(s, R) ==
    /\ Indexed => Sees(s, Positions(R, s.keep), Keyed.keys, Facing(Keyed, s.dir), <<>>)
    /\ ~Indexed => Sees(s, Positions(R, s.keep), Ids, Toward(s.dir), 0)
ScanSound == Follows(scan, rows)

LEMMA FollowsNext ==
    ASSUME UNCHANGED load, Follows(scan', rows')
    PROVE  ScanSound'
<1>1. Keyed' = Keyed /\ Indexed' = Indexed
  BY DEF Keyed, Indexed
<1>2. Positions(rows, scan.keep)' = Positions(rows', scan'.keep)
  BY <1>1 DEF Positions
<1>3. Indexed => Sees(scan', Positions(rows', scan'.keep), Keyed.keys, Facing(Keyed, scan'.dir), <<>>)
  BY DEF Follows
<1>4. ~Indexed => Sees(scan', Positions(rows', scan'.keep), Ids, Toward(scan'.dir), 0)
  BY DEF Follows
<1> QED BY <1>1, <1>2, <1>3, <1>4 DEF ScanSound, Follows

LEMMA PositionsAre ==
    ASSUME NEW R, NEW keep, keep \subseteq Ids
    PROVE  /\ Indexed => Positions(R, keep) = {k \in KeysOf(R) : k[2] \in keep}
           /\ ~Indexed => Positions(R, keep) = {x \in Ids : R[x] # 0 /\ x \in keep}
<1>1. ASSUME Indexed PROVE Positions(R, keep) = {k \in KeysOf(R) : k[2] \in keep}
  <2>1. Positions(R, keep) = {<<R[x], x>> : x \in {x \in keep : R[x] # 0}}
    BY <1>1 DEF Positions
  <2>2. \A k \in Positions(R, keep) : k \in KeysOf(R) /\ k[2] \in keep
    BY <2>1 DEF KeysOf
  <2>3. \A k \in KeysOf(R) : k[2] \in keep => k \in Positions(R, keep)
    BY <2>1 DEF KeysOf
  <2> QED BY <2>2, <2>3
<1>2. ASSUME ~Indexed PROVE Positions(R, keep) = {x \in Ids : R[x] # 0 /\ x \in keep}
  BY <1>2 DEF Positions
<1> QED BY <1>1, <1>2

LEMMA MustNarrows ==
    ASSUME NEW R, NEW R2, NEW keep, keep \subseteq Ids, NEW must, must \subseteq Positions(R, keep)
    PROVE  must \cap Positions(R2, Ids) \subseteq Positions(R2, keep)
<1>1. ASSUME Indexed, NEW m \in must, m \in Positions(R2, Ids) PROVE m \in Positions(R2, keep)
  <2>1. m[2] \in keep /\ m \in KeysOf(R2)
    BY <1>1, PositionsAre
  <2> QED BY <1>1, <2>1, PositionsAre
<1>2. ASSUME ~Indexed, NEW m \in must, m \in Positions(R2, Ids) PROVE m \in Positions(R2, keep)
  BY <1>2, PositionsAre
<1> QED BY <1>1, <1>2

\* A change of the table: what the client has to be shown shrinks to what stays.
Narrows(s, s2, P2) ==
    /\ s2.at = s.at /\ s2.dir = s.dir /\ s2.limit = s.limit /\ s2.keep = s.keep
    /\ s2.after = s.after /\ s2.seen = s.seen /\ s2.must \subseteq s.must /\ s2.must \subseteq P2
LEMMA SeesLess ==
    ASSUME NEW s, NEW s2, NEW P, NEW P2, NEW D, NEW face, NEW none, Sees(s, P, D, face, none), Narrows(s, s2, P2)
    PROVE  Sees(s2, P2, D, face, none)
BY DEF Sees, Shown, Narrows

LEMMA FollowsLess ==
    ASSUME ScanOK, ScanSound, NEW R,
           scan' = IF scan.at = "idle" THEN scan ELSE [scan EXCEPT !.must = @ \cap Positions(R, Ids)]
    PROVE  Follows(scan', R)
<1>1. CASE scan = NoScan
  BY <1>1 DEF NoScan, Follows, Sees
<1>2. CASE Paging(scan)
  <2> DEFINE m == scan.must \cap Positions(R, Ids)
  <2>1. scan' = [scan EXCEPT !.must = m] /\ scan.at # "idle"
    BY <1>2 DEF Paging
  <2>2. m \subseteq scan.must
    OBVIOUS
  <2>3. m \subseteq Positions(R, scan.keep)
    <3>1. scan.keep \subseteq Ids /\ scan.must \subseteq Positions(rows, scan.keep)
      BY <2>1 DEF ScanSound, Follows, Sees
    <3> QED BY <3>1, MustNarrows
  <2> HIDE DEF m
  <2>4. /\ scan'.at = scan.at /\ scan'.dir = scan.dir /\ scan'.limit = scan.limit /\ scan'.keep = scan.keep
        /\ scan'.after = scan.after /\ scan'.seen = scan.seen /\ scan'.must = m
    BY <1>2, <2>1 DEF Paging
  <2>5. Narrows(scan, scan', Positions(R, scan'.keep))
    BY <2>2, <2>3, <2>4 DEF Narrows
  <2>6. ASSUME Indexed
        PROVE  Sees(scan', Positions(R, scan'.keep), Keyed.keys, Facing(Keyed, scan'.dir), <<>>)
    <3>1. Sees(scan, Positions(rows, scan.keep), Keyed.keys, Facing(Keyed, scan.dir), <<>>)
      BY <2>6 DEF ScanSound, Follows
    <3>2. Sees(scan', Positions(R, scan'.keep), Keyed.keys, Facing(Keyed, scan.dir), <<>>)
      BY <2>5, <3>1, SeesLess
    <3> QED BY <2>4, <3>2
  <2>7. ASSUME ~Indexed PROVE Sees(scan', Positions(R, scan'.keep), Ids, Toward(scan'.dir), 0)
    <3>1. Sees(scan, Positions(rows, scan.keep), Ids, Toward(scan.dir), 0)
      BY <2>7 DEF ScanSound, Follows
    <3> DEFINE none == 0
    <3> HIDE DEF none
    <3>2. Sees(scan, Positions(rows, scan.keep), Ids, Toward(scan.dir), none)
      BY <3>1 DEF none
    <3>3. Sees(scan', Positions(R, scan'.keep), Ids, Toward(scan.dir), none)
      BY <2>5, <3>2, SeesLess
    <3> QED BY <2>4, <3>3 DEF none
  <2> QED BY <2>6, <2>7 DEF Follows
<1> QED BY <1>1, <1>2 DEF ScanOK

LEMMA ChangeApplies ==
    ASSUME Change
    PROVE  \E result, present, touched : Apply(result, present, touched)
<1>1. ASSUME NEW x, NEW size, Insert(x, size) PROVE \E result, present, touched : Apply(result, present, touched)
  BY <1>1 DEF Insert
<1>2. ASSUME NEW x, NEW size, Update(x, size) PROVE \E result, present, touched : Apply(result, present, touched)
  BY <1>2 DEF Update
<1>3. ASSUME NEW x, Delete(x) PROVE \E result, present, touched : Apply(result, present, touched)
  BY <1>3 DEF Delete
<1>4. ASSUME NEW S, DeleteWhere(S) PROVE \E result, present, touched : Apply(result, present, touched)
  BY <1>4 DEF DeleteWhere
<1>5. ASSUME NEW S, NEW size, UpdateWhere(S, size) PROVE \E result, present, touched : Apply(result, present, touched)
  BY <1>5 DEF UpdateWhere
<1> QED BY <1>1, <1>2, <1>3, <1>4, <1>5 DEF Change

LEMMA ChangeFollows ==
    ASSUME ScanOK, ScanSound, Change, UNCHANGED load
    PROVE  ScanSound'
<1>1. PICK result, present, touched : Apply(result, present, touched)
  BY ChangeApplies
<1>2. \/ /\ rows' = present
         /\ scan' = IF scan.at = "idle" THEN scan ELSE [scan EXCEPT !.must = @ \cap Positions(present, Ids)]
      \/ UNCHANGED <<rows, scan>>
  BY <1>1 DEF Apply
<1>3. CASE UNCHANGED <<rows, scan>>
  BY <1>3, FollowsNext DEF ScanSound
<1>4. CASE /\ rows' = present
           /\ scan' = IF scan.at = "idle" THEN scan ELSE [scan EXCEPT !.must = @ \cap Positions(present, Ids)]
  <2>1. Follows(scan', present)
    BY <1>4, FollowsLess
  <2> QED BY <1>4, <2>1, FollowsNext
<1> QED BY <1>2, <1>3, <1>4

\* scan_batch: what is shown is what the next batch holds.
Advanced(s, b, at, after) == [s EXCEPT !.seen = @ \o b, !.after = after, !.at = at]
Goes(s, P, D, face, none) ==
    Paging(s) /\ s.at = "open" /\ Ranked(D, face) /\ none \notin D /\ Sees(s, P, D, face, none)
Went(s, s2, P, D, face, none) == Sees(s2, P, D, face, none) /\ s2.dir = s.dir /\ s2.keep = s.keep
LEMMA ScanAdvances ==
    ASSUME NEW c, NEW P, NEW D, NEW face, NEW none, Goes(c, P, D, face, none),
           NEW b, NEW at, NEW after, NextBatch(D, face, c, none, b, at, after)
    PROVE  Went(c, Advanced(c, b, at, after), P, D, face, none)
<1> DEFINE r == c.seen \o b
           s == Advanced(c, b, at, after)
<1>1. s = [c EXCEPT !.seen = r, !.after = after, !.at = at]
  BY DEF Advanced
<1>2. Shown(D, face, c, none) /\ Ranked(D, face) /\ none \notin D /\ c.at = "open"
  BY DEF Sees, Goes
<1> HIDE DEF r, s
<1>3. /\ s.seen = r /\ s.after = after /\ s.at = at
      /\ s.must = c.must /\ s.dir = c.dir /\ s.limit = c.limit /\ s.keep = c.keep
  BY <1>1 DEF Paging, Goes
<1>4. s.seen = c.seen \o b
  BY <1>3 DEF r
<1>5. Shown(D, face, s, none)
  BY <1>2, <1>3, <1>4, MoreShown
<1>6. Sees(s, P, D, face, none)
  BY <1>2, <1>3, <1>5 DEF Sees, Goes
<1> QED BY <1>3, <1>6 DEF Went, s

LEMMA RowBatchFollows ==
    ASSUME IInv, ScanSound, ScanBatch, UNCHANGED load
    PROVE  ScanSound'
<1> DEFINE dir == scan.dir
           after == scan.after
           limit == scan.limit
           keep == scan.keep
           face == Toward(dir)
           S == RowsBeyond(rows, after, dir) \cap keep
           P == Positions(rows, keep)
<1>1. Paging(scan) /\ scan.at = "open" /\ ~Indexed /\ UNCHANGED rows
  BY DEF ScanBatch, IInv, ScanOK, NoScan
<1>2. Sees(scan, P, Ids, face, 0)
  BY <1>1 DEF ScanSound, Follows
<1>3. /\ dir \in {"asc", "desc"} /\ limit \in Nat \ {0} /\ keep \subseteq Ids
      /\ scan.must \subseteq P /\ after \in Ids \cup {0}
  BY <1>1, <1>2 DEF Sees, Shown
<1>4. /\ Ranked(Ids, face) /\ 0 \notin Ids
      /\ \A x \in Ids : Beyond(x, after, dir) <=> (after = 0 \/ face[after] < face[x])
      /\ \A x, y \in Ids : face[x] = face[y] => x = y
  BY <1>3, TowardRanks
<1>5. PICK g : Stored(Tree, g, rows)
  BY DEF IInv, Sound
<1>6. Tree.pages = pages /\ Tree.root = root
  BY DEF Tree
<1>7. PICK candidates, batch : ScanFromGives(Tree, rows, after, dir, limit, keep, candidates, batch)
  BY <1>3, <1>5, ScanFromIs
<1> DEFINE more == Len(batch) = limit /\ Last(batch) # Last(candidates)
           last == IF more THEN Last(batch) ELSE 0
           at == IF last = 0 THEN "done" ELSE "open"
<1>8. /\ Lists(candidates, RowsBeyond(rows, after, dir), face)
      /\ Firsts(batch, S, face, limit)
      /\ ScanFrom(pages, root, after, dir, limit, keep) = [ids |-> batch, last |-> last]
  BY <1>6, <1>7 DEF ScanFromGives
<1>9. scan' = Advanced(scan, batch, at, last)
  <2> HIDE DEF last
  <2> QED BY <1>8 DEF ScanBatch, Advanced
<1>10. S \subseteq Ids /\ \A x \in Ids : x \in S <=> x \in P /\ (after = 0 \/ face[after] < face[x])
  <2>1. P = {x \in Ids : rows[x] # 0 /\ x \in keep}
    BY <1>1, <1>3, PositionsAre
  <2> QED BY <1>4, <2>1 DEF RowsBeyond
<1>11. Len(batch) = limit =>
          /\ Last(batch) \in S /\ \A i \in 1 .. Len(batch) : face[batch[i]] <= face[Last(batch)]
          /\ \A x \in S : (\E i \in 1 .. Len(batch) : batch[i] = x) \/ face[Last(batch)] < face[x]
  BY <1>8 DEF Firsts
<1>12. /\ batch \in Seq(S) /\ Rising(batch, face) /\ Len(batch) <= limit /\ Len(batch) \in Nat
       /\ Len(batch) < limit => \A x \in S : \E i \in 1 .. Len(batch) : batch[i] = x
       /\ \A i \in 1 .. Len(batch) : batch[i] \in S
  BY <1>8, SeqIsFunction DEF Firsts
<1>13. at = "open" <=> more
  <2>1. more => Last(batch) # 0
    BY <1>4, <1>10, <1>11
  <2> QED BY <2>1
\* A row beyond the batch is a candidate, so the batch does not end with the last candidate.
<1>14. ASSUME Len(batch) = limit, NEW x \in S, face[Last(batch)] < face[x] PROVE more
  <2> DEFINE C == RowsBeyond(rows, after, dir)
  <2>1. x \in C /\ C \subseteq Ids
    BY <1>14 DEF RowsBeyond
  <2> HIDE DEF C
  <2>2. candidates \in Seq(C) /\ Rising(candidates, face) /\ \A y \in C : \E i \in 1 .. Len(candidates) : candidates[i] = y
    BY <1>8 DEF Lists, C
  <2>3. PICK i \in 1 .. Len(candidates) : candidates[i] = x
    BY <2>1, <2>2
  <2>4. Len(candidates) # 0 /\ Ranked(C, face)
    BY <1>4, <2>1, <2>2, <2>3, SeqIsFunction DEF Ranked
  <2>5. Last(candidates) \in C /\ face[x] <= face[Last(candidates)]
    BY <2>2, <2>3, <2>4, LastIs
  <2>6. face[x] \in Int /\ face[Last(candidates)] \in Int /\ face[Last(batch)] \in Int
    BY <1>4, <1>10, <1>11, <1>14, <2>1, <2>5 DEF Ranked
  <2>7. Last(batch) # Last(candidates)
    BY <1>14, <2>5, <2>6
  <2> QED BY <1>14, <2>7
<1>15. more => Len(batch) = limit /\ last = Last(batch)
  OBVIOUS
<1> HIDE DEF more, last, at, S, P, face
<1>16. batch \in Seq(Ids)
  BY <1>10, <1>12, SeqInto
<1>17. ASSUME NEW m \in scan.must, after = 0 \/ face[after] < face[m]
       PROVE  (\E i \in 1 .. Len(batch) : batch[i] = m) \/ (at = "open" /\ face[last] < face[m])
  <2>1. m \in P /\ m \in Ids
    BY <1>1, <1>3, PositionsAre DEF P
  <2>2. m \in S
    BY <1>10, <1>17, <2>1
  <2>3. CASE Len(batch) < limit
    BY <1>12, <2>2, <2>3
  <2>4. CASE Len(batch) = limit
    BY <1>11, <1>13, <1>14, <1>15, <2>2, <2>4
  <2> QED BY <1>3, <1>12, <2>3, <2>4
<1>18. ASSUME at = "open"
       PROVE  /\ last \in Ids /\ (after = 0 \/ face[after] <= face[last])
              /\ \A i \in 1 .. Len(batch) : face[batch[i]] <= face[last]
  <2>1. Len(batch) = limit /\ last = Last(batch) /\ last \in S /\ last \in Ids
    BY <1>10, <1>11, <1>13, <1>15, <1>18
  <2>2. after = 0 \/ face[after] < face[last]
    BY <1>10, <2>1
  <2>3. after # 0 => face[after] \in Int
    BY <1>3, <1>4 DEF Ranked
  <2>4. face[last] \in Int
    BY <1>4, <2>1 DEF Ranked
  <2>5. after = 0 \/ face[after] <= face[last]
    BY <2>2, <2>3, <2>4
  <2> QED BY <1>11, <2>1, <2>5
<1>19. \A i \in 1 .. Len(batch) : after = 0 \/ face[after] < face[batch[i]]
  BY <1>10, <1>12
<1>20. NextBatch(Ids, face, scan, 0, batch, at, last)
  BY <1>12, <1>16, <1>17, <1>18, <1>19 DEF NextBatch
<1>21. Sees(scan', P, Ids, face, 0) /\ scan'.dir = dir /\ scan'.keep = keep
  <2>1. Goes(scan, P, Ids, face, 0)
    BY <1>1, <1>2, <1>4 DEF Goes
  <2> DEFINE none == 0
  <2>2. Goes(scan, P, Ids, face, none) /\ NextBatch(Ids, face, scan, none, batch, at, last)
    BY <1>20, <2>1
  <2> HIDE DEF none
  <2>3. Went(scan, scan', P, Ids, face, none)
    BY <1>9, <2>2, ScanAdvances
  <2> QED BY <2>3 DEF Went, none
<1>22. Follows(scan', rows')
  BY <1>1, <1>21 DEF Follows, face, P
<1> QED BY <1>22, FollowsNext

LEMMA IndexBatchFollows ==
    ASSUME IInv, ScanSound, ScanIndexBatch, UNCHANGED load
    PROVE  ScanSound'
<1> DEFINE u == Keyed
           dir == scan.dir
           after == scan.after
           limit == scan.limit
           keep == scan.keep
           face == Facing(u, dir)
           S == ScannedPast(u, KeysOf(rows), after, dir)
           T == {k \in u.keys : k[2] \in keep}
           P == Positions(rows, keep)
           keys == ScanFromKey(index, after, dir, limit)
           I == {i \in DOMAIN keys : Search(pages, root, keys[i][2]) # 0 /\ keys[i][2] \in keep}
           batch == Picked(keys, I)
           last == IF Len(keys) < limit THEN <<>> ELSE Last(keys)
           at == IF last = <<>> THEN "done" ELSE "open"
<1>1. Paging(scan) /\ scan.at = "open" /\ Indexed /\ UNCHANGED rows
  BY DEF ScanIndexBatch, IInv, ScanOK, NoScan
<1>2. Sees(scan, P, u.keys, face, <<>>)
  BY <1>1 DEF ScanSound, Follows
<1>3. /\ dir \in {"asc", "desc"} /\ limit \in Nat \ {0} /\ keep \subseteq Ids
      /\ scan.must \subseteq P /\ after \in u.keys \cup {<<>>}
  BY <1>1, <1>2 DEF Sees, Shown
<1>4. scan' = Advanced(scan, batch, at, last)
  BY DEF ScanIndexBatch, Advanced
<1>5. PICK g : Filed(u, index, g, KeysOf(rows))
  BY <1>1 DEF IInv, IndexSound
<1>6. IsKeySpace(u) /\ KeysOf(rows) \subseteq u.keys
  BY <1>5 DEF Filed
<1>7. Firsts(keys, S, face, limit)
  <2> HIDE DEF u
  <2> QED BY <1>3, <1>5, IndexBatchIs
<1>8. /\ Ranked(u.keys, face) /\ <<>> \notin u.keys
      /\ \A k \in u.keys : PastBound(k, after, dir) <=> (after = <<>> \/ face[after] < face[k])
  <2> HIDE DEF u
  <2> QED BY <1>3, <1>6, FacingRanks
<1>9. \A k \in KeysOf(rows) : Search(pages, root, k[2]) # 0 /\ k[2] \in Ids
  <2>1. PICK h : Stored(Tree, h, rows)
    BY DEF IInv, Sound
  <2>2. Tree.pages = pages /\ Tree.root = root
    BY DEF Tree
  <2>3. \A x \in Ids : Search(pages, root, x) = rows[x]
    BY <2>1, <2>2, SearchIs
  <2> QED BY <2>3 DEF KeysOf
<1> HIDE DEF u, keys, face
<1>10. S \subseteq u.keys /\ S \subseteq KeysOf(rows) /\ \A k \in u.keys : k \in S
                                 <=> k \in KeysOf(rows) /\ (after = <<>> \/ face[after] < face[k])
  BY <1>6, <1>8 DEF ScannedPast
<1>11. P = {k \in KeysOf(rows) : k[2] \in keep}
  BY <1>1, <1>3, PositionsAre
<1> HIDE DEF S, P
<1>12. /\ keys \in Seq(S) /\ Len(keys) <= limit /\ Len(keys) \in Nat /\ DOMAIN keys = 1 .. Len(keys)
       /\ Len(keys) < limit => \A x \in S : \E i \in 1 .. Len(keys) : keys[i] = x
       /\ \A i \in 1 .. Len(keys) : keys[i] \in S
       /\ Len(keys) = limit =>
            /\ Last(keys) \in S /\ \A i \in 1 .. Len(keys) : face[keys[i]] <= face[Last(keys)]
            /\ \A x \in S : (\E i \in 1 .. Len(keys) : keys[i] = x) \/ face[Last(keys)] < face[x]
  BY <1>7, SeqIsFunction DEF Firsts
<1>13. /\ batch \in Seq(S) /\ Rising(batch, face)
       /\ \A i \in 1 .. Len(batch) : \E j \in 1 .. Len(keys) : batch[i] = keys[j]
       /\ \A j \in 1 .. Len(keys) : keys[j] \in T => \E i \in 1 .. Len(batch) : batch[i] = keys[j]
  <2>1. \A i \in 1 .. Len(keys) : i \in I <=> keys[i] \in T
    BY <1>9, <1>10, <1>12
  <2> HIDE DEF I, T
  <2>2. ShowsOf(Picked(keys, I), keys, S, T, face)
    BY <1>7, <2>1, ShownOfFirsts
  <2> HIDE DEF batch
  <2>3. ShowsOf(batch, keys, S, T, face)
    BY <2>2 DEF batch
  <2> QED BY <2>3 DEF ShowsOf
<1>14. \A m \in P : m \in u.keys /\ m \in T /\ m \in KeysOf(rows)
  BY <1>6, <1>11
<1>15. at = "open" => Len(keys) = limit /\ last = Last(keys)
  BY <1>3, <1>12
<1>16. Len(keys) = limit => at = "open"
  <2>1. Len(keys) = limit => last = Last(keys) /\ last \in u.keys
    BY <1>3, <1>10, <1>12
  <2> QED BY <1>8, <2>1
<1> HIDE DEF I, T, batch, last, at
<1>17. batch \in Seq(u.keys) /\ \A i \in 1 .. Len(batch) : batch[i] \in S
  <2>1. \A i \in 1 .. Len(batch) : batch[i] \in S /\ batch[i] \in u.keys
    BY <1>10, <1>13, SeqIsFunction
  <2> QED BY <1>13, <2>1, SeqInto
<1>18. ASSUME NEW m \in scan.must, after = <<>> \/ face[after] < face[m]
       PROVE  (\E i \in 1 .. Len(batch) : batch[i] = m) \/ (at = "open" /\ face[last] < face[m])
  <2>1. m \in u.keys /\ m \in T /\ m \in S
    BY <1>3, <1>10, <1>14, <1>18
  <2>2. ASSUME NEW j \in 1 .. Len(keys), keys[j] = m PROVE \E i \in 1 .. Len(batch) : batch[i] = m
    BY <1>13, <2>1, <2>2
  <2>3. CASE Len(keys) < limit
    BY <1>12, <2>1, <2>2, <2>3
  <2>4. CASE Len(keys) = limit
    BY <1>12, <1>15, <1>16, <2>1, <2>2, <2>4
  <2> QED BY <1>3, <1>12, <2>3, <2>4
<1>19. ASSUME at = "open"
       PROVE  /\ last \in u.keys /\ (after = <<>> \/ face[after] <= face[last])
              /\ \A i \in 1 .. Len(batch) : face[batch[i]] <= face[last]
  <2>1. Len(keys) = limit /\ last = Last(keys) /\ last \in S /\ last \in u.keys
    BY <1>10, <1>12, <1>15, <1>19
  <2>2. after = <<>> \/ face[after] < face[last]
    BY <1>10, <2>1
  <2>3. after # <<>> => face[after] \in Int
    BY <1>3, <1>8 DEF Ranked
  <2>4. face[last] \in Int
    BY <1>8, <2>1 DEF Ranked
  <2>5. after = <<>> \/ face[after] <= face[last]
    BY <2>2, <2>3, <2>4
  <2>6. \A i \in 1 .. Len(batch) : face[batch[i]] <= face[last]
    BY <1>12, <1>13, <2>1
  <2> QED BY <2>1, <2>5, <2>6
<1>20. \A i \in 1 .. Len(batch) : after = <<>> \/ face[after] < face[batch[i]]
  BY <1>10, <1>17
<1>21. NextBatch(u.keys, face, scan, <<>>, batch, at, last)
  BY <1>13, <1>17, <1>18, <1>19, <1>20 DEF NextBatch
<1>22. Sees(scan', P, u.keys, face, <<>>) /\ scan'.dir = dir /\ scan'.keep = keep
  <2>1. Goes(scan, P, u.keys, face, <<>>)
    BY <1>1, <1>2, <1>8 DEF Goes
  <2> DEFINE none == <<>>
  <2>2. Goes(scan, P, u.keys, face, none) /\ NextBatch(u.keys, face, scan, none, batch, at, last)
    BY <1>21, <2>1
  <2> HIDE DEF none
  <2>3. Went(scan, scan', P, u.keys, face, none)
    BY <1>4, <2>2, ScanAdvances
  <2> QED BY <2>3 DEF Went, none
<1>23. Follows(scan', rows')
  BY <1>1, <1>22 DEF Follows, face, P, u
<1> QED BY <1>23, FollowsNext

LEMMA StartFollows ==
    ASSUME RowsOK, NEW dir \in {"asc", "desc"}, NEW limit \in load.limits, NEW keep, keep \subseteq Ids,
           StartScan(dir, limit, keep), UNCHANGED load
    PROVE  ScanSound'
<1> DEFINE none == IF Indexed THEN <<>> ELSE 0
           m == Positions(rows, keep)
           s == [at |-> "open", dir |-> dir, limit |-> limit, keep |-> keep, after |-> none, seen |-> <<>>, must |-> m]
<1>1. scan' = s /\ UNCHANGED rows
  BY DEF StartScan
<1>2. limit \in Nat \ {0}
  BY SpaceAssumption DEF RowsOK
<1>3. /\ s.at = "open" /\ s.dir = dir /\ s.limit = limit /\ s.keep = keep /\ s.after = none
      /\ s.seen = <<>> /\ s.must = m
  <2> HIDE DEF none, m
  <2> QED OBVIOUS
<1> HIDE DEF s, m
<1>4. ASSUME NEW D, NEW face, m \subseteq D PROVE Sees(s, m, D, face, none)
  <2>1. <<>> \in Seq(D) /\ Len(<<>>) = 0 /\ Rising(<<>>, face)
    BY DEF Rising
  <2>2. \A i \in 1 .. Len(<<>>) : FALSE
    OBVIOUS
  <2> HIDE DEF none
  <2>3. Shown(D, face, s, none)
    BY <1>3, <1>4, <2>1, <2>2 DEF Shown
  <2> QED BY <1>2, <1>3, <2>3 DEF Sees
<1>5. CASE Indexed
  <2>1. m \subseteq Keyed.keys
    <3>1. KeysOf(rows) \subseteq Keyed.keys
      BY KeyedKeys DEF RowsOK
    <3> QED BY <1>5, <3>1, PositionsAre DEF m
  <2>2. Sees(s, m, Keyed.keys, Facing(Keyed, dir), <<>>)
    BY <1>4, <1>5, <2>1
  <2>3. Follows(scan', rows')
    BY <1>1, <1>3, <1>5, <2>2 DEF Follows, m
  <2> QED BY <2>3, FollowsNext
<1>6. CASE ~Indexed
  <2>1. m \subseteq Ids
    BY <1>6, PositionsAre DEF m
  <2>2. Sees(s, m, Ids, Toward(dir), 0)
    BY <1>4, <1>6, <2>1
  <2>3. Follows(scan', rows')
    BY <1>1, <1>3, <1>6, <2>2 DEF Follows, m
  <2> QED BY <2>3, FollowsNext
<1> QED BY <1>5, <1>6

LEMMA IdleFollows ==
    ASSUME NEW s, s.at = "idle", NEW R
    PROVE  Follows(s, R)
BY DEF Follows, Sees

LEMMA ScanSoundHolds == Spec => []ScanSound
<1>1. Init => ScanSound
  BY IdleFollows DEF Init, NoScan, ScanSound
<1>2. IInv /\ ScanSound /\ [Next]_vars => ScanSound'
  <2>1. ASSUME IInv, ScanSound, Change, UNCHANGED load PROVE ScanSound'
    BY <2>1, ChangeFollows DEF IInv
  <2>2. ASSUME IInv, ScanSound, Page, UNCHANGED load PROVE ScanSound'
    <3>1. ASSUME NEW dir \in {"asc", "desc"}, NEW limit \in load.limits, NEW keep \in {Ids, {x \in Ids : x % 2 = 0}},
                 StartScan(dir, limit, keep)
          PROVE  ScanSound'
      <4>1. keep \subseteq Ids
        OBVIOUS
      <4> QED BY <2>2, <3>1, <4>1, StartFollows DEF IInv
    <3>2. CASE ScanBatch
      BY <2>2, <3>2, RowBatchFollows
    <3>3. CASE ScanIndexBatch
      BY <2>2, <3>3, IndexBatchFollows
    <3>4. CASE EndScan
      <4>1. scan'.at = "idle"
        BY <3>4 DEF EndScan, NoScan
      <4>2. Follows(scan', rows')
        BY <4>1, IdleFollows
      <4> QED BY <2>2, <4>2, FollowsNext
    <3> QED BY <2>2, <3>1, <3>2, <3>3, <3>4 DEF Page
  <2>3. ASSUME ScanSound, UNCHANGED vars PROVE ScanSound'
    BY <2>3, FollowsNext DEF vars, ScanSound
  <2> QED BY <2>1, <2>2, <2>3 DEF Next
<1> QED BY <1>1, <1>2, IInvHolds, PTL DEF Spec

\* Paging with scan_batch, in either direction, in row or in index order, shows
\* every matching row that stayed in the table under the same key, once and in
\* order, whatever was inserted, moved or deleted, and whatever split, between
\* two batches: the token of scan_from and scan_from_key loses none and repeats
\* none, even when its own row is gone.
THEOREM ScansTile == Spec => []ScanTiles
<1>1. IInv /\ ScanSound => ScanTiles
  <2> SUFFICES ASSUME IInv, ScanSound, scan.at # "idle"
               PROVE  /\ \A i, j \in DOMAIN scan.seen : i < j =>
                            LET a == scan.seen[i]
                                b == scan.seen[j]
                            IN  IF scan.dir = "asc" THEN IF Indexed THEN Before(a, b) ELSE a < b
                                ELSE IF Indexed THEN Before(b, a) ELSE b < a
                      /\ scan.at = "done" => scan.must \subseteq ToSet(scan.seen)
    BY DEF ScanTiles
  <2>1. ASSUME NEW D, NEW face, NEW none, NEW P, Sees(scan, P, D, face, none)
        PROVE  /\ scan.dir \in {"asc", "desc"}
               /\ scan.at = "done" => scan.must \subseteq ToSet(scan.seen)
               /\ \A i, j \in DOMAIN scan.seen : i < j =>
                     /\ scan.seen[i] \in D /\ scan.seen[j] \in D
                     /\ face[scan.seen[i]] < face[scan.seen[j]]
    <3> DEFINE s == scan.seen
    <3>1. /\ scan.dir \in {"asc", "desc"} /\ s \in Seq(D) /\ Rising(s, face)
          /\ \A m \in scan.must : (\E i \in 1 .. Len(s) : s[i] = m) \/ scan.at = "open"
      BY <2>1 DEF Sees, Shown
    <3> HIDE DEF s
    <3>2. DOMAIN s = 1 .. Len(s) /\ \A i \in 1 .. Len(s) : s[i] \in D
      BY <3>1, SeqIsFunction
    <3>3. scan.at = "done" => scan.must \subseteq ToSet(s)
      BY <3>1, <3>2 DEF ToSet
    <3> QED BY <3>1, <3>2, <3>3 DEF Rising, s
  <2>2. CASE Indexed
    <3> DEFINE u == Keyed
    <3>1. Sees(scan, Positions(rows, scan.keep), u.keys, Facing(u, scan.dir), <<>>)
      BY <2>2 DEF ScanSound, Follows
    <3>2. IsKeySpace(u)
      BY KeyedIs DEF IInv, RowsOK
    <3> HIDE DEF u
    <3>3. /\ scan.dir \in {"asc", "desc"}
          /\ scan.at = "done" => scan.must \subseteq ToSet(scan.seen)
          /\ \A i, j \in DOMAIN scan.seen : i < j =>
                /\ scan.seen[i] \in u.keys /\ scan.seen[j] \in u.keys
                /\ Facing(u, scan.dir)[scan.seen[i]] < Facing(u, scan.dir)[scan.seen[j]]
      BY <2>1, <3>1
    <3>4. \A j, k \in u.keys : Facing(u, scan.dir)[j] < Facing(u, scan.dir)[k]
                                 => IF scan.dir = "asc" THEN Before(j, k) ELSE Before(k, j)
      BY <3>2, <3>3, FacingRanks
    <3> QED BY <2>2, <3>3, <3>4
  <2>3. CASE ~Indexed
    <3>1. Sees(scan, Positions(rows, scan.keep), Ids, Toward(scan.dir), 0)
      BY <2>3 DEF ScanSound, Follows
    <3>2. /\ scan.dir \in {"asc", "desc"}
          /\ scan.at = "done" => scan.must \subseteq ToSet(scan.seen)
          /\ \A i, j \in DOMAIN scan.seen : i < j =>
                /\ scan.seen[i] \in Ids /\ scan.seen[j] \in Ids
                /\ Toward(scan.dir)[scan.seen[i]] < Toward(scan.dir)[scan.seen[j]]
      BY <2>1, <3>1
    <3>3. \A x, y \in Ids : Toward(scan.dir)[x] < Toward(scan.dir)[y]
                              => IF scan.dir = "asc" THEN x < y ELSE y < x
      <4> TAKE x, y \in Ids
      <4>1. x \in Int /\ y \in Int /\ MaxId \in Int
        BY SpaceIs DEF Ids
      <4> QED BY <4>1, TowardIs
    <3> QED BY <2>3, <3>2, <3>3
  <2> QED BY <2>2, <2>3
<1> QED BY <1>1, IInvHolds, ScanSoundHolds, PTL

=============================================================================
