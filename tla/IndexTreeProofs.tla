---------------------------- MODULE IndexTreeProofs ----------------------------
(***************************************************************************)
(* The index tree of IndexTree, for every number of keys and pages and     *)
(* every page size: what its readers give and its writers leave behind.    *)
(***************************************************************************)
EXTENDS IndexTree, BPlusTreeProofs

-----------------------------------------------------------------------------
(* The places of an index tree: those of finitely many keys, in key order. *)

IsKeySpace(u) ==
    /\ IsSpace(u) /\ u.n = IndexPages /\ u.keys \subseteq Nat \X Nat
    /\ \A a, b \in u.keys : /\ Before(a, b) <=> u.rank[a] < u.rank[b]
                            /\ u.rank[a] = u.rank[b] => a = b

LEMMA IndexIs ==
    /\ IndexCap \in Nat \ {0} /\ IndexKeys \in Nat \ {0} /\ IndexPages \in Nat \ {0}
    /\ IndexPage = 1 .. IndexPages
BY IndexAssumption DEF IndexPage

\* The keys of K with places from l to h - 1.
Shelf(u, K, l, h) == {k \in K : l <= u.rank[k] /\ u.rank[k] < h}

\* Every leaf holds the keys of its places, and no more than it has room for.
LeafFiles(u, b, l, h, K) ==
    /\ b = IndexLeaf(b.keys, b.prev, b.next)
    /\ Lists(b.keys, Shelf(u, K, l, h), u.rank) /\ Len(b.keys) <= IndexCap
Files(u, P, g, K) ==
    \A p \in IndexPage : P[p].kind = "leaf" => LeafFiles(u, P[p], g.lo[p], g.hi[p], K)
Filed(u, t, g, K) == IsKeySpace(u) /\ K \in SUBSET u.keys /\ Whole(u, t, g) /\ Files(u, t.pages, g, K)

\* What the invariants of a tree say of one page.
LEMMA IndexTreeIs ==
    ASSUME NEW u, IsKeySpace(u), NEW t, NEW g, Whole(u, t, g)
    PROVE  /\ IsSpace(u) /\ u.n = IndexPages /\ u.top \in Nat \ {0} /\ IndexPage = 1 .. IndexPages
           /\ DOMAIN t.pages = IndexPage /\ t.free \in 2 .. IndexPages + 1 /\ t.free \in Nat
           /\ t = [pages |-> t.pages, free |-> t.free, root |-> t.root]
           /\ t.root \in IndexPage /\ t.root \in InTree(t.pages) /\ InTree(t.pages) \subseteq IndexPage
           /\ \A p \in IndexPage : g.lo[p] \in Nat /\ g.hi[p] \in Nat /\ g.lv[p] \in Nat
           /\ \A p \in IndexPage : p \in InTree(t.pages) <=> t.pages[p].kind \in {"leaf", "branch"}
           /\ \A p \in IndexPage : /\ t.pages[p] = Unused <=> p >= t.free
                                   /\ t.pages[p].kind = "unused" <=> p >= t.free
           /\ \A p \in InTree(t.pages) : /\ g.lo[p] < g.hi[p] /\ g.hi[p] <= u.top
                                         /\ g.lv[p] = 0 <=> t.pages[p].kind = "leaf"
           /\ \A p, q \in InTree(t.pages) :
                 p # q /\ g.lv[p] = g.lv[q] => g.hi[p] <= g.lo[q] \/ g.hi[q] <= g.lo[p]
           /\ \A p \in IndexPage : t.pages[p].kind = "branch" =>
                 Node(u, InTree(t.pages), t.pages[p], g.lo[p], g.hi[p], g.lv[p], g.lo, g.hi, g.lv)
<1>1. IsSpace(u) /\ u.n = IndexPages /\ u.top \in Nat \ {0} /\ IndexPage = 1 .. IndexPages
  BY IndexIs DEF IsKeySpace, IsSpace
<1>2. Frame(u, t, g) /\ Nodes(u, t, g, g.hi)
  BY DEF Whole, Standing
<1>4. /\ DOMAIN t.pages = 1 .. IndexPages /\ t.free \in 2 .. IndexPages + 1
      /\ InTree(t.pages) \subseteq 1 .. IndexPages
      /\ \A p \in 1 .. IndexPages : g.lo[p] \in Nat /\ g.hi[p] \in Nat /\ g.lv[p] \in Nat
      /\ \A p \in 1 .. IndexPages : p \in InTree(t.pages) <=> t.pages[p].kind \in {"leaf", "branch"}
  BY <1>1, <1>2, FrameIs
<1>5. /\ t = [pages |-> t.pages, free |-> t.free, root |-> t.root]
      /\ t.root \in InTree(t.pages)
      /\ \A p \in 1 .. IndexPages : /\ t.pages[p] = Unused <=> p >= t.free
                                    /\ t.pages[p].kind = "unused" <=> p >= t.free
  BY <1>1, <1>2 DEF Frame
<1>6. /\ \A p \in InTree(t.pages) : /\ g.lo[p] < g.hi[p] /\ g.hi[p] <= u.top
                                    /\ g.lv[p] = 0 <=> t.pages[p].kind = "leaf"
      /\ \A p, q \in InTree(t.pages) :
            p # q /\ g.lv[p] = g.lv[q] => g.hi[p] <= g.lo[q] \/ g.hi[q] <= g.lo[p]
  BY <1>1, <1>2 DEF Frame
<1>7. \A p \in 1 .. IndexPages : t.pages[p].kind = "branch" =>
          Node(u, InTree(t.pages), t.pages[p], g.lo[p], g.hi[p], g.lv[p], g.lo, g.hi, g.lv)
  BY <1>1, <1>2 DEF Nodes
<1>8. t.free \in Nat /\ t.root \in 1 .. IndexPages
  BY <1>1, <1>4, <1>5, IndexIs
<1> QED BY <1>1, <1>4, <1>5, <1>6, <1>7, <1>8

\* The child find_idx_child takes.
LEMMA IndexChildIs ==
    ASSUME NEW u, IsKeySpace(u), NEW t, NEW g, Whole(u, t, g), NEW p \in IndexPage, t.pages[p].kind = "branch",
           NEW k \in u.keys
    PROVE  /\ ChildAt(t.pages, p, IndexChild(t.pages[p], k), t.pages[p].kids[IndexChild(t.pages[p], k)])
           /\ t.pages[p].kids[IndexChild(t.pages[p], k)] \in InTree(t.pages)
           /\ g.lv[t.pages[p].kids[IndexChild(t.pages[p], k)]] + 1 = g.lv[p]
           /\ Reaches(g, p, u.rank[k]) => Reaches(g, t.pages[p].kids[IndexChild(t.pages[p], k)], u.rank[k])
<1> DEFINE b == t.pages[p]
           z == u.rank[k]
           above == {j \in 1 .. Len(b.keys) : z < u.rank[b.keys[j]]}
           i == IndexChild(b, k)
<1>0. IsSpace(u) /\ z \in Nat
  BY DEF IsKeySpace, IsSpace
<1>1. /\ b.kids \in Seq(InTree(t.pages)) /\ b.keys \in Seq(u.keys) /\ Len(b.kids) = Len(b.keys) + 1
      /\ \A j \in 1 .. Len(b.kids) : g.lv[b.kids[j]] + 1 = g.lv[p]
      /\ Node(u, InTree(t.pages), b, g.lo[p], g.hi[p], g.lv[p], g.lo, g.hi, g.lv)
  <2>1. Node(u, InTree(t.pages), b, g.lo[p], g.hi[p], g.lv[p], g.lo, g.hi, g.lv)
    BY IndexTreeIs
  <2> HIDE DEF b
  <2>2. /\ b.kids \in Seq(InTree(t.pages)) /\ b.keys \in Seq(u.keys) /\ Len(b.kids) = Len(b.keys) + 1
        /\ \A j \in 1 .. Len(b.kids) : g.lv[b.kids[j]] + 1 = g.lv[p]
    BY <2>1 DEF Node
  <2> QED BY <2>1, <2>2
<1>2. /\ Len(b.keys) \in Nat /\ DOMAIN b.keys = 1 .. Len(b.keys)
      /\ \A j \in 1 .. Len(b.keys) : b.keys[j] \in u.keys
      /\ \A j \in 1 .. Len(b.kids) : b.kids[j] \in InTree(t.pages)
  BY <1>1, SeqIsFunction
<1>3. {j \in DOMAIN b.keys : Before(k, b.keys[j])} = above
  <2>1. \A j \in 1 .. Len(b.keys) : Before(k, b.keys[j]) <=> z < u.rank[b.keys[j]]
    BY <1>2 DEF IsKeySpace
  <2> HIDE DEF b, z
  <2> QED BY <1>2, <2>1
<1>4. i = FirstOf(Len(b.keys), above)
  BY <1>3 DEF IndexChild
<1>5. i \in 1 .. Len(b.kids)
  <2>1. above \subseteq 1 .. Len(b.keys)
    OBVIOUS
  <2> HIDE DEF above, i, b
  <2>2. i \in 1 .. Len(b.keys) + 1
    BY <1>2, <1>4, <2>1, FirstOfIs
  <2> QED BY <1>1, <2>2
<1>6. ASSUME Reaches(g, p, z) PROVE Reaches(g, b.kids[i], z)
  <2>1. Within(g.lo[p], z, g.hi[p])
    BY <1>0, <1>6, IndexTreeIs DEF Reaches, Within
  <2>2. Ranges(InTree(t.pages), g.lo, g.hi)
    BY IndexTreeIs DEF Ranges
  <2>3. Routes(u, b, z, i)
    BY <1>4 DEF Routes
  <2> HIDE DEF i, b, z
  <2>4. Within(g.lo[b.kids[i]], z, g.hi[b.kids[i]])
    BY <1>0, <1>1, <2>1, <2>2, <2>3, NodeRoutes
  <2> QED BY <2>4 DEF Reaches, Within
<1>7. ChildAt(t.pages, p, i, b.kids[i])
  BY <1>5 DEF ChildAt
<1> QED BY <1>1, <1>2, <1>5, <1>6, <1>7

\* A path ends at the leaf whose range its place is in.
IndexLeafAt(t, g, p, z) == p \in IndexPage /\ p \in InTree(t.pages) /\ t.pages[p].kind = "leaf" /\ Reaches(g, p, z)
IndexSlots(t, path, k) == [i \in DOMAIN path |-> IndexChild(t.pages[path[i]], k)]

LEMMA IndexDescent ==
    ASSUME NEW u, IsKeySpace(u), NEW t, NEW g, Whole(u, t, g), NEW s, NEW z, Descent(t, g, s, z)
    PROVE  /\ s \in Seq(IndexPage) /\ Len(s) \in Nat \ {0} /\ IndexLeafAt(t, g, s[Len(s)], z)
           /\ \A i, j \in 1 .. Len(s) : s[i] = s[j] => i = j
<1>1. /\ s \in Seq(InTree(t.pages)) /\ Len(s) = g.lv[t.root] + 1 /\ s[1] = t.root
      /\ \A i \in 1 .. Len(s) : Reaches(g, s[i], z) /\ g.lv[s[i]] = Len(s) - i
  BY DEF Descent
<1>2. Len(s) \in Nat \ {0} /\ \A i \in 1 .. Len(s) : s[i] \in InTree(t.pages)
  <2>1. g.lv[t.root] \in Nat
    BY IndexTreeIs
  <2> QED BY <1>1, <2>1, SeqIsFunction
<1>3. s \in Seq(IndexPage)
  <2>1. s \in [1 .. Len(s) -> IndexPage]
    BY <1>1, <1>2, IndexTreeIs, SeqIsFunction
  <2> QED BY <1>2, <2>1, FunctionIsSeq
<1>4. s[Len(s)] \in InTree(t.pages) /\ g.lv[s[Len(s)]] = 0 /\ Reaches(g, s[Len(s)], z)
  <2>1. Len(s) \in 1 .. Len(s)
    BY <1>2
  <2>2. Len(s) - Len(s) = 0
    BY <1>2
  <2> QED BY <1>1, <1>2, <2>1, <2>2
<1>5. IndexLeafAt(t, g, s[Len(s)], z)
  BY <1>4, IndexTreeIs DEF IndexLeafAt
<1>6. ASSUME NEW i \in 1 .. Len(s), NEW j \in 1 .. Len(s), s[i] = s[j] PROVE i = j
  <2>1. Len(s) - i = Len(s) - j
    BY <1>1, <1>6
  <2> QED BY <1>2, <2>1
<1> QED BY <1>2, <1>3, <1>5, <1>6

LEMMA IndexPathIs ==
    ASSUME NEW u, IsKeySpace(u), NEW t, NEW g, Whole(u, t, g), NEW k \in u.keys
    PROVE  /\ Descent(t, g, IndexPath(t, k), u.rank[k])
           /\ Route(u, t, IndexPath(t, k), IndexSlots(t, IndexPath(t, k), k))
           /\ IndexLeafAt(t, g, FindLeafForKey(t, k), u.rank[k])
<1> DEFINE P == t.pages
           z == u.rank[k]
           link == [p \in IndexPage |-> IF P[p].kind = "branch" THEN P[p].kids[IndexChild(P[p], k)] ELSE 0]
           s == IndexPath(t, k)
<1>1. /\ IndexPage = 1 .. IndexPages /\ InTree(P) \subseteq IndexPage /\ t.root \in IndexPage
      /\ IsSpace(u) /\ u.n = IndexPages /\ z \in Nat /\ z < u.top /\ IndexPages \in Nat
  <2>1. u.rank[k] \in 0 .. u.top - 1 /\ u.top \in Nat \ {0}
    BY DEF IsKeySpace, IsSpace
  <2>2. z \in Nat /\ z < u.top
    BY <2>1
  <2> QED BY <2>2, IndexTreeIs, IndexIs
<1>2. \A p \in IndexPage : P[p].kind = "branch" =>
          /\ link[p] \in InTree(P) /\ g.lv[link[p]] + 1 = g.lv[p]
          /\ Reaches(g, p, z) => Reaches(g, link[p], z)
          /\ ChildAt(P, p, IndexChild(P[p], k), link[p])
  BY IndexChildIs
<1>3. \A p \in IndexPage : P[p].kind # "branch" => link[p] = 0
  OBVIOUS
<1>4. s = Follow(link, t.root, IndexPages)
  BY DEF IndexPath
<1>5. link \in [IndexPage -> 0 .. IndexPages]
  <2>1. \A p \in IndexPage : link[p] \in 0 .. IndexPages
    <3> TAKE p \in IndexPage
    <3>1. CASE P[p].kind = "branch"
      <4>1. link[p] \in IndexPage
        BY <1>1, <1>2, <3>1
      <4> HIDE DEF link
      <4> QED BY <1>1, <4>1
    <3>2. CASE P[p].kind # "branch"
      <4>1. 0 \in 0 .. IndexPages
        BY <1>1
      <4> QED BY <3>2, <4>1
    <3> QED BY <3>1, <3>2
  <2>2. link = [p \in IndexPage |-> link[p]]
    OBVIOUS
  <2> HIDE DEF link
  <2> QED BY <2>1, <2>2
<1> HIDE DEF link, s, z
<1>6. /\ Descent(t, g, s, z)
      /\ \A i \in 1 .. Len(s) - 1 : s[i + 1] = link[s[i]]
  <2>1. LeadsDown(u, t, g, z, link)
    BY <1>1, <1>2, <1>3, <1>5 DEF LeadsDown
  <2>2. Descent(t, g, Follow(link, t.root, IndexPages), z) /\ Steps(Follow(link, t.root, IndexPages), link)
    BY <1>1, <2>1, Descends
  <2> QED BY <1>4, <2>2 DEF Steps
<1>7. /\ s \in Seq(IndexPage) /\ Len(s) \in Nat \ {0} /\ IndexLeafAt(t, g, s[Len(s)], z)
      /\ \A i, j \in 1 .. Len(s) : s[i] = s[j] => i = j
  BY <1>6, IndexDescent
<1>8. s[1] = t.root /\ \A i \in 1 .. Len(s) : g.lv[s[i]] = Len(s) - i /\ s[i] \in InTree(P)
  <2>1. s \in Seq(InTree(P)) /\ s[1] = t.root /\ \A i \in 1 .. Len(s) : g.lv[s[i]] = Len(s) - i
    BY <1>6 DEF Descent
  <2> QED BY <2>1, SeqIsFunction
<1>9. ASSUME NEW i \in 1 .. Len(s) - 1 PROVE ChildAt(P, s[i], IndexSlots(t, s, k)[i], s[i + 1])
  <2>1. i \in 1 .. Len(s) /\ i # Len(s) /\ Len(s) - i # 0
    BY <1>7
  <2>2. s[i] \in IndexPage /\ P[s[i]].kind = "branch"
    <3>1. s[i] \in InTree(P) /\ g.lv[s[i]] # 0
      BY <1>8, <2>1
    <3> QED BY <3>1, IndexTreeIs
  <2>3. ChildAt(P, s[i], IndexChild(P[s[i]], k), link[s[i]])
    BY <1>2, <2>2
  <2>4. IndexSlots(t, s, k)[i] = IndexChild(P[s[i]], k)
    <3>1. DOMAIN s = 1 .. Len(s)
      BY <1>7, SeqIsFunction
    <3> QED BY <2>1, <3>1 DEF IndexSlots
  <2> QED BY <1>6, <2>3, <2>4
<1>10. Route(u, t, s, IndexSlots(t, s, k))
  BY <1>1, <1>7, <1>8, <1>9 DEF Route
<1>11. FindLeafForKey(t, k) = s[Len(s)]
  BY DEF FindLeafForKey, Last, s
<1> QED BY <1>6, <1>7, <1>10, <1>11 DEF s, z

\* Two leaves never hold the same place.
LEMMA OneIndexLeaf ==
    ASSUME NEW u, IsKeySpace(u), NEW t, NEW g, Whole(u, t, g), NEW p, NEW q, NEW z, z \in Int,
           IndexLeafAt(t, g, p, z), IndexLeafAt(t, g, q, z)
    PROVE  p = q
<1>1. /\ p \in IndexPage /\ q \in IndexPage /\ p \in InTree(t.pages) /\ q \in InTree(t.pages)
      /\ t.pages[p].kind = "leaf" /\ t.pages[q].kind = "leaf"
      /\ g.lo[p] <= z /\ z < g.hi[p] /\ g.lo[q] <= z /\ z < g.hi[q]
  BY DEF IndexLeafAt, Reaches
<1>2. g.lv[p] = 0 /\ g.lv[q] = 0
  BY <1>1, IndexTreeIs
<1>3. p # q => g.hi[p] <= g.lo[q] \/ g.hi[q] <= g.lo[p]
  BY <1>1, <1>2, IndexTreeIs
<1>4. g.lo[p] \in Nat /\ g.hi[p] \in Nat /\ g.lo[q] \in Nat /\ g.hi[q] \in Nat
  BY <1>1, IndexTreeIs
<1> QED BY <1>1, <1>3, <1>4

-----------------------------------------------------------------------------
(* The leaves met by a scan. *)

\* find_leftmost_leaf and find_rightmost_leaf: the leaves of the first and of
\* the last place.
LEMMA IndexEndIs ==
    ASSUME NEW u, IsKeySpace(u), NEW t, NEW g, Whole(u, t, g)
    PROVE  /\ IndexLeafAt(t, g, IndexEnd(t, "asc"), 0)
           /\ IndexLeafAt(t, g, IndexEnd(t, "desc"), u.top - 1)
<1> DEFINE P == t.pages
           Link(dir) == [p \in IndexPage |-> IF P[p].kind # "branch" THEN 0
                                             ELSE IF dir = "asc" THEN P[p].kids[1] ELSE Last(P[p].kids)]
           At(dir) == IF dir = "asc" THEN 0 ELSE u.top - 1
<1>1. /\ IndexPage = 1 .. IndexPages /\ InTree(P) \subseteq IndexPage /\ t.root \in IndexPage
      /\ IsSpace(u) /\ u.n = IndexPages /\ IndexPages \in Nat /\ u.top \in Nat \ {0}
  BY IndexTreeIs, IndexIs
<1>2. ASSUME NEW dir \in {"asc", "desc"}, NEW p \in IndexPage, P[p].kind = "branch"
      PROVE  /\ Link(dir)[p] \in InTree(P) /\ g.lv[Link(dir)[p]] + 1 = g.lv[p]
             /\ Reaches(g, p, At(dir)) => Reaches(g, Link(dir)[p], At(dir))
  <2> DEFINE b == P[p]
             n == Len(b.kids)
             c == IF dir = "asc" THEN 1 ELSE n
  <2>1. /\ b.kids \in Seq(InTree(P)) /\ b.keys \in Seq(u.keys) /\ Len(b.kids) = Len(b.keys) + 1
        /\ \A j \in 1 .. Len(b.kids) : g.lv[b.kids[j]] + 1 = g.lv[p]
        /\ g.lo[b.kids[1]] = g.lo[p] /\ g.hi[b.kids[Len(b.kids)]] = g.hi[p]
    BY <1>2, IndexTreeIs DEF Node
  <2>2. n \in Nat /\ n # 0 /\ c \in 1 .. n
    <3>1. Len(b.keys) \in Nat
      BY <2>1
    <3> HIDE DEF b
    <3> QED BY <2>1, <3>1
  <2>3. Link(dir)[p] = b.kids[c]
    BY <1>2 DEF Last
  <2>4. b.kids[c] \in InTree(P)
    <3> HIDE DEF b, n, c
    <3>1. DOMAIN b.kids = 1 .. n
      BY <2>1, <2>2 DEF n
    <3> QED BY <2>1, <2>2, <3>1
  <2>5. g.lo[b.kids[c]] \in Nat /\ g.hi[b.kids[c]] \in Nat /\ g.lo[b.kids[c]] < g.hi[b.kids[c]]
        /\ g.hi[b.kids[c]] <= u.top
    <3> DEFINE q == b.kids[c]
    <3>1. q \in InTree(P) /\ q \in IndexPage
      BY <1>1, <2>4
    <3> HIDE DEF q
    <3>2. g.lo[q] \in Nat /\ g.hi[q] \in Nat /\ g.lo[q] < g.hi[q] /\ g.hi[q] <= u.top
      BY <3>1, IndexTreeIs
    <3> QED BY <3>2 DEF q
  <2>6. g.lv[b.kids[c]] + 1 = g.lv[p]
    <3> HIDE DEF b, c
    <3> QED BY <2>1, <2>2 DEF n
  <2>7. g.lo[p] \in Nat /\ g.hi[p] \in Nat
    BY IndexTreeIs
  <2>8. ASSUME Reaches(g, p, At(dir)) PROVE Reaches(g, b.kids[c], At(dir))
    <3>1. CASE dir = "asc"
      <4>1. g.lo[b.kids[1]] = g.lo[p] /\ g.lo[p] <= 0 /\ c = 1
        BY <2>1, <2>8, <3>1 DEF Reaches
      <4> HIDE DEF b
      <4> QED BY <2>5, <2>7, <3>1, <4>1 DEF Reaches
    <3>2. CASE dir # "asc"
      <4>1. g.hi[b.kids[n]] = g.hi[p] /\ u.top - 1 < g.hi[p] /\ c = n
        BY <2>1, <2>8, <3>2 DEF Reaches
      <4> HIDE DEF b, n
      <4> QED BY <1>1, <2>5, <2>7, <3>2, <4>1 DEF Reaches
    <3> QED BY <3>1, <3>2
  <2> HIDE DEF Link, b, c, At
  <2> QED BY <2>3, <2>4, <2>6, <2>8
<1>3. ASSUME NEW dir \in {"asc", "desc"} PROVE LeadsDown(u, t, g, At(dir), Link(dir))
  <2>1. \A p \in IndexPage : Link(dir)[p] \in 0 .. IndexPages
    <3> TAKE p \in IndexPage
    <3>1. CASE P[p].kind = "branch"
      <4>1. Link(dir)[p] \in IndexPage
        BY <1>1, <1>2, <3>1
      <4> HIDE DEF Link
      <4> QED BY <1>1, <4>1
    <3>2. CASE P[p].kind # "branch"
      BY <1>1, <3>2
    <3> QED BY <3>1, <3>2
  <2>2. Link(dir) = [p \in IndexPage |-> Link(dir)[p]] /\ \A p \in IndexPage : P[p].kind # "branch" => Link(dir)[p] = 0
    OBVIOUS
  <2> HIDE DEF Link, At
  <2>3. Link(dir) \in [IndexPage -> 0 .. IndexPages]
    BY <2>1, <2>2
  <2> QED BY <1>1, <1>2, <2>2, <2>3 DEF LeadsDown
<1>4. ASSUME NEW dir \in {"asc", "desc"} PROVE IndexLeafAt(t, g, IndexEnd(t, dir), At(dir))
  <2> DEFINE s == Follow(Link(dir), t.root, IndexPages)
  <2>1. At(dir) \in Nat /\ At(dir) < u.top
    BY <1>1
  <2>2. IndexEnd(t, dir) = s[Len(s)]
    BY DEF IndexEnd, Last
  <2> HIDE DEF Link, At
  <2>3. Descent(t, g, Follow(Link(dir), t.root, u.n), At(dir))
    BY <1>1, <1>3, <2>1, Descends
  <2>4. Descent(t, g, s, At(dir))
    BY <1>1, <2>3
  <2> HIDE DEF s
  <2>5. IndexLeafAt(t, g, s[Len(s)], At(dir))
    BY <2>4, IndexDescent
  <2> QED BY <2>2, <2>5
<1>5. IndexLeafAt(t, g, IndexEnd(t, "asc"), At("asc")) /\ IndexLeafAt(t, g, IndexEnd(t, "desc"), At("desc"))
  BY <1>4
<1> QED BY <1>5

\* The leaf chain, and the places of its leaves, in scan direction: backwards
\* they are counted from the last one.
IndexLeaves(P) == {p \in IndexPage : P[p].kind = "leaf"}
Onwards(P, dir) == [q \in IndexPage |-> IF P[q].kind # "leaf" THEN 0
                                        ELSE IF dir = "asc" THEN P[q].next ELSE P[q].prev]
Near(u, g, dir) == [p \in IndexPage |-> IF dir = "asc" THEN g.lo[p] ELSE u.top - g.hi[p]]
Far(u, g, dir) == [p \in IndexPage |-> IF dir = "asc" THEN g.hi[p] ELSE u.top - g.lo[p]]
Facing(u, dir) == [k \in u.keys |-> IF dir = "asc" THEN u.rank[k] ELSE (u.top - 1) - u.rank[k]]

LEMMA IndexLeavesJoin ==
    ASSUME NEW u, IsKeySpace(u), NEW t, NEW g, Whole(u, t, g), NEW dir \in {"asc", "desc"}
    PROVE  Joins(IndexPages, IndexLeaves(t.pages), u.top, Near(u, g, dir), Far(u, g, dir), Onwards(t.pages, dir))
<1> DEFINE P == t.pages
           L == IndexLeaves(P)
           top == u.top
           a == Near(u, g, dir)
           b == Far(u, g, dir)
           link == Onwards(P, dir)
<1>1. /\ IndexPage = 1 .. IndexPages /\ IndexPages \in Nat \ {0} /\ top \in Nat
      /\ L \in SUBSET (1 .. IndexPages) /\ u.n = IndexPages
  BY IndexTreeIs, IndexIs DEF IndexLeaves
<1>2. \A p \in L : /\ p \in IndexPage /\ p \in InTree(P) /\ P[p].kind = "leaf"
                   /\ g.lo[p] \in Nat /\ g.hi[p] \in Nat /\ g.lo[p] < g.hi[p] /\ g.hi[p] <= top
                   /\ g.lv[p] = 0
  BY IndexTreeIs DEF IndexLeaves
<1>3. \A p, q \in L : p # q => g.hi[p] <= g.lo[q] \/ g.hi[q] <= g.lo[p]
  BY <1>2, IndexTreeIs
<1>4. ASSUME NEW p \in L
      PROVE  /\ g.hi[p] = top => P[p].next = 0
             /\ g.hi[p] # top => P[p].next \in L /\ g.lo[P[p].next] = g.hi[p]
             /\ g.lo[p] = 0 => P[p].prev = 0
             /\ g.lo[p] # 0 => P[p].prev \in L /\ g.hi[P[p].prev] = g.lo[p]
  <2>1. Linked(u, t, g)
    BY DEF Whole, Standing
  <2> QED BY <1>1, <1>2, <2>1 DEF Linked, IndexLeaves
<1>5. \A p \in L : link[p] = IF dir = "asc" THEN P[p].next ELSE P[p].prev
  BY <1>2 DEF Onwards
<1>6. link \in [1 .. IndexPages -> 0 .. IndexPages]
  <2>1. ASSUME NEW q \in IndexPage PROVE link[q] \in 0 .. IndexPages
    <3>0. 0 \in 0 .. IndexPages /\ \A r \in L : r \in 0 .. IndexPages
      BY <1>1
    <3>1. CASE q \in L
      <4>1. P[q].next \in 0 .. IndexPages /\ P[q].prev \in 0 .. IndexPages
        BY <1>4, <3>0, <3>1
      <4> HIDE DEF link
      <4> QED BY <1>5, <3>1, <4>1
    <3>2. CASE q \notin L
      BY <3>0, <3>2 DEF Onwards, IndexLeaves
    <3> QED BY <3>1, <3>2
  <2>2. link = [q \in IndexPage |-> link[q]]
    BY DEF Onwards
  <2> HIDE DEF link
  <2> QED BY <1>1, <2>1, <2>2
<1>7. /\ dir = "asc" => \A p \in L : a[p] = g.lo[p] /\ b[p] = g.hi[p]
      /\ dir # "asc" => \A p \in L : a[p] = top - g.hi[p] /\ b[p] = top - g.lo[p]
  BY <1>2 DEF Near, Far
<1> HIDE DEF top, L, a, b, link
<1>8. CASE dir = "asc"
  <2>1. \A p \in L : a[p] = g.lo[p] /\ b[p] = g.hi[p] /\ link[p] = P[p].next
    BY <1>5, <1>7, <1>8
  <2>2. \A p \in L : a[p] \in Nat /\ b[p] \in Nat /\ a[p] < b[p] /\ b[p] <= top
    BY <1>2, <2>1
  <2>3. \A p, q \in L : p # q => b[p] <= a[q] \/ b[q] <= a[p]
    BY <1>3, <2>1
  <2>4. /\ \A p \in L : b[p] = top => link[p] = 0
        /\ \A p \in L : b[p] # top => link[p] \in L /\ a[link[p]] = b[p]
    BY <1>4, <2>1
  <2>5. Joins(IndexPages, L, top, a, b, link)
    BY <1>1, <1>6, <2>2, <2>3, <2>4 DEF Joins
  <2> QED BY <2>5 DEF L, top, a, b, link
<1>9. CASE dir # "asc"
  <2>1. \A p \in L : a[p] = top - g.hi[p] /\ b[p] = top - g.lo[p] /\ link[p] = P[p].prev
    BY <1>5, <1>7, <1>9
  <2>2. \A p \in L : a[p] \in Nat /\ b[p] \in Nat /\ a[p] < b[p] /\ b[p] <= top
    <3> TAKE p \in L
    <3> DEFINE x == g.lo[p]
               y == g.hi[p]
    <3>1. /\ x \in Nat /\ y \in Nat /\ x < y /\ y <= top /\ top \in Nat
          /\ a[p] = top - y /\ b[p] = top - x
      BY <1>1, <1>2, <2>1
    <3> HIDE DEF x, y
    <3> QED BY <3>1
  <2>3. ASSUME NEW p \in L, NEW q \in L, p # q PROVE b[p] <= a[q] \/ b[q] <= a[p]
    <3>1. g.lo[p] \in Nat /\ g.hi[p] \in Nat /\ g.lo[q] \in Nat /\ g.hi[q] \in Nat
      BY <1>2
    <3>2. g.hi[p] <= g.lo[q] \/ g.hi[q] <= g.lo[p]
      BY <1>3, <2>3
    <3>3. a[p] = top - g.hi[p] /\ b[p] = top - g.lo[p] /\ a[q] = top - g.hi[q] /\ b[q] = top - g.lo[q]
      BY <2>1
    <3>4. CASE g.hi[p] <= g.lo[q]
      <4>1. b[q] <= a[p]
        BY <1>1, <3>1, <3>3, <3>4
      <4> QED BY <4>1
    <3>5. CASE g.hi[q] <= g.lo[p]
      <4>1. b[p] <= a[q]
        BY <1>1, <3>1, <3>3, <3>5
      <4> QED BY <4>1
    <3> QED BY <3>2, <3>4, <3>5
  <2>4. ASSUME NEW p \in L
        PROVE  /\ b[p] = top => link[p] = 0
               /\ b[p] # top => link[p] \in L /\ a[link[p]] = b[p]
    <3>1. g.lo[p] \in Nat /\ b[p] = top - g.lo[p] /\ link[p] = P[p].prev
      BY <1>2, <2>1
    <3>2. CASE g.lo[p] = 0
      BY <1>1, <1>4, <3>1, <3>2
    <3>3. CASE g.lo[p] # 0
      <4>1. P[p].prev \in L /\ g.hi[P[p].prev] = g.lo[p]
        BY <1>4, <3>3
      <4>2. a[P[p].prev] = top - g.hi[P[p].prev]
        BY <2>1, <4>1
      <4>3. b[p] # top
        BY <1>1, <3>1, <3>3
      <4> QED BY <3>1, <4>1, <4>2, <4>3
    <3> QED BY <3>2, <3>3
  <2>5. Joins(IndexPages, L, top, a, b, link)
    BY <1>1, <1>6, <2>2, <2>3, <2>4 DEF Joins
  <2> QED BY <2>5 DEF L, top, a, b, link
<1> QED BY <1>8, <1>9

LEMMA FacingIs ==
    ASSUME NEW u, IsKeySpace(u), NEW dir \in {"asc", "desc"}
    PROVE  /\ \A k \in u.keys : /\ Facing(u, dir)[k] \in Int
                                /\ Facing(u, dir)[k] = IF dir = "asc" THEN u.rank[k] ELSE (u.top - 1) - u.rank[k]
           /\ dir # "asc" => Against(u.keys, u.rank, Facing(u, dir))
           /\ \A k \in u.keys : u.rank[k] \in Nat /\ u.rank[k] < u.top
           /\ u.top \in Nat \ {0}
<1>1. u.top \in Nat \ {0} /\ \A k \in u.keys : u.rank[k] \in Nat /\ u.rank[k] < u.top
  <2>1. u.top \in Nat \ {0} /\ \A k \in u.keys : u.rank[k] \in 0 .. u.top - 1
    BY DEF IsKeySpace, IsSpace
  <2> QED BY <2>1
<1>2. \A k \in u.keys : Facing(u, dir)[k] = IF dir = "asc" THEN u.rank[k] ELSE (u.top - 1) - u.rank[k]
  BY DEF Facing
<1>3. \A k \in u.keys : Facing(u, dir)[k] \in Int
  BY <1>1, <1>2
<1>4. ASSUME dir # "asc" PROVE Against(u.keys, u.rank, Facing(u, dir))
  <2>1. \A k \in u.keys : Facing(u, dir)[k] = (u.top - 1) - u.rank[k]
    BY <1>2, <1>4
  <2> QED BY <1>1, <2>1 DEF Against
<1> QED BY <1>1, <1>2, <1>3, <1>4

\* A list of the same members under ranks that agree on them.
LEMMA ListsAlike ==
    ASSUME NEW s, NEW S, NEW rank, Lists(s, S, rank), NEW rank2, \A x \in S : rank2[x] = rank[x]
    PROVE  Lists(s, S, rank2)
<1>1. s \in Seq(S) /\ Rising(s, rank) /\ \A x \in S : \E i \in 1 .. Len(s) : s[i] = x
  BY DEF Lists
<1>2. \A i \in 1 .. Len(s) : s[i] \in S
  BY <1>1, SeqIsFunction
<1>3. Rising(s, rank2)
  BY <1>1, <1>2 DEF Rising
<1> QED BY <1>1, <1>3 DEF Lists

\* A leaf as a scan reads it.
ReadLeaf(P, q, dir) == IF dir = "asc" THEN P[q].keys ELSE Reverse(P[q].keys)
LEMMA LeafReads ==
    ASSUME NEW u, NEW t, NEW g, NEW K, Filed(u, t, g, K), NEW dir \in {"asc", "desc"},
           NEW q \in IndexLeaves(t.pages)
    PROVE  /\ Lists(ReadLeaf(t.pages, q, dir), Shelf(u, K, g.lo[q], g.hi[q]), Facing(u, dir))
           /\ Len(ReadLeaf(t.pages, q, dir)) <= IndexCap
<1> DEFINE s == t.pages[q].keys
           S == Shelf(u, K, g.lo[q], g.hi[q])
<1>1. IsKeySpace(u) /\ K \in SUBSET u.keys /\ q \in IndexPage /\ t.pages[q].kind = "leaf" /\ Files(u, t.pages, g, K)
  BY DEF Filed, IndexLeaves
<1>2. Lists(s, S, u.rank) /\ Len(s) <= IndexCap
  BY <1>1 DEF Files, LeafFiles
<1>3. S \subseteq u.keys
  BY <1>1 DEF Shelf
<1>4. s \in Seq(S)
  BY <1>2 DEF Lists
<1>5. ReadLeaf(t.pages, q, dir) = IF dir = "asc" THEN s ELSE Reverse(s)
  BY DEF ReadLeaf
<1> HIDE DEF s, S
<1>6. CASE dir = "asc"
  <2>1. \A x \in S : Facing(u, dir)[x] = u.rank[x]
    BY <1>1, <1>3, <1>6, FacingIs
  <2>2. Lists(s, S, Facing(u, dir))
    BY <1>2, <2>1, ListsAlike
  <2> QED BY <1>2, <1>5, <1>6, <2>2 DEF S
<1>7. CASE dir # "asc"
  <2>1. Against(S, u.rank, Facing(u, dir))
    BY <1>1, <1>3, <1>7, FacingIs DEF Against
  <2>2. Lists(Reverse(s), S, Facing(u, dir))
    BY <1>2, <2>1, ReversedLists
  <2>3. Len(Reverse(s)) = Len(s)
    BY <1>4, ReverseIs
  <2> QED BY <1>2, <1>5, <1>7, <2>2, <2>3 DEF S
<1> QED BY <1>6, <1>7

\* A place of a leaf, seen in scan direction.
LEMMA ShelfFaces ==
    ASSUME NEW u, NEW t, NEW g, NEW K, Filed(u, t, g, K), NEW dir \in {"asc", "desc"},
           NEW q \in IndexLeaves(t.pages), NEW k \in u.keys
    PROVE  /\ g.lo[q] <= u.rank[k] /\ u.rank[k] < g.hi[q]
                <=> Near(u, g, dir)[q] <= Facing(u, dir)[k] /\ Facing(u, dir)[k] < Far(u, g, dir)[q]
           /\ Near(u, g, dir)[q] \in Int /\ Far(u, g, dir)[q] \in Int
<1>1. IsKeySpace(u) /\ Whole(u, t, g) /\ q \in IndexPage
  BY DEF Filed, IndexLeaves
<1>2. g.lo[q] \in Nat /\ g.hi[q] \in Nat
  BY <1>1, IndexTreeIs
<1>3. u.rank[k] \in Nat /\ u.top \in Nat
  BY <1>1, FacingIs
<1>4. CASE dir = "asc"
  <2>1. Near(u, g, dir)[q] = g.lo[q] /\ Far(u, g, dir)[q] = g.hi[q]
    BY <1>1, <1>4 DEF Near, Far
  <2>2. Facing(u, dir)[k] = u.rank[k]
    BY <1>1, <1>4, FacingIs
  <2> QED BY <1>2, <1>3, <2>1, <2>2
<1>5. CASE dir # "asc"
  <2>1. Near(u, g, dir)[q] = u.top - g.hi[q] /\ Far(u, g, dir)[q] = u.top - g.lo[q]
    BY <1>1, <1>5 DEF Near, Far
  <2>2. Facing(u, dir)[k] = (u.top - 1) - u.rank[k]
    BY <1>1, <1>5, FacingIs
  <2> DEFINE l == g.lo[q]
             h == g.hi[q]
             z == u.rank[k]
  <2>3. l \in Nat /\ h \in Nat /\ z \in Nat
    BY <1>2, <1>3
  <2> HIDE DEF l, h, z
  <2>4. l <= z /\ z < h <=> u.top - h <= (u.top - 1) - z /\ (u.top - 1) - z < u.top - l
    BY <1>3, <2>3
  <2> QED BY <1>2, <1>3, <2>1, <2>2, <2>4 DEF l, h, z
<1> QED BY <1>4, <1>5

\* The keys met from leaf p on: those at its nearest place or further.
Coming(u, g, K, p, dir) == {k \in K : Near(u, g, dir)[p] <= Facing(u, dir)[k]}

LEMMA KeysFromIs ==
    ASSUME NEW u, NEW t, NEW g, NEW K, Filed(u, t, g, K), NEW dir \in {"asc", "desc"},
           NEW p \in IndexLeaves(t.pages)
    PROVE  Lists(KeysFrom(t, p, dir), Coming(u, g, K, p, dir), Facing(u, dir))
<1> DEFINE P == t.pages
           L == IndexLeaves(P)
           a == Near(u, g, dir)
           b == Far(u, g, dir)
           rank == Facing(u, dir)
           link == Onwards(P, dir)
           s == Follow(link, p, IndexPages)
           E == [q \in L |-> ReadLeaf(P, q, dir)]
<1>1. IsKeySpace(u) /\ K \in SUBSET u.keys /\ Whole(u, t, g)
  BY DEF Filed
<1>2. Joins(IndexPages, L, u.top, a, b, link)
  BY <1>1, IndexLeavesJoin
<1>3. IsChain(L, u.top, a, b, p, s)
  <2> HIDE DEF L, a, b, link
  <2> QED BY <1>2, ChainIs DEF L
<1>4. Shelved(L, a, b, E, K, rank)
  <2>1. ASSUME NEW q \in L
        PROVE  /\ E[q] \in Seq(K) /\ Rising(E[q], rank)
               /\ \A i \in 1 .. Len(E[q]) : /\ rank[E[q][i]] \in Int
                                            /\ a[q] <= rank[E[q][i]] /\ rank[E[q][i]] < b[q]
    <3> DEFINE e == E[q]
               S == Shelf(u, K, g.lo[q], g.hi[q])
    <3>1. Lists(e, S, rank)
      BY LeafReads
    <3>2. \A k \in S : k \in K /\ k \in u.keys /\ g.lo[q] <= u.rank[k] /\ u.rank[k] < g.hi[q]
      BY <1>1 DEF Shelf
    <3>3. \A k \in S : k \in K /\ rank[k] \in Int /\ a[q] <= rank[k] /\ rank[k] < b[q]
      BY <1>1, <3>2, FacingIs, ShelfFaces
    <3> HIDE DEF e, S, rank, a, b
    <3>4. e \in Seq(S) /\ Rising(e, rank)
      BY <3>1 DEF Lists
    <3>5. \A i \in 1 .. Len(e) : e[i] \in S
      BY <3>4, SeqIsFunction
    <3>6. e \in Seq(K)
      BY <3>3, <3>4, <3>5, SeqInto
    <3> QED BY <3>3, <3>4, <3>5, <3>6 DEF e
  <2> HIDE DEF E, L, a, b, rank
  <2> QED BY <2>1 DEF Shelved
<1>5. MeetsAll(L, a, b, E, K, rank, p, s)
  <2> HIDE DEF E, L, a, b, rank, s, link
  <2> QED BY <1>2, <1>3, <1>4, ChainMeets DEF L
<1>6. FlattenSeq([i \in DOMAIN s |-> E[s[i]]]) = KeysFrom(t, p, dir)
  <2>1. \A i \in DOMAIN s : s[i] \in L
    <3> HIDE DEF s, L
    <3>1. s \in Seq(L)
      BY <1>3 DEF IsChain
    <3> QED BY <3>1, SeqIsFunction
  <2>2. [i \in DOMAIN s |-> E[s[i]]] = [i \in DOMAIN s |-> ReadLeaf(P, s[i], dir)]
    <3> HIDE DEF s, L
    <3> QED BY <2>1
  <2>3. KeysFrom(t, p, dir) = FlattenSeq([i \in DOMAIN s |-> ReadLeaf(P, s[i], dir)])
    BY DEF KeysFrom, ReadLeaf, Onwards
  <2> QED BY <2>2, <2>3
<1>7. Met(L, a, E, K, p) = Coming(u, g, K, p, dir)
  <2>1. \A q \in L : a[q] \in Nat /\ b[q] \in Nat /\ a[q] < b[q]
    <3> HIDE DEF L, a, b, link
    <3> QED BY <1>2 DEF Joins
  <2>2. ASSUME NEW k \in K, NEW q \in L, a[p] <= a[q], NEW i \in 1 .. Len(E[q]), E[q][i] = k PROVE a[p] <= rank[k]
    <3>1. a[q] <= rank[k] /\ rank[k] \in Int
      <4> HIDE DEF E, L, a, b, rank
      <4> QED BY <1>4, <2>2 DEF Shelved
    <3>2. a[p] \in Nat /\ a[q] \in Nat
      BY <2>1
    <3> HIDE DEF a, rank
    <3> QED BY <2>2, <3>1, <3>2
  <2>3. ASSUME NEW k \in K, a[p] <= rank[k]
        PROVE  \E q \in L : a[p] <= a[q] /\ \E i \in 1 .. Len(E[q]) : E[q][i] = k
    <3> DEFINE q == FindLeafForKey(t, k)
    <3>1. IndexLeafAt(t, g, q, u.rank[k])
      BY <1>1, IndexPathIs
    <3>2. q \in L /\ g.lo[q] <= u.rank[k] /\ u.rank[k] < g.hi[q]
      BY <3>1 DEF IndexLeafAt, IndexLeaves, Reaches
    <3>3. k \in Shelf(u, K, g.lo[q], g.hi[q])
      BY <3>2 DEF Shelf
    <3> HIDE DEF q
    <3>4. \E i \in 1 .. Len(E[q]) : E[q][i] = k
      <4>1. Lists(E[q], Shelf(u, K, g.lo[q], g.hi[q]), rank)
        BY <3>2, LeafReads
      <4> HIDE DEF E, L, rank
      <4> QED BY <3>3, <4>1 DEF Lists
    <3>5. rank[k] < b[q] /\ rank[k] \in Int
      BY <1>1, <3>2, ShelfFaces, FacingIs
    <3>6. p # q => b[p] <= a[q] \/ b[q] <= a[p]
      <4> HIDE DEF L, a, b, link
      <4> QED BY <1>2, <3>2 DEF Joins, L
    <3>7. a[p] <= a[q]
      <4>1. a[p] \in Nat /\ b[p] \in Nat /\ a[p] < b[p] /\ a[q] \in Nat /\ b[q] \in Nat
        BY <2>1, <3>2
      <4> HIDE DEF a, b, rank
      <4> QED BY <2>3, <3>5, <3>6, <4>1
    <3> QED BY <3>2, <3>4, <3>7
  <2> HIDE DEF E, L, a, b, rank
  <2>4. Coming(u, g, K, p, dir) = {k \in K : a[p] <= rank[k]}
    BY DEF Coming, a, rank
  <2> QED BY <2>2, <2>3, <2>4 DEF Met
<1> HIDE DEF E, L, a, b, rank, s
<1>8. Lists(KeysFrom(t, p, dir), Coming(u, g, K, p, dir), rank)
  BY <1>5, <1>6, <1>7 DEF MeetsAll
<1> QED BY <1>8 DEF rank

\* scan_from_key gives the first of the keys past the bound.
ScannedPast(u, K, after, dir) == {k \in K : PastBound(k, after, dir)}
KeyScan(u, t, K, after, dir, limit, past) ==
    /\ Lists(past, ScannedPast(u, K, after, dir), Facing(u, dir))
    /\ ScanFromKey(t, after, dir, limit) = SubSeq(past, 1, Min({limit, Len(past)}))
LEMMA ScanFromKeyIs ==
    ASSUME NEW u, NEW t, NEW g, NEW K, Filed(u, t, g, K), NEW dir \in {"asc", "desc"},
           NEW after \in u.keys \cup {<<>>}, NEW limit
    PROVE  \E past : KeyScan(u, t, K, after, dir, limit, past)
<1> DEFINE start == IF after = <<>> THEN IndexEnd(t, dir) ELSE FindLeafForKey(t, after)
           met == KeysFrom(t, start, dir)
           I == {i \in DOMAIN met : PastBound(met[i], after, dir)}
           past == Picked(met, I)
           C == Coming(u, g, K, start, dir)
           T == {k \in K : PastBound(k, after, dir)}
<1>1. IsKeySpace(u) /\ K \in SUBSET u.keys /\ Whole(u, t, g)
  BY DEF Filed
<1>2. /\ start \in IndexLeaves(t.pages)
      /\ after = <<>> => Near(u, g, dir)[start] <= 0 
      /\ after # <<>> => after \in u.keys /\ g.lo[start] <= u.rank[after] /\ u.rank[after] < g.hi[start]
  <2>1. CASE after = <<>>
    <3> DEFINE e == IndexEnd(t, dir)
    <3>1. start = e
      BY <2>1
    <3>2. IndexLeafAt(t, g, e, IF dir = "asc" THEN 0 ELSE u.top - 1)
      <4>1. IndexLeafAt(t, g, IndexEnd(t, "asc"), 0) /\ IndexLeafAt(t, g, IndexEnd(t, "desc"), u.top - 1)
        BY <1>1, IndexEndIs
      <4>2. CASE dir = "asc"
        BY <4>1, <4>2
      <4>3. CASE dir = "desc"
        BY <4>1, <4>3
      <4> QED BY <4>2, <4>3
    <3> HIDE DEF e
    <3>3. e \in IndexLeaves(t.pages) /\ e \in IndexPage /\ g.lo[e] \in Nat /\ g.hi[e] \in Nat /\ u.top \in Nat
      BY <1>1, <3>2, IndexTreeIs DEF IndexLeafAt, IndexLeaves
    <3>4. Near(u, g, dir)[e] <= 0
      <4>1. CASE dir = "asc"
        BY <3>2, <3>3, <4>1 DEF IndexLeafAt, Reaches, Near
      <4>2. CASE dir # "asc"
        <5>1. u.top - 1 < g.hi[e]
          BY <3>2, <4>2 DEF IndexLeafAt, Reaches
        <5>2. Near(u, g, dir)[e] = u.top - g.hi[e]
          BY <3>3, <4>2 DEF Near
        <5> QED BY <3>3, <5>1, <5>2
      <4> QED BY <4>1, <4>2
    <3> QED BY <2>1, <3>1, <3>3, <3>4
  <2>2. CASE after # <<>>
    <3>1. after \in u.keys /\ start = FindLeafForKey(t, after)
      BY <2>2
    <3>2. IndexLeafAt(t, g, start, u.rank[after])
      BY <1>1, <3>1, IndexPathIs
    <3> QED BY <2>2, <3>1, <3>2 DEF IndexLeafAt, IndexLeaves, Reaches
  <2> QED BY <2>1, <2>2
<1>3. ScanFromKey(t, after, dir, limit) = SubSeq(past, 1, Min({limit, Len(past)}))
  BY DEF ScanFromKey
<1> HIDE DEF start
<1>4. Lists(met, C, Facing(u, dir))
  BY <1>2, KeysFromIs
<1>5. met \in Seq(C) /\ DOMAIN met = 1 .. Len(met) /\ \A i \in 1 .. Len(met) : met[i] \in K
  <2>1. met \in Seq(C)
    BY <1>4 DEF Lists
  <2>2. C \subseteq K
    BY DEF Coming
  <2> HIDE DEF met, C
  <2> QED BY <2>1, <2>2, SeqIsFunction
<1> HIDE DEF met, C
<1>6. Lists(past, C \cap T, Facing(u, dir))
  <2>1. \A i \in 1 .. Len(met) : i \in I <=> met[i] \in T
    BY <1>5
  <2> HIDE DEF I, T
  <2> QED BY <1>4, <2>1, PickedLists
<1>7. C \cap T = T
  <2> SUFFICES ASSUME NEW k \in K, PastBound(k, after, dir) PROVE Near(u, g, dir)[start] <= Facing(u, dir)[k]
    BY DEF C, Coming
  <2>1. /\ k \in u.keys /\ Facing(u, dir)[k] \in Int /\ Near(u, g, dir)[start] \in Int
        /\ Facing(u, dir)[k] = IF dir = "asc" THEN u.rank[k] ELSE (u.top - 1) - u.rank[k]
        /\ u.rank[k] \in Nat /\ u.rank[k] < u.top /\ u.top \in Nat
    BY <1>1, <1>2, FacingIs, ShelfFaces
  <2>2. CASE after = <<>>
    <3>1. Facing(u, dir)[k] >= 0
      BY <2>1
    <3> QED BY <1>2, <2>1, <2>2, <3>1
  <2>3. CASE after # <<>>
    <3>1. /\ after \in u.keys /\ u.rank[after] \in Nat /\ Facing(u, dir)[after] \in Int
          /\ Facing(u, dir)[after] = IF dir = "asc" THEN u.rank[after] ELSE (u.top - 1) - u.rank[after]
          /\ Near(u, g, dir)[start] <= Facing(u, dir)[after]
      BY <1>1, <1>2, <2>3, FacingIs, ShelfFaces
    <3>2. IF dir = "asc" THEN Before(after, k) ELSE Before(k, after)
      BY <2>3 DEF PastBound
    <3>3. Facing(u, dir)[after] < Facing(u, dir)[k]
      <4>1. CASE dir = "asc"
        <5>1. u.rank[after] < u.rank[k]
          BY <1>1, <2>1, <3>1, <3>2, <4>1 DEF IsKeySpace
        <5> QED BY <2>1, <3>1, <4>1, <5>1
      <4>2. CASE dir # "asc"
        <5>1. u.rank[k] < u.rank[after]
          BY <1>1, <2>1, <3>1, <3>2, <4>2 DEF IsKeySpace
        <5> QED BY <2>1, <3>1, <4>2, <5>1
      <4> QED BY <4>1, <4>2
    <3> QED BY <2>1, <3>1, <3>3
  <2> QED BY <2>2, <2>3
<1> HIDE DEF I, T, past
<1>8. Lists(past, T, Facing(u, dir))
  BY <1>6, <1>7
<1>9. T = ScannedPast(u, K, after, dir)
  BY DEF T, ScannedPast
<1>10. KeyScan(u, t, K, after, dir, limit, past)
  BY <1>3, <1>8, <1>9 DEF KeyScan
<1> QED BY <1>10

-----------------------------------------------------------------------------
(* Keys with a prefix. *)

LEMMA MaxIs ==
    ASSUME NEW b \in Nat, NEW S, S \subseteq 0 .. b, S # {}
    PROVE  Max(S) \in S /\ \A j \in S : j <= Max(S)
<1>1. PICK i \in S : \A j \in S : j <= i
  BY GreatestNat
<1>2. i \in S /\ \A j \in S : i >= j
  BY <1>1
<1>3. Max(S) \in S /\ \A j \in S : Max(S) >= j
  BY <1>2 DEF Max
<1> QED BY <1>3

LEMMA Lesser ==
    ASSUME NEW a \in Nat, NEW b \in Nat
    PROVE  Min({a, b}) = IF a <= b THEN a ELSE b
<1>1. Min({a, b}) \in {a, b} /\ \A j \in {a, b} : Min({a, b}) <= j
  <2>1. {a, b} \subseteq Nat /\ {a, b} # {}
    OBVIOUS
  <2> QED BY <2>1, MinIs
<1> DEFINE m == Min({a, b})
<1>2. (m = a \/ m = b) /\ m <= a /\ m <= b
  BY <1>1
<1> HIDE DEF m
<1>3. m = IF a <= b THEN a ELSE b
  BY <1>2
<1> QED BY <1>3 DEF m

\* A part of a list: the members in T, when they are those between two places.
LEMMA PartLists ==
    ASSUME NEW s, NEW S, NEW rank, Lists(s, S, rank), NEW a \in 1 .. Len(s), NEW b \in 1 .. Len(s), a <= b,
           NEW T, \A i \in 1 .. Len(s) : s[i] \in T <=> (a <= i /\ i <= b)
    PROVE  Lists(SubSeq(s, a, b), S \cap T, rank) /\ Len(SubSeq(s, a, b)) = b - a + 1
<1> DEFINE all == SubSeq(s, a, b)
<1>1. /\ s \in Seq(S) /\ \A i, j \in 1 .. Len(s) : i < j => rank[s[i]] < rank[s[j]]
      /\ \A x \in S : \E i \in 1 .. Len(s) : s[i] = x
      /\ \A i \in 1 .. Len(s) : s[i] \in S
      /\ Len(s) \in Nat
  BY SeqIsFunction DEF Lists, Rising
<1>2. a \in Nat /\ b \in Nat /\ 1 <= a /\ b <= Len(s)
  BY <1>1
<1>3. all \in Seq(S) /\ Len(all) = b - a + 1 /\ \A i \in 1 .. b - a + 1 : all[i] = s[a + i - 1]
  <2>1. s \in Seq(S)
    BY <1>1
  <2>2. a \in Nat /\ b \in Nat /\ 1 <= a /\ a <= b + 1 /\ b <= Len(s)
    BY <1>2
  <2> QED BY ONLY <2>1, <2>2, PartIs
<1> HIDE DEF all
<1>4. \A i \in 1 .. b - a + 1 : /\ a + i - 1 \in 1 .. Len(s) /\ a <= a + i - 1 /\ a + i - 1 <= b
                                /\ all[i] = s[a + i - 1]
  <2> TAKE i \in 1 .. b - a + 1
  <2>1. a + i - 1 \in 1 .. Len(s) /\ a <= a + i - 1 /\ a + i - 1 <= b
    BY <1>1, <1>2
  <2> QED BY <1>3, <2>1
<1>5. \A i \in 1 .. b - a + 1 : all[i] \in S \cap T
  BY <1>1, <1>4
<1>6. all \in Seq(S \cap T)
  BY <1>3, <1>5, SeqInto
<1>7. Rising(all, rank)
  <2>1. SUFFICES ASSUME NEW i \in 1 .. b - a + 1, NEW j \in 1 .. b - a + 1, i < j
                 PROVE  rank[all[i]] < rank[all[j]]
    BY <1>3 DEF Rising
  <2>2. a + i - 1 < a + j - 1 /\ a + i - 1 \in 1 .. Len(s) /\ a + j - 1 \in 1 .. Len(s)
    BY <1>2, <1>4, <2>1
  <2>3. rank[s[a + i - 1]] < rank[s[a + j - 1]]
    BY <1>1, <2>2
  <2> QED BY <1>4, <2>3
<1>8. ASSUME NEW x \in S \cap T PROVE \E i \in 1 .. Len(all) : all[i] = x
  <2>1. PICK i \in 1 .. Len(s) : s[i] = x
    BY <1>1
  <2>2. a <= i /\ i <= b
    BY <2>1
  <2>3. i - a + 1 \in 1 .. b - a + 1 /\ a + (i - a + 1) - 1 = i
    BY <1>2, <2>2
  <2> QED BY <1>3, <2>1, <2>3
<1> QED BY <1>3, <1>6, <1>7, <1>8 DEF Lists, all

\* The members of a list in T, when nothing lies between them: a part of it.
Hits(s, T) == {i \in 1 .. Len(s) : s[i] \in T}
Gapless(I) == \A i, j \in I : \A n \in i .. j : n \in I
Ends(s, T, a, b) == Hits(s, T) # {} /\ Gapless(Hits(s, T)) /\ a = Min(Hits(s, T)) /\ b = Max(Hits(s, T))
RunOf(s, S, T, rank, a, b) ==
    /\ a \in 1 .. Len(s) /\ b \in 1 .. Len(s) /\ a <= b
    /\ Lists(SubSeq(s, a, b), S \cap T, rank) /\ Len(SubSeq(s, a, b)) = b - a + 1
LEMMA RunLists ==
    ASSUME NEW s, NEW S, NEW rank, Lists(s, S, rank), NEW T, NEW a, NEW b, Ends(s, T, a, b)
    PROVE  RunOf(s, S, T, rank, a, b)
<1> DEFINE I == Hits(s, T)
<1>1. /\ s \in Seq(S) /\ \A i, j \in 1 .. Len(s) : i < j => rank[s[i]] < rank[s[j]]
      /\ \A x \in S : \E i \in 1 .. Len(s) : s[i] = x
      /\ Len(s) \in Nat
  BY SeqIsFunction DEF Lists, Rising
<1>2. I \subseteq 1 .. Len(s) /\ \A i \in 1 .. Len(s) : i \in I <=> s[i] \in T
  BY DEF Hits
<1> HIDE DEF I
<1>3. a \in I /\ b \in I /\ \A i \in I : a <= i /\ i <= b
  <2>1. I \subseteq Nat /\ I \subseteq 0 .. Len(s) /\ I # {}
    BY <1>1, <1>2 DEF Ends, I
  <2>2. Min(I) \in I /\ \A j \in I : Min(I) <= j
    BY <2>1, MinIs
  <2>3. Max(I) \in I /\ \A j \in I : j <= Max(I)
    BY <1>1, <2>1, MaxIs
  <2> QED BY <2>2, <2>3 DEF Ends, I
<1>4. a \in 1 .. Len(s) /\ b \in 1 .. Len(s) /\ a <= b /\ a \in Nat /\ b \in Nat
  BY <1>1, <1>2, <1>3
<1>5. \A n \in a .. b : n \in I /\ n \in 1 .. Len(s)
  <2>1. \A i, j \in I : \A n \in i .. j : n \in I
    BY DEF Gapless, Ends, I
  <2> QED BY <1>2, <1>3, <2>1
<1>6. \A i \in 1 .. Len(s) : s[i] \in T <=> (a <= i /\ i <= b)
  <2> TAKE i \in 1 .. Len(s)
  <2>1. a <= i /\ i <= b => i \in a .. b
    BY <1>4
  <2> QED BY <1>2, <1>3, <1>5, <2>1
<1>7. Lists(SubSeq(s, a, b), S \cap T, rank) /\ Len(SubSeq(s, a, b)) = b - a + 1
  BY <1>4, <1>6, PartLists
<1> QED BY <1>4, <1>7 DEF RunOf

\* The first max of a part of a sequence.
LEMMA PartOfPart ==
    ASSUME NEW S, NEW s \in Seq(S), NEW a \in 1 .. Len(s), NEW b \in 1 .. Len(s), a <= b, NEW max \in Nat \ {0}
    PROVE  SubSeq(s, a, Min({b, a + max - 1})) = SubSeq(SubSeq(s, a, b), 1, Min({max, Len(SubSeq(s, a, b))}))
<1> DEFINE e == Min({b, a + max - 1})
           part == SubSeq(s, a, b)
           m == Min({max, Len(part)})
           x == SubSeq(s, a, e)
           y == SubSeq(part, 1, m)
<1>0. Len(s) \in Nat /\ a \in Nat /\ b \in Nat /\ a + max - 1 \in Nat /\ 1 <= a /\ 1 <= b /\ b <= Len(s)
  BY SeqIsFunction
<1>1. part \in Seq(S) /\ Len(part) = b - a + 1 /\ \A i \in 1 .. b - a + 1 : part[i] = s[a + i - 1]
  BY <1>0, PartIs
<1>2. e = IF b <= a + max - 1 THEN b ELSE a + max - 1
  BY <1>0, Lesser
<1>3. m = IF max <= b - a + 1 THEN max ELSE b - a + 1
  BY <1>0, <1>1, Lesser
<1> HIDE DEF e, m, part
<1>4. /\ e \in Nat /\ a <= e + 1 /\ e <= Len(s) /\ m \in Nat /\ m <= Len(part) /\ 1 <= m + 1
      /\ e - a + 1 = m /\ m - 1 + 1 = m /\ m <= b - a + 1
  BY <1>0, <1>1, <1>2, <1>3
<1>5. x \in Seq(S) /\ Len(x) = m /\ \A i \in 1 .. m : x[i] = s[a + i - 1]
  <2>1. x \in Seq(S) /\ Len(x) = e - a + 1 /\ \A i \in 1 .. e - a + 1 : x[i] = s[a + i - 1]
    BY <1>0, <1>4, PartIs
  <2> HIDE DEF x
  <2> QED BY <1>4, <2>1
<1>6. y \in Seq(S) /\ Len(y) = m /\ \A i \in 1 .. m : y[i] = part[1 + i - 1]
  <2>1. y \in Seq(S) /\ Len(y) = m - 1 + 1 /\ \A i \in 1 .. m - 1 + 1 : y[i] = part[1 + i - 1]
    BY <1>1, <1>4, PartIs
  <2> HIDE DEF y
  <2> QED BY <1>4, <2>1
<1> HIDE DEF x, y
<1>7. \A i \in 1 .. m : x[i] = y[i]
  <2> TAKE i \in 1 .. m
  <2>1. i \in 1 .. b - a + 1 /\ 1 + i - 1 = i
    BY <1>0, <1>4
  <2> QED BY <1>1, <1>5, <1>6, <2>1
<1>8. x = [i \in 1 .. Len(x) |-> x[i]] /\ y = [i \in 1 .. Len(y) |-> y[i]]
  BY <1>5, <1>6
<1>9. x = y
  BY <1>5, <1>6, <1>7, <1>8
<1> QED BY <1>9 DEF x, y, e, m, part

\* scan_prefix gives the keys with the prefix, and with a bound the first of them.
Prefixed(K, v) == {k \in K : k[1] = v}
PrefixGives(u, t, K, v, all) ==
    /\ Lists(all, Prefixed(K, v), u.rank)
    /\ Len(all) <= Len(KeysFrom(t, FindLeafForKey(t, <<v, 0>>), "asc"))
    /\ \A max \in Nat \ {0} : ScanPrefix(t, v, max) = SubSeq(all, 1, Min({max, Len(all)}))
LEMMA ScanPrefixIs ==
    ASSUME NEW u, NEW t, NEW g, NEW K, Filed(u, t, g, K), NEW v, <<v, 0>> \in u.keys
    PROVE  \E all : PrefixGives(u, t, K, v, all)
<1> DEFINE p == FindLeafForKey(t, <<v, 0>>)
           met == KeysFrom(t, p, "asc")
           M == Coming(u, g, K, p, "asc")
           T == {k \in u.keys : k[1] = v}
           I == Hits(met, T)
           a == Min(I)
           b == Max(I)
<1>1. IsKeySpace(u) /\ K \in SUBSET u.keys /\ Whole(u, t, g) /\ u.keys \subseteq Nat \X Nat
  BY DEF Filed, IsKeySpace
<1>2. p \in IndexLeaves(t.pages) /\ g.lo[p] <= u.rank[<<v, 0>>] /\ p \in IndexPage
  BY <1>1, IndexPathIs DEF IndexLeafAt, IndexLeaves, Reaches
<1>3. Lists(met, M, u.rank)
  <2>1. Lists(met, M, Facing(u, "asc"))
    BY <1>2, KeysFromIs
  <2>2. \A k \in M : u.rank[k] = Facing(u, "asc")[k]
    BY <1>1, FacingIs DEF Coming
  <2> HIDE DEF met, M
  <2> QED BY <2>1, <2>2, ListsAlike
<1>4. M \cap T = Prefixed(K, v)
  <2> SUFFICES ASSUME NEW k \in K, k[1] = v PROVE Near(u, g, "asc")[p] <= Facing(u, "asc")[k]
    BY <1>1 DEF Coming, Prefixed
  <2>1. k \in u.keys /\ k \in Nat \X Nat
    BY <1>1
  <2>2. k = <<v, 0>> \/ Before(<<v, 0>>, k)
    <3>1. k = <<v, k[2]>> /\ k[2] \in Nat
      BY <2>1
    <3> DEFINE n == k[2]
    <3>2. n = 0 \/ 0 < n
      BY <3>1
    <3> QED BY <3>1, <3>2 DEF Before
  <2>3. u.rank[<<v, 0>>] <= u.rank[k] /\ u.rank[<<v, 0>>] \in Nat /\ u.rank[k] \in Nat
    BY <1>1, <2>1, <2>2, FacingIs DEF IsKeySpace
  <2>4. Facing(u, "asc")[k] = u.rank[k] /\ Near(u, g, "asc")[p] = g.lo[p] /\ g.lo[p] \in Nat
    BY <1>1, <1>2, <2>1, FacingIs, IndexTreeIs DEF Near
  <2> QED BY <1>2, <2>3, <2>4
<1>5. /\ met \in Seq(M) /\ DOMAIN met = 1 .. Len(met) /\ Len(met) \in Nat /\ M \subseteq u.keys
      /\ \A i \in 1 .. Len(met) : met[i] \in M
  <2>1. met \in Seq(M) /\ M \subseteq u.keys
    BY <1>1, <1>3 DEF Lists, Coming
  <2> HIDE DEF met, M
  <2> QED BY <2>1, SeqIsFunction
<1>6. I = {i \in DOMAIN met : met[i][1] = v}
  <2> HIDE DEF met, M
  <2> QED BY <1>5 DEF Hits
<1>7. \A max : ScanPrefix(t, v, max) =
         LET run == {i \in I : \A j \in I, n \in DOMAIN met : j < n /\ n < i => n \in I}
         IN  IF I = {} THEN <<>> ELSE SubSeq(met, Min(I), Min({Max(run), Min(I) + max - 1}))
  BY <1>6 DEF ScanPrefix
<1> HIDE DEF met, M
<1>8. Gapless(I)
  <2> SUFFICES ASSUME NEW i \in I, NEW j \in I, NEW n \in i .. j PROVE n \in I
    BY DEF Gapless
  <2>1. i \in 1 .. Len(met) /\ j \in 1 .. Len(met) /\ met[i][1] = v /\ met[j][1] = v
    BY DEF Hits
  <2>2. n \in 1 .. Len(met) /\ (n = i \/ i < n) /\ (n = j \/ n < j)
    BY <1>5, <2>1
  <2>3. met[n] \in u.keys /\ met[i] \in u.keys /\ met[j] \in u.keys
    BY <1>5, <2>1, <2>2
  <2>4. /\ i < n => Before(met[i], met[n])
        /\ n < j => Before(met[n], met[j])
    <3>1. /\ i < n => u.rank[met[i]] < u.rank[met[n]]
          /\ n < j => u.rank[met[n]] < u.rank[met[j]]
      BY <1>3, <2>1, <2>2 DEF Lists, Rising
    <3> QED BY <1>1, <2>3, <3>1 DEF IsKeySpace
  <2>5. met[n][1] \in Nat /\ met[i][1] \in Nat /\ met[j][1] \in Nat
    <3>1. \A k \in u.keys : k[1] \in Nat
      BY <1>1
    <3> QED BY <2>3, <3>1
  <2>6. met[n][1] = v
    <3>1. v <= met[n][1]
      BY <2>1, <2>2, <2>4, <2>5 DEF Before
    <3>2. met[n][1] <= v
      BY <2>1, <2>2, <2>4, <2>5 DEF Before
    <3> QED BY <2>1, <2>5, <3>1, <3>2
  <2> QED BY <2>2, <2>3, <2>6 DEF Hits
<1>9. {i \in I : \A j \in I, n \in DOMAIN met : j < n /\ n < i => n \in I} = I
  <2>1. \A i, j \in I : \A n \in DOMAIN met : j < n /\ n < i => n \in I
    <3> SUFFICES ASSUME NEW i \in I, NEW j \in I, NEW n \in DOMAIN met, j < n, n < i PROVE n \in I
      OBVIOUS
    <3>1. i \in 1 .. Len(met) /\ j \in 1 .. Len(met)
      BY DEF Hits
    <3>2. n \in j .. i
      BY <1>5, <3>1
    <3> HIDE DEF I
    <3> QED BY <1>8, <3>2 DEF Gapless
  <2> HIDE DEF I
  <2> QED BY <2>1
<1>10. \A max : ScanPrefix(t, v, max) = IF I = {} THEN <<>> ELSE SubSeq(met, a, Min({b, a + max - 1}))
  <2> HIDE DEF I
  <2> QED BY <1>7, <1>9
<1>11. CASE I = {}
  <2> DEFINE e == <<>>
  <2>1. Prefixed(K, v) = {}
    <3> SUFFICES ASSUME NEW k \in Prefixed(K, v) PROVE FALSE
      OBVIOUS
    <3>1. k \in M /\ k \in T
      BY <1>4
    <3>2. PICK i \in 1 .. Len(met) : met[i] = k
      BY <1>3, <3>1 DEF Lists
    <3> HIDE DEF T
    <3>3. i \in I
      BY <3>1, <3>2 DEF Hits
    <3> QED BY <1>11, <3>3
  <2>2. Len(e) = 0 /\ \A S : e \in Seq(S)
    OBVIOUS
  <2>3. Lists(e, Prefixed(K, v), u.rank)
    BY <2>1, <2>2 DEF Lists, Rising
  <2>4. \A max \in Nat \ {0} : SubSeq(e, 1, Min({max, Len(e)})) = e
    <3> TAKE max \in Nat \ {0}
    <3>1. Min({max, Len(e)}) = 0
      BY <2>2, Lesser
    <3>2. SubSeq(<<>>, 1, 0) = <<>>
      OBVIOUS
    <3> QED BY <3>1, <3>2
  <2>5. \A max : ScanPrefix(t, v, max) = e
    <3> HIDE DEF I
    <3> QED BY <1>10, <1>11
  <2> HIDE DEF e
  <2>6. Len(e) <= Len(met)
    BY <1>5, <2>2
  <2> QED BY <2>3, <2>4, <2>5, <2>6 DEF PrefixGives, met, p
<1>12. CASE I # {}
  <2> DEFINE all == SubSeq(met, a, b)
  <2>1. /\ a \in 1 .. Len(met) /\ b \in 1 .. Len(met) /\ a <= b
        /\ Lists(all, M \cap T, u.rank) /\ Len(all) = b - a + 1
    <3> HIDE DEF T
    <3>1. Ends(met, T, a, b)
      BY <1>8, <1>12 DEF Ends
    <3> HIDE DEF a, b, all
    <3>2. RunOf(met, M, T, u.rank, a, b)
      BY <1>3, <3>1, RunLists
    <3> QED BY <3>2 DEF RunOf, all
  <2>2. \A max \in Nat \ {0} : ScanPrefix(t, v, max) = SubSeq(all, 1, Min({max, Len(all)}))
    <3> TAKE max \in Nat \ {0}
    <3>1. ScanPrefix(t, v, max) = SubSeq(met, a, Min({b, a + max - 1}))
      <4> HIDE DEF I
      <4> QED BY <1>10, <1>12
    <3> HIDE DEF a, b
    <3>2. SubSeq(met, a, Min({b, a + max - 1})) = SubSeq(all, 1, Min({max, Len(all)}))
      <4>1. met \in Seq(M)
        BY <1>5
      <4>2. a \in 1 .. Len(met) /\ b \in 1 .. Len(met) /\ a <= b
        BY <2>1
      <4> QED BY <4>1, <4>2, PartOfPart, ZenonT(30)
    <3> HIDE DEF all
    <3> QED BY <3>1, <3>2
  <2> HIDE DEF all, a, b, T
  <2>3. Len(all) <= Len(met)
    BY <1>5, <2>1
  <2> QED BY <1>4, <2>1, <2>2, <2>3 DEF PrefixGives, met, p
<1> QED BY <1>11, <1>12

\* They fit on the pages there are, so counting stops at no bound.
LEMMA KeysFromFit ==
    ASSUME NEW u, NEW t, NEW g, NEW K, Filed(u, t, g, K), NEW dir \in {"asc", "desc"},
           NEW p \in IndexLeaves(t.pages)
    PROVE  Len(KeysFrom(t, p, dir)) <= IndexPages * IndexCap
<1> DEFINE P == t.pages
           L == IndexLeaves(P)
           a == Near(u, g, dir)
           b == Far(u, g, dir)
           link == Onwards(P, dir)
           s == Follow(link, p, IndexPages)
           ss == [i \in 1 .. Len(s) |-> ReadLeaf(P, s[i], dir)]
<1>1. IsKeySpace(u) /\ K \in SUBSET u.keys /\ Whole(u, t, g)
  BY DEF Filed
<1>2. Joins(IndexPages, L, u.top, a, b, link)
  BY <1>1, IndexLeavesJoin
<1>3. IsChain(L, u.top, a, b, p, s)
  <2> HIDE DEF L, a, b, link
  <2> QED BY <1>2, ChainIs DEF L
<1>4. /\ s \in Seq(L) /\ Len(s) \in Nat /\ DOMAIN s = 1 .. Len(s) /\ L \subseteq 1 .. IndexPages
      /\ \A i \in 1 .. Len(s) : s[i] \in L
  <2> HIDE DEF s, L, a, b, link
  <2>1. s \in Seq(L) /\ L \subseteq 1 .. IndexPages
    BY <1>2, <1>3 DEF IsChain, Joins
  <2> QED BY <2>1, SeqIsFunction
<1>5. Len(s) <= IndexPages
  <2> HIDE DEF s, L, a, b, link
  <2>1. ASSUME NEW i \in 1 .. Len(s), NEW j \in 1 .. Len(s), s[i] = s[j] PROVE i = j
    <3>1. /\ i < j => b[s[i]] <= a[s[j]]
          /\ j < i => b[s[j]] <= a[s[i]]
      BY <1>3 DEF IsChain
    <3>2. a[s[i]] \in Nat /\ b[s[i]] \in Nat /\ a[s[i]] < b[s[i]]
      BY <1>2, <1>4 DEF Joins
    <3> QED BY <2>1, <3>1, <3>2
  <2>2. s \in Seq(1 .. IndexPages)
    BY <1>4, SeqInto
  <2>3. IsFiniteSet(1 .. IndexPages) /\ Cardinality(1 .. IndexPages) = IndexPages
    BY IndexIs, FS_Interval
  <2>4. Len(s) <= Cardinality(1 .. IndexPages)
    BY <2>1, <2>2, <2>3, Distinct
  <2> QED BY <2>3, <2>4
<1>6. \A q \in L : ReadLeaf(P, q, dir) \in Seq(K) /\ Len(ReadLeaf(P, q, dir)) <= IndexCap
  <2> SUFFICES ASSUME NEW q \in L
               PROVE  ReadLeaf(P, q, dir) \in Seq(K) /\ Len(ReadLeaf(P, q, dir)) <= IndexCap
    OBVIOUS
  <2>1. LeafFiles(u, P[q], g.lo[q], g.hi[q], K)
    BY IndexIs DEF Filed, Files, IndexLeaves
  <2>2. P[q].keys \in Seq(K) /\ Len(P[q].keys) <= IndexCap
    <3>1. P[q].keys \in Seq(Shelf(u, K, g.lo[q], g.hi[q])) /\ Len(P[q].keys) <= IndexCap
      BY <2>1 DEF LeafFiles, Lists
    <3>2. Shelf(u, K, g.lo[q], g.hi[q]) \subseteq K
      BY DEF Shelf
    <3>3. \A i \in 1 .. Len(P[q].keys) : P[q].keys[i] \in K
      BY <3>1, <3>2, SeqIsFunction
    <3> QED BY <3>1, <3>3, SeqInto
  <2> DEFINE e == P[q].keys
  <2> HIDE DEF e
  <2>3. Len(Reverse(e)) = Len(e) /\ Reverse(e) \in Seq(K)
    BY <2>2, ReverseIs DEF e
  <2> QED BY <2>2, <2>3 DEF ReadLeaf, e
<1>7. KeysFrom(t, p, dir) = FlattenSeq(ss)
  <2>1. KeysFrom(t, p, dir) = FlattenSeq([i \in DOMAIN s |-> ReadLeaf(P, s[i], dir)])
    BY DEF KeysFrom, ReadLeaf, Onwards
  <2> QED BY <1>4, <2>1
<1> HIDE DEF s, L, a, b, link, P
<1>8. ss \in Seq(Seq(K)) /\ Len(ss) = Len(s) /\ \A i \in 1 .. Len(ss) : Len(ss[i]) <= IndexCap
  <2>1. \A i \in 1 .. Len(s) : ReadLeaf(P, s[i], dir) \in Seq(K) /\ Len(ReadLeaf(P, s[i], dir)) <= IndexCap
    BY <1>4, <1>6
  <2> HIDE DEF ReadLeaf
  <2>2. ss \in [1 .. Len(s) -> Seq(K)] /\ \A i \in 1 .. Len(s) : ss[i] = ReadLeaf(P, s[i], dir)
    BY <2>1
  <2>3. ss \in Seq(Seq(K)) /\ Len(ss) = Len(s)
    BY <1>4, <2>2, FunctionIsSeq
  <2> QED BY <2>1, <2>2, <2>3
<1> HIDE DEF ss
<1>9. IndexCap \in Nat /\ IndexPages \in Nat
  BY IndexIs
<1>10. Len(FlattenSeq(ss)) <= Len(s) * IndexCap
  BY <1>8, <1>9, FlatFits
<1>11. Len(s) * IndexCap <= IndexPages * IndexCap /\ Len(FlattenSeq(ss)) \in Nat
  <2>1. FlattenSeq(ss) \in Seq(K)
    <3> DEFINE R == {}
    <3> HIDE DEF R
    <3> QED BY <1>8, FlattenIs
  <2>2. \A x, y, c \in Nat : x <= y => x * c <= y * c
    OBVIOUS
  <2> QED BY <1>4, <1>5, <1>9, <2>1, <2>2, SeqIsFunction
<1> QED BY <1>4, <1>7, <1>9, <1>10, <1>11

\* scan_prefix with a bound, scan_prefix_limit and count_prefix.
LEMMA LookupsByPrefix ==
    ASSUME NEW u, NEW t, NEW g, NEW K, Filed(u, t, g, K), NEW v, <<v, 0>> \in u.keys,
           NEW all, Lists(all, Prefixed(K, v), u.rank)
    PROVE  /\ \A max \in Nat \ {0} : ScanPrefix(t, v, max) = SubSeq(all, 1, Min({max, Len(all)}))
           /\ \A max \in Nat \ {0} : Len(all) <= max => ScanPrefix(t, v, max) = all
           /\ CountPrefix(t, v) = Len(all)
<1> DEFINE p == FindLeafForKey(t, <<v, 0>>)
<1>0. PICK s : PrefixGives(u, t, K, v, s)
  BY ScanPrefixIs
<1>1. /\ Lists(s, Prefixed(K, v), u.rank)
      /\ Len(s) <= Len(KeysFrom(t, p, "asc"))
      /\ \A max \in Nat \ {0} : ScanPrefix(t, v, max) = SubSeq(s, 1, Min({max, Len(s)}))
  BY <1>0 DEF PrefixGives
<1>2. IsKeySpace(u) /\ K \in SUBSET u.keys /\ Whole(u, t, g)
  BY DEF Filed
<1>3. Ranked(Prefixed(K, v), u.rank)
  <2>1. \A k \in u.keys : u.rank[k] \in Int
    BY <1>2, FacingIs
  <2>2. \A j, k \in u.keys : u.rank[j] = u.rank[k] => j = k
    BY <1>2 DEF IsKeySpace
  <2>3. Prefixed(K, v) \subseteq u.keys
    BY <1>2 DEF Prefixed
  <2> QED BY <2>1, <2>2, <2>3 DEF Ranked
<1>4. s = all
  BY <1>1, <1>3, SameLists
<1>5. \A max \in Nat \ {0} : ScanPrefix(t, v, max) = SubSeq(all, 1, Min({max, Len(all)}))
  BY <1>1, <1>4
<1>6. all \in Seq(K) /\ Len(all) \in Nat
  <2>1. all \in Seq(Prefixed(K, v)) /\ Prefixed(K, v) \subseteq K
    BY DEF Lists, Prefixed
  <2>2. \A i \in 1 .. Len(all) : all[i] \in K
    BY <2>1, SeqIsFunction
  <2> QED BY <2>1, <2>2, SeqInto, SeqIsFunction
<1>7. SubSeq(all, 1, Len(all)) = all
  BY <1>6
<1>8. ASSUME NEW max \in Nat \ {0}, Len(all) <= max PROVE ScanPrefix(t, v, max) = all
  <2>1. Min({max, Len(all)}) = Len(all)
    BY <1>6, <1>8, Lesser
  <2> QED BY <1>5, <1>7, <2>1
<1>9. p \in IndexLeaves(t.pages)
  BY <1>2, IndexPathIs DEF IndexLeafAt, IndexLeaves
<1>10. Len(all) <= IndexPages * IndexCap /\ IndexPages * IndexCap \in Nat \ {0}
  <2>1. Len(KeysFrom(t, p, "asc")) <= IndexPages * IndexCap /\ Len(KeysFrom(t, p, "asc")) \in Nat
    <3> DEFINE met == KeysFrom(t, p, "asc")
    <3>1. Len(met) <= IndexPages * IndexCap /\ Lists(met, Coming(u, g, K, p, "asc"), Facing(u, "asc"))
      BY <1>9, KeysFromFit, KeysFromIs
    <3> HIDE DEF met
    <3>2. Len(met) \in Nat
      BY <3>1, SeqIsFunction DEF Lists
    <3> QED BY <3>1, <3>2 DEF met
  <2>2. \A x, y \in Nat \ {0} : x * y \in Nat \ {0}
    OBVIOUS
  <2>3. IndexPages * IndexCap \in Nat \ {0}
    BY <2>2, IndexIs
  <2> HIDE DEF p
  <2> QED BY <1>1, <1>4, <1>6, <2>1, <2>3
<1>11. ScanPrefix(t, v, IndexPages * IndexCap) = all
  BY <1>8, <1>10
<1> QED BY <1>5, <1>8, <1>11 DEF CountPrefix

-----------------------------------------------------------------------------
(* Writing: lists that gain a key, and are cut in two. *)

LEMMA ListsInsert ==
    ASSUME NEW S, NEW rank, NEW s, Lists(s, S, rank), NEW k, Ranked(S \cup {k}, rank),
           \A x \in S : rank[x] # rank[k],
           NEW at, at = FirstOf(Len(s), {i \in 1 .. Len(s) : ~(rank[s[i]] < rank[k])})
    PROVE  Lists(InsertAt(s, at, k), S \cup {k}, rank) /\ Len(InsertAt(s, at, k)) = Len(s) + 1
<1> DEFINE above == {i \in 1 .. Len(s) : ~(rank[s[i]] < rank[k])}
           d == InsertAt(s, at, k)
           S2 == S \cup {k}
<1>1. /\ s \in Seq(S) /\ \A i, j \in 1 .. Len(s) : i < j => rank[s[i]] < rank[s[j]]
      /\ \A x \in S : \E i \in 1 .. Len(s) : s[i] = x
  BY DEF Lists, Rising
<1>2. /\ Len(s) \in Nat /\ \A i \in 1 .. Len(s) : s[i] \in S /\ rank[s[i]] \in Int /\ rank[s[i]] # rank[k]
      /\ rank[k] \in Int
  BY <1>1, SeqIsFunction DEF Ranked
<1>3. /\ at \in 1 .. Len(s) + 1 /\ (at <= Len(s) => at \in above)
      /\ \A i \in 1 .. Len(s) : i < at => i \notin above
  <2>1. above \subseteq 1 .. Len(s) /\ at = FirstOf(Len(s), above)
    OBVIOUS
  <2> HIDE DEF above
  <2>2. Len(s) \in Nat
    BY <1>2
  <2>3. /\ FirstOf(Len(s), above) \in 1 .. Len(s) + 1
        /\ FirstOf(Len(s), above) <= Len(s) => FirstOf(Len(s), above) \in above
        /\ \A i \in 1 .. Len(s) : i < FirstOf(Len(s), above) => i \notin above
    BY <2>1, <2>2, FirstOfIs
  <2> QED BY <2>1, <2>3
<1>4. d \in Seq(S2) /\ IsInserted(d, s, at, k)
  <2>1. s \in Seq(S2) /\ k \in S2
    BY <1>1, <1>2, SeqInto
  <2> HIDE DEF S2
  <2> QED BY <1>3, <2>1, Inserted
<1>5. /\ \A i \in 1 .. Len(s) : i < at => rank[s[i]] < rank[k]
      /\ \A i \in 1 .. Len(s) : i >= at => rank[k] < rank[s[i]]
  <2>1. ASSUME NEW i \in 1 .. Len(s), i < at PROVE rank[s[i]] < rank[k]
    BY <1>2, <1>3, <2>1
  <2>2. ASSUME NEW i \in 1 .. Len(s), i >= at PROVE rank[k] < rank[s[i]]
    <3>1. at \in 1 .. Len(s) /\ ~(rank[s[at]] < rank[k])
      BY <1>2, <1>3, <2>2
    <3>2. i = at \/ rank[s[at]] < rank[s[i]]
      BY <1>1, <1>2, <2>2, <3>1
    <3>3. rank[s[at]] \in Int /\ rank[s[i]] \in Int /\ rank[s[at]] # rank[k]
      BY <1>2, <3>1
    <3> QED BY <1>2, <3>1, <3>2, <3>3
  <2> QED BY <2>1, <2>2
<1> HIDE DEF d, above, S2
<1>6. /\ Len(d) = Len(s) + 1 /\ d[at] = k
      /\ \A j \in 1 .. at - 1 : j \in 1 .. Len(s) /\ d[j] = s[j]
      /\ \A j \in at + 1 .. Len(s) + 1 : j - 1 \in 1 .. Len(s) /\ d[j] = s[j - 1]
  <2>1. /\ Len(d) = Len(s) + 1 /\ d[at] = k
        /\ \A j \in 1 .. at - 1 : d[j] = s[j]
        /\ \A j \in at + 1 .. Len(s) + 1 : d[j] = s[j - 1]
    BY <1>4 DEF IsInserted
  <2>2. at \in 1 .. Len(s) + 1 /\ Len(s) \in Nat
    BY <1>2, <1>3
  <2>3. \A j \in 1 .. at - 1 : j \in 1 .. Len(s)
    BY <2>2
  <2>4. \A j \in at + 1 .. Len(s) + 1 : j - 1 \in 1 .. Len(s)
    BY <2>2
  <2> QED BY <2>1, <2>3, <2>4
<1>7. Rising(d, rank)
  <2>1. SUFFICES ASSUME NEW i \in 1 .. Len(s) + 1, NEW j \in 1 .. Len(s) + 1, i < j
                 PROVE  rank[d[i]] < rank[d[j]]
    BY <1>6 DEF Rising
  <2>2. CASE i < at /\ j < at
    <3>1. d[i] = s[i] /\ d[j] = s[j] /\ i \in 1 .. Len(s) /\ j \in 1 .. Len(s)
      BY <1>3, <1>6, <2>2
    <3> QED BY <1>1, <2>1, <3>1
  <2>3. CASE i < at /\ j = at
    <3>1. d[i] = s[i] /\ i \in 1 .. Len(s)
      BY <1>3, <1>6, <2>3
    <3> QED BY <1>5, <1>6, <2>3, <3>1
  <2>4. CASE i < at /\ j > at
    <3>0. i \in 1 .. at - 1 /\ j \in at + 1 .. Len(s) + 1 /\ j - 1 >= at
      BY <1>2, <1>3, <2>4
    <3>1. d[i] = s[i] /\ i \in 1 .. Len(s) /\ d[j] = s[j - 1] /\ j - 1 \in 1 .. Len(s) /\ j - 1 >= at
      BY <1>6, <3>0
    <3>2. rank[s[i]] < rank[k] /\ rank[k] < rank[s[j - 1]] /\ rank[s[i]] \in Int /\ rank[s[j - 1]] \in Int
      BY <1>2, <1>5, <2>4, <3>1
    <3> QED BY <1>2, <3>1, <3>2
  <2>5. CASE i = at
    <3>1. d[j] = s[j - 1] /\ j - 1 \in 1 .. Len(s) /\ j - 1 >= at
      BY <1>3, <1>6, <2>1, <2>5
    <3> QED BY <1>5, <1>6, <2>5, <3>1
  <2>6. CASE i > at
    <3>1. /\ d[i] = s[i - 1] /\ i - 1 \in 1 .. Len(s)
          /\ d[j] = s[j - 1] /\ j - 1 \in 1 .. Len(s) /\ i - 1 < j - 1
      BY <1>3, <1>6, <2>1, <2>6
    <3> QED BY <1>1, <3>1
  <2> QED BY <1>2, <1>3, <2>2, <2>3, <2>4, <2>5, <2>6
<1>8. ASSUME NEW x \in S2 PROVE \E j \in 1 .. Len(d) : d[j] = x
  <2>1. CASE x = k
    BY <1>2, <1>3, <1>6, <2>1
  <2>2. CASE x # k
    <3>1. PICK i \in 1 .. Len(s) : s[i] = x
      BY <1>1, <1>8, <2>2 DEF S2
    <3>2. CASE i < at
      <4>1. i \in 1 .. at - 1 /\ i \in 1 .. Len(s) + 1
        BY <1>2, <1>3, <3>2
      <4> QED BY <1>6, <3>1, <4>1
    <3>3. CASE i >= at
      <4>1. i + 1 \in at + 1 .. Len(s) + 1 /\ i + 1 \in 1 .. Len(s) + 1 /\ i + 1 - 1 = i
        BY <1>2, <1>3, <3>3
      <4>2. d[i + 1] = s[i]
        BY <1>6, <4>1
      <4> QED BY <1>6, <3>1, <4>1, <4>2
    <3> QED BY <1>2, <1>3, <3>2, <3>3
  <2> QED BY <2>1, <2>2
<1>9. Lists(d, S2, rank)
  BY <1>4, <1>7, <1>8 DEF Lists
<1> QED BY <1>6, <1>9 DEF d, S2

Lower(S, rank, z) == {x \in S : rank[x] < z}
Upper(S, rank, z) == {x \in S : z <= rank[x]}
LEMMA ListsCut ==
    ASSUME NEW S, NEW rank, NEW s, Lists(s, S, rank), Ranked(S, rank), NEW m \in 1 .. Len(s) - 1
    PROVE  /\ s[m] \in S /\ s[m + 1] \in S /\ rank[s[m]] < rank[s[m + 1]]
           /\ Lists(SubSeq(s, 1, m), Lower(S, rank, rank[s[m + 1]]), rank) /\ Len(SubSeq(s, 1, m)) = m
           /\ Lists(SubSeq(s, m + 1, Len(s)), Upper(S, rank, rank[s[m + 1]]), rank)
           /\ Len(SubSeq(s, m + 1, Len(s))) = Len(s) - m
           /\ SubSeq(s, m + 1, Len(s))[1] = s[m + 1]
<1> DEFINE z == rank[s[m + 1]]
<1>1. /\ s \in Seq(S) /\ \A i, j \in 1 .. Len(s) : i < j => rank[s[i]] < rank[s[j]]
      /\ \A i \in 1 .. Len(s) : s[i] \in S /\ rank[s[i]] \in Int
      /\ Len(s) \in Nat
  BY SeqIsFunction DEF Lists, Rising, Ranked
<1>2. /\ m \in Nat /\ m \in 1 .. Len(s) /\ m + 1 \in 1 .. Len(s) /\ 1 \in 1 .. Len(s) /\ Len(s) \in 1 .. Len(s)
      /\ 1 <= m /\ m + 1 <= Len(s) /\ m < m + 1
  BY <1>1
<1>3. s[m] \in S /\ s[m + 1] \in S /\ rank[s[m]] < z /\ z \in Int
  BY <1>1, <1>2
<1>4. \A i \in 1 .. Len(s) : rank[s[i]] < z <=> i <= m
  <2> TAKE i \in 1 .. Len(s)
  <2>1. CASE i <= m
    <3>1. rank[s[i]] < rank[s[m + 1]]
      BY <1>1, <1>2, <2>1
    <3> QED BY <2>1, <3>1
  <2>2. CASE ~(i <= m)
    <3>1. i = m + 1 \/ m + 1 < i
      BY <1>2, <2>2
    <3>2. i = m + 1 \/ z < rank[s[i]]
      BY <1>1, <1>2, <3>1
    <3>3. rank[s[i]] \in Int
      BY <1>1
    <3> QED BY <1>3, <2>2, <3>2, <3>3
  <2> QED BY <2>1, <2>2
<1> DEFINE A == Lower(S, rank, z)
           B == Upper(S, rank, z)
<1>5. \A i \in 1 .. Len(s) : s[i] \in A <=> (1 <= i /\ i <= m)
  BY <1>1, <1>4 DEF Lower
<1>6. \A i \in 1 .. Len(s) : s[i] \in B <=> (m + 1 <= i /\ i <= Len(s))
  <2> TAKE i \in 1 .. Len(s)
  <2>1. s[i] \in B <=> ~(rank[s[i]] < z)
    BY <1>1, <1>3 DEF Upper
  <2>2. ~(i <= m) <=> (m + 1 <= i /\ i <= Len(s))
    BY <1>1, <1>2
  <2> QED BY <1>4, <2>1, <2>2
<1>7. A \subseteq S /\ B \subseteq S
  BY DEF Lower, Upper
<1> HIDE DEF A, B, z
<1>8. Lists(SubSeq(s, 1, m), S \cap A, rank) /\ Len(SubSeq(s, 1, m)) = m - 1 + 1
  BY <1>2, <1>5, PartLists
<1>9. Lists(SubSeq(s, m + 1, Len(s)), S \cap B, rank) /\ Len(SubSeq(s, m + 1, Len(s))) = Len(s) - (m + 1) + 1
  BY <1>2, <1>6, PartLists
<1>10. S \cap A = A /\ S \cap B = B /\ m - 1 + 1 = m /\ Len(s) - (m + 1) + 1 = Len(s) - m
  BY <1>1, <1>2, <1>7
<1>11. SubSeq(s, m + 1, Len(s))[1] = s[m + 1]
  <2>1. /\ s \in Seq(S) /\ m + 1 \in Nat /\ Len(s) \in Nat /\ 1 <= m + 1 /\ m + 1 <= Len(s) + 1
        /\ Len(s) <= Len(s)
    BY <1>1, <1>2
  <2>2. \A i \in 1 .. Len(s) - (m + 1) + 1 : SubSeq(s, m + 1, Len(s))[i] = s[m + 1 + i - 1]
    BY <2>1, PartIs
  <2>3. 1 \in 1 .. Len(s) - (m + 1) + 1 /\ m + 1 + 1 - 1 = m + 1
    BY <1>1, <1>2
  <2> QED BY <2>2, <2>3
<1> QED BY <1>3, <1>8, <1>9, <1>10, <1>11 DEF A, B, z

-----------------------------------------------------------------------------
(* Writing one leaf. *)

LEMMA IndexLeafIs ==
    ASSUME NEW s, NEW a, NEW b
    PROVE  /\ IndexLeaf(s, a, b).kind = "leaf" /\ IndexLeaf(s, a, b).keys = s
           /\ IndexLeaf(s, a, b).prev = a /\ IndexLeaf(s, a, b).next = b
BY DEF IndexLeaf

LEMMA IndexLeafKeysSet ==
    ASSUME NEW v, v = IndexLeaf(v.keys, v.prev, v.next), NEW new
    PROVE  [v EXCEPT !.keys = new] = IndexLeaf(new, v.prev, v.next)
<1> DEFINE s == v.keys
           a == v.prev
           b == v.next
<1>1. v = IndexLeaf(s, a, b)
  OBVIOUS
<1> HIDE DEF s, a, b
<1>2. [v EXCEPT !.keys = new] = IndexLeaf(new, a, b)
  BY <1>1 DEF IndexLeaf
<1> QED BY <1>2 DEF a, b

LEMMA IndexLeafPrevSet ==
    ASSUME NEW v, v = IndexLeaf(v.keys, v.prev, v.next), NEW new
    PROVE  [v EXCEPT !.prev = new] = IndexLeaf(v.keys, new, v.next)
<1> DEFINE s == v.keys
           a == v.prev
           b == v.next
<1>1. v = IndexLeaf(s, a, b)
  OBVIOUS
<1> HIDE DEF s, a, b
<1>2. [v EXCEPT !.prev = new] = IndexLeaf(s, new, b)
  BY <1>1 DEF IndexLeaf
<1> QED BY <1>2 DEF s, b

\* K2 holds the keys of K, but for k perhaps.
ButFor(u, K, K2, k) == K2 \in SUBSET u.keys /\ \A y \in u.keys : y # k => (y \in K2 <=> y \in K)

SameShelves(u, t, g, K, K2, p) ==
    \A q \in IndexPage : t.pages[q].kind = "leaf" /\ q # p
                         => Shelf(u, K2, g.lo[q], g.hi[q]) = Shelf(u, K, g.lo[q], g.hi[q])
LEMMA OtherShelves ==
    ASSUME NEW u, NEW t, NEW g, NEW K, Filed(u, t, g, K), NEW k \in u.keys, NEW K2, ButFor(u, K, K2, k),
           NEW p, IndexLeafAt(t, g, p, u.rank[k])
    PROVE  SameShelves(u, t, g, K, K2, p)
<1> SUFFICES ASSUME NEW q \in IndexPage, t.pages[q].kind = "leaf", q # p
             PROVE  Shelf(u, K2, g.lo[q], g.hi[q]) = Shelf(u, K, g.lo[q], g.hi[q])
  BY DEF SameShelves
<1>1. IsKeySpace(u) /\ K \in SUBSET u.keys /\ Whole(u, t, g)
  BY DEF Filed
<1>2. u.rank[k] \in Int
  BY <1>1, FacingIs
<1>3. q \in InTree(t.pages)
  BY <1>1, IndexTreeIs
<1>4. ~Reaches(g, q, u.rank[k])
  <2>1. Reaches(g, q, u.rank[k]) => IndexLeafAt(t, g, q, u.rank[k])
    BY <1>3 DEF IndexLeafAt
  <2> QED BY <1>1, <1>2, <2>1, OneIndexLeaf
<1>5. ~(g.lo[q] <= u.rank[k] /\ u.rank[k] < g.hi[q])
  BY <1>4 DEF Reaches
<1> QED BY <1>1, <1>5 DEF Shelf, ButFor

KeysSet(t, p, new) == [t EXCEPT !.pages[p].keys = new]
KeysAreSet(t, t2, p, new) ==
    /\ t2.pages = [t.pages EXCEPT ![p] = [t.pages[p] EXCEPT !.keys = new]]
    /\ t2.free = t.free /\ t2.root = t.root /\ IsTree(t2)
LEMMA KeysSetIs ==
    ASSUME NEW t, IsTree(t), NEW p, NEW new
    PROVE  KeysAreSet(t, KeysSet(t, p, new), p, new)
<1> DEFINE P == t.pages
           Q == [P EXCEPT ![p] = [P[p] EXCEPT !.keys = new]]
<1>1. PICK free : free = t.free /\ free \in Nat
  BY DEF IsTree
<1>2. PICK root : root = t.root
  OBVIOUS
<1>3. KeysSet(t, p, new) = [pages |-> Q, free |-> free, root |-> root]
  <2>1. t = [pages |-> P, free |-> free, root |-> root]
    BY <1>1, <1>2 DEF IsTree
  <2> QED BY <2>1 DEF KeysSet
<1> HIDE DEF Q
<1>4. /\ KeysSet(t, p, new).pages = Q /\ KeysSet(t, p, new).free = free /\ KeysSet(t, p, new).root = root
      /\ IsTree(KeysSet(t, p, new))
  BY <1>1, <1>3 DEF IsTree
<1> QED BY <1>1, <1>2, <1>4 DEF KeysAreSet, Q

LEMMA IndexLeafWritten ==
    ASSUME NEW u, NEW t, NEW g, NEW K, Filed(u, t, g, K), NEW k \in u.keys, NEW K2, ButFor(u, K, K2, k),
           NEW p, IndexLeafAt(t, g, p, u.rank[k]),
           NEW new, Lists(new, Shelf(u, K2, g.lo[p], g.hi[p]), u.rank), Len(new) <= IndexCap
    PROVE  Filed(u, KeysSet(t, p, new), g, K2) /\ KeysSet(t, p, new).free = t.free
<1> DEFINE P == t.pages
           Q == [P EXCEPT ![p] = [P[p] EXCEPT !.keys = new]]
           t2 == KeysSet(t, p, new)
<1>0. IsKeySpace(u) /\ Whole(u, t, g) /\ Files(u, P, g, K)
  BY DEF Filed
<1>1. /\ DOMAIN P = IndexPage /\ t = [pages |-> P, free |-> t.free, root |-> t.root]
      /\ p \in IndexPage /\ P[p].kind = "leaf" /\ IndexPage = 1 .. u.n /\ IsSpace(u)
      /\ t.free \in 2 .. u.n + 1 /\ u.n \in Nat /\ t.free \in Nat
      /\ \A q \in IndexPage : /\ P[q] = Unused <=> q >= t.free
                              /\ P[q].kind = "unused" <=> q >= t.free
  BY <1>0, IndexTreeIs, IndexIs DEF IndexLeafAt
<1>2. t2 = [pages |-> Q, free |-> t.free, root |-> t.root]
  <2>1. IsTree(t)
    BY <1>1 DEF IsTree
  <2>2. KeysAreSet(t, t2, p, new)
    BY <2>1, KeysSetIs
  <2> QED BY <2>2 DEF KeysAreSet, IsTree
<1>20. SameShelves(u, t, g, K, K2, p)
  BY OtherShelves
<1>3. \A q \in IndexPage : P[q].kind = "leaf" => LeafFiles(u, P[q], g.lo[q], g.hi[q], K)
  BY <1>0 DEF Files
<1>4. Q[p] = IndexLeaf(new, P[p].prev, P[p].next) /\ \A q \in IndexPage : q # p => Q[q] = P[q]
  <2> DEFINE v == P[p]
  <2>1. [v EXCEPT !.keys = new] = IndexLeaf(new, v.prev, v.next)
    <3>1. v = IndexLeaf(v.keys, v.prev, v.next)
      BY <1>1, <1>3 DEF LeafFiles
    <3> HIDE DEF v
    <3> QED BY <3>1, IndexLeafKeysSet
  <2> QED BY <1>1, <2>1
<1>5. DOMAIN Q = IndexPage
  BY <1>1
<1> HIDE DEF Q, t2
<1>6. Q[p].kind = "leaf" /\ Q[p].keys = new /\ Q[p].prev = P[p].prev /\ Q[p].next = P[p].next
  BY <1>4, IndexLeafIs
<1>7. SameShape(P, Q)
  <2>1. \A q \in IndexPage : q \in InTree(P) <=> q \in InTree(Q)
    BY <1>1, <1>4, <1>5, <1>6 DEF InTree
  <2>2. \A q \in IndexPage : /\ P[q].kind = "branch" => Q[q] = P[q]
                             /\ P[q].kind = "leaf" => Q[q].kind = "leaf" /\ Q[q].prev = P[q].prev /\ Q[q].next = P[q].next
    BY <1>1, <1>4, <1>6
  <2> QED BY <1>1, <1>5, <2>1, <2>2 DEF SameShape
<1>8. t2.pages = Q /\ t2.free = t.free /\ t2.root = t.root
  BY <1>2
<1>9. \A q \in IndexPage : /\ Q[q] = Unused <=> q >= t.free
                           /\ Q[q].kind = "unused" <=> q >= t.free
  <2>1. Q[p] # Unused /\ P[p] # Unused
    BY <1>1, <1>6 DEF Unused
  <2> QED BY <1>1, <1>4, <1>6, <2>1
<1>10. Whole(u, t2, g)
  <2>1. t2 = [pages |-> t2.pages, free |-> t2.free, root |-> t.root]
    BY <1>2, <1>8
  <2>2. t2.free \in t.free .. u.n + 1
    BY <1>1, <1>8
  <2> QED BY <1>0, <1>1, <1>7, <1>8, <1>9, <2>1, <2>2, Reshaped
<1>11. Files(u, Q, g, K2)
  <2>1. ASSUME NEW q \in IndexPage, Q[q].kind = "leaf" PROVE LeafFiles(u, Q[q], g.lo[q], g.hi[q], K2)
    <3>1. CASE q = p
      BY <1>4, <1>6, <3>1 DEF LeafFiles
    <3>2. CASE q # p
      <4>1. LeafFiles(u, P[q], g.lo[q], g.hi[q], K) /\ Q[q] = P[q]
        BY <1>3, <1>4, <2>1, <3>2
      <4>2. Shelf(u, K2, g.lo[q], g.hi[q]) = Shelf(u, K, g.lo[q], g.hi[q])
        <5>1. t.pages[q].kind = "leaf"
          BY <2>1, <4>1
        <5> QED BY <1>20, <3>2, <5>1 DEF SameShelves
      <4> QED BY <4>1, <4>2 DEF LeafFiles
    <3> QED BY <3>1, <3>2
  <2> QED BY <2>1 DEF Files
<1>12. Filed(u, t2, g, K2)
  BY <1>0, <1>8, <1>10, <1>11 DEF Filed, ButFor
<1> QED BY <1>8, <1>12 DEF t2

\* A selection is no longer than what it is taken from.
LEMMA PickedFits ==
    ASSUME NEW S, NEW s \in Seq(S), NEW I
    PROVE  Len(Picked(s, I)) <= Len(s)
<1> DEFINE d == Picked(s, I)
           n == Len(s)
<1>1. PICK at : d \in Seq(S) /\ PicksAt(d, s, I, at)
  BY PickedIs
<1> HIDE DEF d
<1>2. Len(d) \in Nat /\ n \in Nat
  BY <1>1, SeqIsFunction
<1>3. at \in [1 .. Len(d) -> 1 .. n] /\ \A j, k \in 1 .. Len(d) : j < k => at[j] < at[k]
  BY <1>1 DEF PicksAt
<1>4. at \in Seq(1 .. n) /\ Len(at) = Len(d)
  <2>1. at \in Seq(1 .. n)
    BY <1>2, <1>3, FunctionIsSeq
  <2>2. Len(at) \in Nat /\ DOMAIN at = 1 .. Len(at) /\ DOMAIN at = 1 .. Len(d)
    BY <1>3, <2>1, SeqIsFunction
  <2> QED BY <1>2, <2>1, <2>2
<1>5. \A j, k \in 1 .. Len(at) : at[j] = at[k] => j = k
  <2> SUFFICES ASSUME NEW j \in 1 .. Len(d), NEW k \in 1 .. Len(d), at[j] = at[k] PROVE j = k
    BY <1>4
  <2>1. at[j] \in Int /\ at[k] \in Int
    BY <1>3
  <2>2. ~(j < k) /\ ~(k < j)
    BY <1>3, <2>1
  <2> QED BY <1>2, <2>2
<1>6. IsFiniteSet(1 .. n) /\ Cardinality(1 .. n) = n
  <2>1. n \in Int /\ 1 \in Int
    BY <1>2
  <2> HIDE DEF n
  <2>2. IsFiniteSet(1 .. n) /\ Cardinality(1 .. n) = IF 1 > n THEN 0 ELSE n - 1 + 1
    BY <2>1, FS_Interval
  <2>3. n \in Nat
    BY <1>2
  <2> QED BY <2>2, <2>3
<1>7. Len(at) <= Cardinality(1 .. n)
  BY <1>4, <1>5, <1>6, Distinct
<1> QED BY <1>4, <1>6, <1>7 DEF d

\* IndexTreeWriter::delete.
LEMMA IndexDeleteIs ==
    ASSUME NEW u, NEW t, NEW g, NEW K, Filed(u, t, g, K), NEW k \in u.keys
    PROVE  Filed(u, IndexDelete(t, k), g, K \ {k}) /\ IndexDelete(t, k).free = t.free
<1> DEFINE p == FindLeafForKey(t, k)
           old == t.pages[p].keys
           I == {i \in DOMAIN old : old[i] # k}
           new == Picked(old, I)
           S == Shelf(u, K, g.lo[p], g.hi[p])
           T == {x \in u.keys : x # k}
<1>0. IsKeySpace(u) /\ K \in SUBSET u.keys /\ Whole(u, t, g)
  BY DEF Filed
<1>1. IndexLeafAt(t, g, p, u.rank[k])
  BY <1>0, IndexPathIs
<1>2. ButFor(u, K, K \ {k}, k)
  BY <1>0 DEF ButFor
<1>3. IndexDelete(t, k) = KeysSet(t, p, new)
  <2>1. t = [pages |-> t.pages, free |-> t.free, root |-> t.root] /\ p \in DOMAIN t.pages
    BY <1>0, <1>1, IndexTreeIs DEF IndexLeafAt
  <2> QED BY <2>1 DEF IndexDelete, KeysSet
<1>4. Lists(old, S, u.rank) /\ Len(old) <= IndexCap
  BY <1>1 DEF Filed, Files, LeafFiles, IndexLeafAt
<1> HIDE DEF p
<1>5. old \in Seq(S) /\ DOMAIN old = 1 .. Len(old) /\ Len(old) \in Nat /\ \A i \in 1 .. Len(old) : old[i] \in S
  BY <1>4, SeqIsFunction DEF Lists
<1>6. S \subseteq u.keys /\ S \cap T = Shelf(u, K \ {k}, g.lo[p], g.hi[p])
  BY <1>0 DEF Shelf
<1>7. \A i \in 1 .. Len(old) : i \in I <=> old[i] \in T
  BY <1>5, <1>6
<1> HIDE DEF I, S, T, old
<1>8. Lists(new, S \cap T, u.rank)
  BY <1>4, <1>7, PickedLists
<1>9. Len(new) <= Len(old)
  BY <1>5, PickedFits
<1> HIDE DEF new
<1>10. Lists(new, Shelf(u, K \ {k}, g.lo[p], g.hi[p]), u.rank) /\ Len(new) <= IndexCap
  <2>1. Len(new) \in Nat /\ IndexCap \in Nat
    BY <1>8, SeqIsFunction, IndexIs DEF Lists
  <2>2. Len(new) <= IndexCap
    BY <1>4, <1>5, <1>9, <2>1
  <2>3. Lists(new, Shelf(u, K \ {k}, g.lo[p], g.hi[p]), u.rank)
    BY <1>6, <1>8
  <2> QED BY <2>2, <2>3
<1> QED BY <1>1, <1>2, <1>3, <1>10, IndexLeafWritten

-----------------------------------------------------------------------------
(* insert: a leaf that is full is cut in two. *)

\* The pages after the leaf's keys went to pages p and f.
IndexLinked(P, p, f, left, right) ==
    [n \in IndexPage |-> CASE n = p -> IndexLeaf(left, P[p].prev, f)
                           [] n = f -> IndexLeaf(right, p, P[p].next)
                           [] n = P[p].next -> [P[n] EXCEPT !.prev = f]
                           [] OTHER -> P[n]]
IndexCutInto(t, p, s, mid, t2, up) ==
    /\ t2 = [pages |-> IndexLinked(t.pages, p, t.free, SubSeq(s, 1, mid), SubSeq(s, mid + 1, Len(s))),
             free |-> t.free + 1, root |-> t.root]
    /\ up.key = s[mid + 1] /\ up.page = t.free

\* A leaf's list of keys, fit for two pages.
Cuttable(s, mid) == mid \in 1 .. Len(s) - 1 /\ mid <= IndexCap /\ Len(s) - mid <= IndexCap

LEMMA IndexLeafCut ==
    ASSUME NEW u, NEW t, NEW g, NEW K, Filed(u, t, g, K), NEW k \in u.keys, NEW K2, ButFor(u, K, K2, k),
           NEW p, IndexLeafAt(t, g, p, u.rank[k]),
           NEW s, Lists(s, Shelf(u, K2, g.lo[p], g.hi[p]), u.rank), NEW mid, Cuttable(s, mid),
           t.free <= IndexPages, NEW t2, NEW up, IndexCutInto(t, p, s, mid, t2, up)
    PROVE  /\ \E g2 : Pending(u, t2, g2, p, up) /\ Files(u, t2.pages, g2, K2)
           /\ \A q \in IndexPage : t.pages[q].kind = "branch" => t2.pages[q] = t.pages[q]
<1> DEFINE P == t.pages
           f == t.free
           left == SubSeq(s, 1, mid)
           right == SubSeq(s, mid + 1, Len(s))
           Q == IndexLinked(P, p, f, left, right)
           next == P[p].next
           z == u.rank[up.key]
           g2 == Halved(u, g, p, f, z)
           S == Shelf(u, K2, g.lo[p], g.hi[p])
<1>0. IsKeySpace(u) /\ Whole(u, t, g) /\ K2 \in SUBSET u.keys
      /\ \A q \in IndexPage : P[q].kind = "leaf" => LeafFiles(u, P[q], g.lo[q], g.hi[q], K)
  BY DEF Filed, Files, ButFor
<1>1. /\ IndexPage = 1 .. IndexPages /\ DOMAIN P = IndexPage /\ f \in 2 .. IndexPages + 1 /\ f \in IndexPage
      /\ \A q \in IndexPage : P[q].kind = "unused" <=> q >= f
      /\ u.n = IndexPages /\ IsSpace(u) /\ IndexPages \in Nat
  BY <1>0, IndexTreeIs, IndexIs
<1>2. /\ p \in IndexPage /\ p \in InTree(P) /\ P[p].kind = "leaf" /\ p # f /\ f # 0
      /\ g.lo[p] \in Nat /\ g.hi[p] \in Nat
  BY <1>0, <1>1, IndexTreeIs DEF IndexLeafAt
<1>3. P[f].kind = "unused"
  BY <1>1
<1>4. t2 = [pages |-> Q, free |-> f + 1, root |-> t.root] /\ up.key = s[mid + 1] /\ up.page = f
      /\ t2.pages = Q
  BY DEF IndexCutInto
<1>5. /\ up.key \in u.keys /\ z \in Nat /\ g.lo[p] < z /\ z < g.hi[p]
      /\ Lists(left, Shelf(u, K2, g.lo[p], z), u.rank) /\ Len(left) <= IndexCap
      /\ Lists(right, Shelf(u, K2, z, g.hi[p]), u.rank) /\ Len(right) <= IndexCap
  <2>1. S \subseteq u.keys /\ \A x \in S : g.lo[p] <= u.rank[x] /\ u.rank[x] < g.hi[p] /\ u.rank[x] \in Nat
    BY <1>0, FacingIs DEF Shelf
  <2> HIDE DEF S
  <2>2. Ranked(S, u.rank)
    BY <2>1 DEF Ranked
  <2>3. mid \in 1 .. Len(s) - 1 /\ mid <= IndexCap /\ Len(s) - mid <= IndexCap
    BY DEF Cuttable
  <2>4. /\ s[mid] \in S /\ s[mid + 1] \in S /\ u.rank[s[mid]] < u.rank[s[mid + 1]]
        /\ Lists(left, Lower(S, u.rank, u.rank[s[mid + 1]]), u.rank) /\ Len(left) = mid
        /\ Lists(right, Upper(S, u.rank, u.rank[s[mid + 1]]), u.rank) /\ Len(right) = Len(s) - mid
    <3>1. Lists(s, S, u.rank) /\ mid \in 1 .. Len(s) - 1
      BY <2>3 DEF S
    <3> HIDE DEF left, right
    <3>2. /\ s[mid] \in S /\ s[mid + 1] \in S /\ u.rank[s[mid]] < u.rank[s[mid + 1]]
          /\ Lists(SubSeq(s, 1, mid), Lower(S, u.rank, u.rank[s[mid + 1]]), u.rank) /\ Len(SubSeq(s, 1, mid)) = mid
          /\ Lists(SubSeq(s, mid + 1, Len(s)), Upper(S, u.rank, u.rank[s[mid + 1]]), u.rank)
          /\ Len(SubSeq(s, mid + 1, Len(s))) = Len(s) - mid
      BY <2>2, <3>1, ListsCut
    <3> QED BY <3>2 DEF left, right
  <2>5. z = u.rank[s[mid + 1]]
    BY <1>4
  <2>6. g.lo[p] <= u.rank[s[mid]] /\ u.rank[s[mid]] < z /\ z < g.hi[p] /\ u.rank[s[mid]] \in Nat /\ z \in Nat
    BY <2>1, <2>4, <2>5
  <2> HIDE DEF z, left, right
  <2>7. g.lo[p] < z
    BY <1>2, <2>6
  <2>8. Lower(S, u.rank, z) = Shelf(u, K2, g.lo[p], z)
    BY <1>0, <1>2, <2>1, <2>6, FacingIs DEF Lower, Shelf, S
  <2>9. Upper(S, u.rank, z) = Shelf(u, K2, z, g.hi[p])
    <3>1. \A x \in K2 : u.rank[x] \in Nat
      BY <1>0, FacingIs
    <3> QED BY <1>2, <2>6, <2>7, <3>1 DEF Upper, Shelf, S
  <2> QED BY <1>4, <2>1, <2>3, <2>4, <2>5, <2>6, <2>7, <2>8, <2>9
<1> HIDE DEF left, right, S
<1>7. next # p /\ next # f /\ (next # 0 => next \in IndexPage /\ P[next].kind = "leaf" /\ P[next] = IndexLeaf(P[next].keys, P[next].prev, P[next].next))
  <2>1. Linked(u, t, g)
    BY <1>0 DEF Whole, Standing
  <2>2. /\ g.hi[p] = u.top => next = 0
        /\ g.hi[p] # u.top => next \in IndexPage /\ P[next].kind = "leaf" /\ g.lo[next] = g.hi[p]
    BY <1>1, <1>2, <2>1 DEF Linked
  <2>3. g.lo[p] # g.hi[p]
    <3> HIDE DEF z
    <3> QED BY <1>2, <1>5
  <2>4. 0 # p /\ 0 # f
    BY <1>1, <1>2
  <2>5. next # p /\ next # f
    BY <1>3, <2>2, <2>3, <2>4
  <2>6. next \in IndexPage /\ P[next].kind = "leaf" => P[next] = IndexLeaf(P[next].keys, P[next].prev, P[next].next)
    BY <1>0 DEF LeafFiles
  <2>7. next # 0 => next \in IndexPage /\ P[next].kind = "leaf"
    BY <2>2
  <2> QED BY <2>5, <2>6, <2>7
<1>8. /\ DOMAIN Q = IndexPage
      /\ Q[p] = IndexLeaf(left, P[p].prev, f)
      /\ Q[f] = IndexLeaf(right, p, next)
      /\ \A q \in IndexPage : q # p /\ q # f => Q[q] = IF q = next THEN [P[q] EXCEPT !.prev = f] ELSE P[q]
  <2> HIDE DEF f, next
  <2>1. DOMAIN Q = IndexPage
    BY DEF IndexLinked
  <2>2. Q[p] = IndexLeaf(left, P[p].prev, f)
    BY <1>2, <1>7 DEF IndexLinked, next
  <2>3. Q[f] = IndexLeaf(right, p, next)
    BY <1>1, <1>2, <1>7 DEF IndexLinked, next
  <2>4. ASSUME NEW q \in IndexPage, q # p, q # f PROVE Q[q] = IF q = next THEN [P[q] EXCEPT !.prev = f] ELSE P[q]
    BY <2>4 DEF IndexLinked, next
  <2> HIDE DEF Q
  <2> QED BY <2>1, <2>2, <2>3, <2>4
<1> HIDE DEF Q, next
<1>9. next # 0 => Q[next] = IndexLeaf(P[next].keys, f, P[next].next)
  <2> SUFFICES ASSUME next # 0 PROVE Q[next] = IndexLeaf(P[next].keys, f, P[next].next)
    OBVIOUS
  <2>1. next \in IndexPage /\ next # p /\ next # f /\ P[next] = IndexLeaf(P[next].keys, P[next].prev, P[next].next)
    BY <1>7
  <2>2. Q[next] = [P[next] EXCEPT !.prev = f]
    BY <1>8, <2>1
  <2> DEFINE v == P[next]
  <2>3. v = IndexLeaf(v.keys, v.prev, v.next)
    BY <2>1
  <2> HIDE DEF v
  <2>4. [v EXCEPT !.prev = f] = IndexLeaf(v.keys, f, v.next)
    BY <2>3, IndexLeafPrevSet
  <2> QED BY <2>2, <2>4 DEF v
<1>10. \A q \in IndexPage : q # p /\ q # f /\ q # next => Q[q] = P[q]
  BY <1>8
<1>11. next # 0 => /\ Q[next].kind = "leaf" /\ Q[next].keys = P[next].keys
                   /\ Q[next].next = P[next].next /\ Q[next].prev = f
  BY <1>9, IndexLeafIs
<1>12. /\ Q[p].kind = "leaf" /\ Q[p].keys = left /\ Q[p].prev = P[p].prev /\ Q[p].next = f
       /\ Q[f].kind = "leaf" /\ Q[f].keys = right /\ Q[f].prev = p /\ Q[f].next = next
  BY <1>8, IndexLeafIs
<1>13. \A q \in IndexPage : q = next => q # 0
  BY <1>1
<1>14. \A q \in IndexPage : P[q].kind = "branch" => Q[q] = P[q]
  <2> TAKE q \in IndexPage
  <2> SUFFICES ASSUME P[q].kind = "branch" PROVE Q[q] = P[q]
    OBVIOUS
  <2>1. q # p /\ q # f /\ q # next
    BY <1>2, <1>3, <1>7, <1>13
  <2> QED BY <1>10, <2>1
<1>15. Pending(u, t2, g2, p, up)
  <2>1. /\ t2 = [pages |-> t2.pages, free |-> t.free + 1, root |-> t.root] /\ DOMAIN t2.pages = 1 .. u.n
    BY <1>1, <1>4, <1>8
  <2>2. /\ t2.pages[p].kind = "leaf" /\ t2.pages[p].prev = t.pages[p].prev /\ t2.pages[p].next = t.free
        /\ t2.pages[t.free].kind = "leaf" /\ t2.pages[t.free].prev = p
        /\ t2.pages[t.free].next = t.pages[p].next
    BY <1>4, <1>12 DEF next
  <2>3. \A q \in 1 .. u.n : q # p /\ q # t.free =>
           IF q = t.pages[p].next
           THEN t2.pages[q].kind = t.pages[q].kind /\ t2.pages[q].next = t.pages[q].next /\ t2.pages[q].prev = t.free
           ELSE t2.pages[q] = t.pages[q]
    <3> TAKE q \in 1 .. u.n
    <3> SUFFICES ASSUME q # p, q # t.free
                 PROVE  IF q = next
                        THEN Q[q].kind = P[q].kind /\ Q[q].next = P[q].next /\ Q[q].prev = f
                        ELSE Q[q] = P[q]
      BY <1>4 DEF next
    <3>1. q \in IndexPage
      BY <1>1
    <3>2. CASE q = next
      BY <1>7, <1>11, <1>13, <3>1, <3>2
    <3>3. CASE q # next
      BY <1>10, <3>1, <3>3
    <3> QED BY <3>2, <3>3
  <2>4. /\ up.key \in u.keys /\ up.page = t.free /\ g.lo[p] < u.rank[up.key]
        /\ u.rank[up.key] < g.hi[p] /\ t.free <= u.n /\ p \in 1 .. u.n
    BY <1>1, <1>2, <1>4, <1>5
  <2>5. Pending(u, t2, Halved(u, g, p, t.free, u.rank[up.key]), p, up)
    BY <1>0, <1>1, <1>2, <2>1, <2>2, <2>3, <2>4, LeafSplits
  <2> QED BY <2>5
<1> HIDE DEF z
<1>16. /\ g2.lo[p] = g.lo[p] /\ g2.hi[p] = z /\ g2.lo[f] = z /\ g2.hi[f] = g.hi[p]
       /\ \A q \in IndexPage : q # p /\ q # f => g2.lo[q] = g.lo[q] /\ g2.hi[q] = g.hi[q]
  BY <1>1, <1>2 DEF Halved
<1> HIDE DEF g2
<1>19. Files(u, Q, g2, K2)
  <2>1. ASSUME NEW q \in IndexPage, Q[q].kind = "leaf" PROVE LeafFiles(u, Q[q], g2.lo[q], g2.hi[q], K2)
    <3>1. CASE q = p
      <4>1. Q[p] = IndexLeaf(Q[p].keys, Q[p].prev, Q[p].next)
        BY <1>8, <1>12
      <4> QED BY <1>5, <1>12, <1>16, <3>1, <4>1 DEF LeafFiles
    <3>2. CASE q = f
      <4>1. Q[f] = IndexLeaf(Q[f].keys, Q[f].prev, Q[f].next)
        BY <1>8, <1>12
      <4> QED BY <1>5, <1>12, <1>16, <3>2, <4>1 DEF LeafFiles
    <3>3. CASE q # p /\ q # f
      <4>1. P[q].kind = "leaf" /\ Q[q].keys = P[q].keys
        BY <1>7, <1>10, <1>11, <1>13, <2>1, <3>3
      <4>2. LeafFiles(u, P[q], g.lo[q], g.hi[q], K)
        BY <1>0, <4>1
      <4>3. Q[q] = IndexLeaf(Q[q].keys, Q[q].prev, Q[q].next)
        <5>1. CASE q = next
          BY <1>9, <1>11, <1>13, <5>1
        <5>2. CASE q # next
          BY <1>10, <3>3, <4>2, <5>2 DEF LeafFiles
        <5> QED BY <5>1, <5>2
      <4>4. Shelf(u, K2, g.lo[q], g.hi[q]) = Shelf(u, K, g.lo[q], g.hi[q])
        <5>1. SameShelves(u, t, g, K, K2, p)
          BY OtherShelves
        <5> QED BY <3>3, <4>1, <5>1 DEF SameShelves
      <4>5. Lists(Q[q].keys, Shelf(u, K2, g.lo[q], g.hi[q]), u.rank) /\ Len(Q[q].keys) <= IndexCap
        BY <4>1, <4>2, <4>4 DEF LeafFiles
      <4> QED BY <1>16, <3>3, <4>3, <4>5 DEF LeafFiles
    <3> QED BY <3>1, <3>2, <3>3
  <2> QED BY <2>1 DEF Files
<1> QED BY <1>4, <1>14, <1>15, <1>19

\* Branch splits leave the leaves alone.
LEMMA GrewFiles ==
    ASSUME NEW u, u.n = IndexPages, NEW t1, NEW g1, NEW K, Files(u, t1.pages, g1, K), NEW t2, NEW g2, Grew(u, t1, g1, t2, g2)
    PROVE  Files(u, t2.pages, g2, K)
<1> DEFINE P == t1.pages
           Q == t2.pages
<1>1. IndexPage = 1 .. u.n
  BY IndexIs
<1>2. /\ Plain(u, Q) = Plain(u, P)
      /\ \A x \in Plain(u, P) : Q[x] = P[x] /\ g2.lo[x] = g1.lo[x] /\ g2.hi[x] = g1.hi[x]
  BY DEF Grew
<1>3. ASSUME NEW q \in IndexPage, Q[q].kind = "leaf" PROVE LeafFiles(u, Q[q], g2.lo[q], g2.hi[q], K)
  <2>1. q \in Plain(u, P)
    BY <1>1, <1>2, <1>3 DEF Plain
  <2>2. Q[q] = P[q] /\ g2.lo[q] = g1.lo[q] /\ g2.hi[q] = g1.hi[q]
    BY <1>2, <2>1
  <2>3. LeafFiles(u, P[q], g1.lo[q], g1.hi[q], K)
    BY <1>3, <2>2 DEF Files
  <2> QED BY <2>2, <2>3
<1> QED BY <1>3 DEF Files

\* What insert_into_leaf on page p leaves behind.
IndexLeafDone(u, t, r, p, K) ==
    /\ IsTree(r.t) /\ r.t.root = t.root /\ t.free <= r.t.free
    /\ r.t.free <= IndexPages + 1 =>
          /\ \A q \in IndexPage : t.pages[q].kind = "branch" => r.t.pages[q] = t.pages[q]
          /\ \/ r.up = <<>> /\ \E g : Filed(u, r.t, g, K)
             \/ r.up # <<>> /\ \E g : Pending(u, r.t, g, p, r.up[1]) /\ Files(u, r.t.pages, g, K)

LEMMA IntoIndexLeafIs ==
    ASSUME NEW u, NEW t, NEW g, NEW K, Filed(u, t, g, K), NEW k \in u.keys, k \notin K,
           NEW p, IndexLeafAt(t, g, p, u.rank[k])
    PROVE  IndexLeafDone(u, t, IntoIndexLeaf(t, p, k), p, K \cup {k})
<1> DEFINE K2 == K \cup {k}
           old == t.pages[p].keys
           at == FirstOf(Len(old), {i \in DOMAIN old : ~Before(old[i], k)})
           all == InsertAt(old, at, k)
           mid == Len(all) \div 2
           left == SubSeq(all, 1, mid)
           right == SubSeq(all, mid + 1, Len(all))
           S == Shelf(u, K, g.lo[p], g.hi[p])
           Q == IndexLinked(t.pages, p, t.free, left, right)
           up == [key |-> right[1], page |-> t.free]
           r == IntoIndexLeaf(t, p, k)
<1>0. IsKeySpace(u) /\ K \in SUBSET u.keys /\ Whole(u, t, g) /\ ButFor(u, K, K2, k)
  BY DEF Filed, ButFor
<1>1. /\ t = [pages |-> t.pages, free |-> t.free, root |-> t.root] /\ t.free \in Nat
      /\ p \in IndexPage /\ t.pages[p].kind = "leaf" /\ DOMAIN t.pages = IndexPage
      /\ g.lo[p] <= u.rank[k] /\ u.rank[k] < g.hi[p]
  BY <1>0, IndexTreeIs DEF IndexLeafAt, Reaches
<1>2. Lists(old, S, u.rank) /\ Len(old) <= IndexCap
  BY <1>1 DEF Filed, Files, LeafFiles
<1>3. /\ old \in Seq(S) /\ DOMAIN old = 1 .. Len(old) /\ Len(old) \in Nat /\ \A i \in 1 .. Len(old) : old[i] \in S
  BY <1>2, SeqIsFunction, SMTT(30) DEF Lists
<1>4. S \subseteq u.keys /\ k \notin S /\ S \cup {k} = Shelf(u, K2, g.lo[p], g.hi[p])
  BY <1>0, <1>1 DEF Shelf
<1>5. {i \in DOMAIN old : ~Before(old[i], k)} = {i \in 1 .. Len(old) : ~(u.rank[old[i]] < u.rank[k])}
  <2>1. \A i \in 1 .. Len(old) : Before(old[i], k) <=> u.rank[old[i]] < u.rank[k]
    BY <1>0, <1>3, <1>4 DEF IsKeySpace
  <2> HIDE DEF old
  <2> QED BY <1>3, <2>1
<1>6. Lists(all, S \cup {k}, u.rank) /\ Len(all) = Len(old) + 1
  <2>1. Ranked(S \cup {k}, u.rank) /\ \A x \in S : u.rank[x] # u.rank[k]
    <3>1. \A x \in u.keys : u.rank[x] \in Int
      BY <1>0, FacingIs
    <3>2. \A x \in u.keys : u.rank[x] = u.rank[k] => x = k
      BY <1>0 DEF IsKeySpace
    <3> QED BY <1>4, <3>1, <3>2 DEF Ranked
  <2>2. at = FirstOf(Len(old), {i \in 1 .. Len(old) : ~(u.rank[old[i]] < u.rank[k])})
    BY <1>5
  <2> HIDE DEF at, old, S
  <2> QED BY <1>2, <2>1, <2>2, ListsInsert, SMTT(30)
<1>7. /\ Len(all) <= IndexCap => r = [t |-> [t EXCEPT !.pages[p].keys = all], up |-> <<>>]
      /\ ~(Len(all) <= IndexCap) => r = [t |-> [t EXCEPT !.pages = Q, !.free = t.free + 1], up |-> <<up>>]
  BY DEF IntoIndexLeaf, IndexLinked, Separator
<1> HIDE DEF r, all, at, old, S
<1>8. CASE Len(all) <= IndexCap
  <2> DEFINE t2 == KeysSet(t, p, all)
  <2>1. r.t = t2 /\ r.up = <<>>
    BY <1>7, <1>8 DEF KeysSet
  <2>2. Filed(u, t2, g, K2) /\ t2.free = t.free
    <3> HIDE DEF t2, K2
    <3>1. Lists(all, Shelf(u, K2, g.lo[p], g.hi[p]), u.rank)
      BY <1>4, <1>6
    <3> QED BY <1>0, <1>8, <3>1, IndexLeafWritten DEF t2
  <2>3. IsTree(t2) /\ t2.root = t.root /\ t2.pages = [t.pages EXCEPT ![p] = [t.pages[p] EXCEPT !.keys = all]]
    BY <1>1 DEF KeysSet, IsTree
  <2>4. \A q \in IndexPage : t.pages[q].kind = "branch" => t2.pages[q] = t.pages[q]
    <3> HIDE DEF t2
    <3> QED BY <1>1, <2>3
  <2> HIDE DEF t2, K2
  <2>5. IndexLeafDone(u, t, r, p, K2)
    BY <1>1, <2>1, <2>2, <2>3, <2>4 DEF IndexLeafDone
  <2> QED BY <2>5 DEF r, K2
<1>9. CASE ~(Len(all) <= IndexCap)
  <2> DEFINE t2 == [pages |-> Q, free |-> t.free + 1, root |-> t.root]
  <2>1. r.t = [t EXCEPT !.pages = Q, !.free = t.free + 1] /\ r.up = <<up>>
    <3> HIDE DEF Q, up
    <3> QED BY <1>7, <1>9
  <2>2. r.t = t2
    <3> HIDE DEF Q
    <3> QED BY <1>1, <2>1
  <2>3. IsTree(t2) /\ t2.free = t.free + 1 /\ t2.root = t.root
    BY <1>1 DEF IsTree
  <2>4. Cuttable(all, mid)
    <3> DEFINE n == Len(all)
    <3>1. n = Len(old) + 1 /\ Len(old) \in Nat /\ Len(old) <= IndexCap /\ ~(n <= IndexCap) /\ IndexCap \in Nat \ {0}
      BY <1>2, <1>3, <1>6, <1>9, IndexIs
    <3> HIDE DEF n
    <3>2. n = IndexCap + 1
      BY <3>1
    <3>3. n \div 2 \in 1 .. n - 1 /\ n \div 2 <= IndexCap /\ n - (n \div 2) <= IndexCap
      BY <3>1, <3>2
    <3> QED BY <3>3 DEF Cuttable, n
  <2>5. right[1] = all[mid + 1]
    <3>1. all \in Seq(S \cup {k}) /\ Len(all) \in Nat
      BY <1>6, SeqIsFunction DEF Lists
    <3>2. mid \in 1 .. Len(all) - 1
      BY <2>4 DEF Cuttable
    <3> HIDE DEF mid
    <3>3. Len(all) \in Nat /\ mid + 1 \in Nat /\ 1 <= mid + 1 /\ mid + 1 <= Len(all) + 1 /\ Len(all) <= Len(all)
          /\ 1 \in 1 .. Len(all) - (mid + 1) + 1 /\ mid + 1 + 1 - 1 = mid + 1
      BY <3>1, <3>2
    <3>4. \A i \in 1 .. Len(all) - (mid + 1) + 1 : right[i] = all[mid + 1 + i - 1]
      BY <3>1, <3>3, PartIs
    <3> QED BY <3>3, <3>4
  <2> HIDE DEF mid
  <2>6. IndexCutInto(t, p, all, mid, t2, up)
    BY <2>5 DEF IndexCutInto
  <2>7. r.up # <<>> /\ r.up[1] = up
    <3> HIDE DEF up
    <3> QED BY <2>1
  <2> HIDE DEF t2, up, K2
  <2>8. ASSUME t2.free <= IndexPages + 1
        PROVE  /\ \E g2 : Pending(u, t2, g2, p, up) /\ Files(u, t2.pages, g2, K2)
               /\ \A q \in IndexPage : t.pages[q].kind = "branch" => t2.pages[q] = t.pages[q]
    <3>1. t.free <= IndexPages
      BY <1>1, <2>3, <2>8, IndexIs
    <3>2. Lists(all, Shelf(u, K2, g.lo[p], g.hi[p]), u.rank)
      BY <1>4, <1>6
    <3> QED BY <1>0, <2>4, <2>6, <3>1, <3>2, IndexLeafCut
  <2>9. t.free <= t2.free
    BY <1>1, <2>3
  <2>10. IndexLeafDone(u, t, r, p, K2)
    BY <2>2, <2>3, <2>7, <2>8, <2>9 DEF IndexLeafDone
  <2> QED BY <2>10 DEF r, K2
<1> QED BY <1>8, <1>9

\* IndexTreeWriter::insert of a key that is not in the tree: the tree has its
\* key, or has run out of page numbers.
LEMMA IndexInsertIs ==
    ASSUME NEW u, NEW t, NEW g, NEW K, Filed(u, t, g, K), NEW k \in u.keys, k \notin K
    PROVE  /\ IsTree(IndexInsert(t, k)) /\ t.free <= IndexInsert(t, k).free
           /\ IndexInsert(t, k).free <= IndexPages + 1 => \E g2 : Filed(u, IndexInsert(t, k), g2, K \cup {k})
<1> DEFINE path == IndexPath(t, k)
           p == Last(path)
           leaf == IntoIndexLeaf(t, p, k)
           slot == IndexSlots(t, path, k)
           grown == Grown(leaf, path, slot, IndexKeys)
           K2 == K \cup {k}
<1>0. IsKeySpace(u) /\ K \in SUBSET u.keys /\ Whole(u, t, g) /\ K2 \in SUBSET u.keys
  BY DEF Filed
<1>1. IsTree(t) /\ t.free \in Nat
  BY <1>0, IndexTreeIs DEF IsTree
<1>2. /\ Route(u, t, path, slot) /\ IndexLeafAt(t, g, p, u.rank[k]) /\ p = path[Len(path)]
  <2>1. Route(u, t, path, slot) /\ IndexLeafAt(t, g, FindLeafForKey(t, k), u.rank[k])
    BY <1>0, IndexPathIs
  <2>2. p = FindLeafForKey(t, k) /\ p = path[Len(path)]
    BY DEF FindLeafForKey, Last
  <2> QED BY <2>1, <2>2
<1>3. IndexInsert(t, k) = grown
  BY DEF IndexInsert, IndexSlots
<1> HIDE DEF path
<1>4. IndexLeafDone(u, t, leaf, p, K2)
  <2> HIDE DEF p
  <2> QED BY <1>2, IntoIndexLeafIs
<1> HIDE DEF leaf, slot, p, K2
<1>5. IsTree(leaf.t) /\ leaf.t.root = t.root /\ t.free <= leaf.t.free /\ leaf.t.free \in Nat
  BY <1>4 DEF IndexLeafDone, IsTree
<1>6. Len(path) \in Nat \ {0}
  BY <1>2 DEF Route
<1>7. IsTree(grown) /\ leaf.t.free <= grown.free /\ grown.free \in Nat
  <2>1. IsTree(grown) /\ leaf.t.free <= grown.free
    BY <1>5, <1>6, GrownGrows
  <2> HIDE DEF grown
  <2> QED BY <2>1 DEF IsTree
<1>8. ASSUME grown.free <= IndexPages + 1 PROVE \E g2 : Filed(u, grown, g2, K2)
  <2>1. leaf.t.free <= IndexPages + 1
    <3> HIDE DEF grown
    <3> QED BY <1>5, <1>7, <1>8, IndexIs
  <2>2. /\ \A q \in IndexPage : t.pages[q].kind = "branch" => leaf.t.pages[q] = t.pages[q]
        /\ \/ leaf.up = <<>> /\ \E g2 : Filed(u, leaf.t, g2, K2)
           \/ leaf.up # <<>> /\ \E g2 : Pending(u, leaf.t, g2, p, leaf.up[1]) /\ Files(u, leaf.t.pages, g2, K2)
    BY <1>4, <2>1 DEF IndexLeafDone
  <2>3. CASE leaf.up = <<>> /\ \E g2 : Filed(u, leaf.t, g2, K2)
    <3>1. grown = leaf.t
      BY <1>5, <1>6, <2>3, GrownPlain
    <3> QED BY <2>3, <3>1
  <2>4. CASE leaf.up # <<>> /\ \E g2 : Pending(u, leaf.t, g2, p, leaf.up[1]) /\ Files(u, leaf.t.pages, g2, K2)
    <3>1. PICK g1 : Pending(u, leaf.t, g1, p, leaf.up[1]) /\ Files(u, leaf.t.pages, g1, K2)
      BY <2>4
    <3>2. IsSpace(u) /\ u.n = IndexPages /\ IndexPage = 1 .. u.n
      BY <1>0, IndexTreeIs
    <3>3. Route(u, leaf.t, path, slot)
      <4>1. /\ path \in Seq(IndexPage) /\ path[1] = t.root
            /\ \A i, j \in 1 .. Len(path) : path[i] = path[j] => i = j
            /\ \A i \in 1 .. Len(path) - 1 : ChildAt(t.pages, path[i], slot[i], path[i + 1])
        BY <1>2, <3>2 DEF Route
      <4>2. ASSUME NEW i \in 1 .. Len(path) - 1 PROVE ChildAt(leaf.t.pages, path[i], slot[i], path[i + 1])
        <5>1. path[i] \in IndexPage
          <6>1. i \in 1 .. Len(path)
            BY <1>6
          <6> QED BY <4>1, <6>1, SeqIsFunction
        <5>2. ChildAt(t.pages, path[i], slot[i], path[i + 1])
          BY <4>1
        <5> QED BY <2>2, <5>1, <5>2 DEF ChildAt
      <4> QED BY <1>5, <1>6, <3>2, <4>1, <4>2 DEF Route
    <3>4. Pending(u, leaf.t, g1, path[Len(path)], leaf.up[1])
      BY <1>2, <3>1
    <3>5. IndexKeys \in Nat \ {0} /\ grown.free <= u.n + 1
      BY <1>8, <3>2, IndexIs
    <3>6. \E g2 : Whole(u, grown, g2) /\ Grew(u, leaf.t, g1, grown, g2)
      BY <2>4, <3>2, <3>3, <3>4, <3>5, GrownSplit
    <3>7. PICK g2 : Whole(u, grown, g2) /\ Grew(u, leaf.t, g1, grown, g2)
      BY <3>6
    <3> HIDE DEF grown
    <3>8. Files(u, grown.pages, g2, K2)
      BY <3>1, <3>2, <3>7, GrewFiles
    <3>9. Filed(u, grown, g2, K2)
      BY <1>0, <3>7, <3>8 DEF Filed
    <3> QED BY <3>9
  <2> QED BY <2>2, <2>3, <2>4
<1> HIDE DEF grown
<1>9. t.free <= grown.free
  BY <1>1, <1>5, <1>7
<1> QED BY <1>3, <1>7, <1>8, <1>9 DEF K2
-----------------------------------------------------------------------------
(* The space of finitely many keys, and the tree that create leaves. *)

Under(keys, k) == {j \in keys : Before(j, k)}
KeySpace(keys) ==
    [n |-> IndexPages, top |-> Cardinality(keys) + 1, keys |-> keys,
     rank |-> [k \in keys |-> Cardinality(Under(keys, k))]]

LEMMA BeforeIs ==
    ASSUME NEW a \in Nat \X Nat, NEW b \in Nat \X Nat
    PROVE  /\ Before(a, b) \/ a = b \/ Before(b, a)
           /\ ~(Before(a, b) /\ Before(b, a)) /\ ~Before(a, a)
           /\ \A c \in Nat \X Nat : Before(a, b) /\ Before(b, c) => Before(a, c)
<1>1. a = <<a[1], a[2]>> /\ b = <<b[1], b[2]>> /\ a[1] \in Nat /\ a[2] \in Nat /\ b[1] \in Nat /\ b[2] \in Nat
  OBVIOUS
<1>2. (a[1] = b[1] /\ a[2] = b[2]) => a = b
  BY <1>1
<1>3. Before(a, b) \/ a = b \/ Before(b, a)
  BY <1>1, <1>2 DEF Before
<1>4. ~(Before(a, b) /\ Before(b, a)) /\ ~Before(a, a)
  BY <1>1 DEF Before
<1>5. ASSUME NEW c \in Nat \X Nat, Before(a, b), Before(b, c) PROVE Before(a, c)
  <2>1. c[1] \in Nat /\ c[2] \in Nat
    OBVIOUS
  <2> QED BY <1>1, <1>5, <2>1 DEF Before
<1> QED BY <1>3, <1>4, <1>5

LEMMA KeySpaceIs ==
    ASSUME NEW keys, keys \subseteq Nat \X Nat, IsFiniteSet(keys)
    PROVE  IsKeySpace(KeySpace(keys)) /\ KeySpace(keys).keys = keys
<1> DEFINE u == KeySpace(keys)
           c == Cardinality(keys)
<1>1. /\ u.n = IndexPages /\ u.top = c + 1 /\ u.keys = keys
      /\ \A k \in keys : u.rank[k] = Cardinality(Under(keys, k))
  BY DEF KeySpace
<1>2. c \in Nat
  BY FS_CardinalityType
<1> HIDE DEF u, c
<1>3. ASSUME NEW k \in keys
      PROVE  /\ Under(keys, k) \in SUBSET keys /\ IsFiniteSet(Under(keys, k))
             /\ u.rank[k] \in Nat /\ u.rank[k] <= c
  <2>1. Under(keys, k) \in SUBSET keys
    BY DEF Under
  <2>2. IsFiniteSet(Under(keys, k)) /\ Cardinality(Under(keys, k)) <= Cardinality(keys)
    BY <2>1, FS_Subset
  <2>3. Cardinality(Under(keys, k)) \in Nat
    BY <2>2, FS_CardinalityType
  <2> QED BY <1>1, <2>1, <2>2, <2>3 DEF c
<1>4. ASSUME NEW a \in keys, NEW b \in keys, Before(a, b) PROVE u.rank[a] < u.rank[b]
  <2>1. Under(keys, a) \in SUBSET Under(keys, b)
    <3> SUFFICES ASSUME NEW x \in keys, Before(x, a) PROVE Before(x, b)
      BY DEF Under
    <3>1. x \in Nat \X Nat /\ a \in Nat \X Nat /\ b \in Nat \X Nat
      OBVIOUS
    <3> QED BY <1>4, <3>1, BeforeIs
  <2>2. Under(keys, a) # Under(keys, b)
    <3>1. ~Before(a, a)
      BY BeforeIs
    <3> QED BY <1>4, <3>1 DEF Under
  <2>3. IsFiniteSet(Under(keys, b))
    BY <1>3
  <2>4. /\ Cardinality(Under(keys, a)) <= Cardinality(Under(keys, b))
        /\ Cardinality(Under(keys, b)) # Cardinality(Under(keys, a))
    BY <2>1, <2>2, <2>3, FS_Subset
  <2> QED BY <1>1, <1>3, <2>4
<1>5. ASSUME NEW a \in keys, NEW b \in keys
      PROVE  (Before(a, b) <=> u.rank[a] < u.rank[b]) /\ (u.rank[a] = u.rank[b] => a = b)
  <2>1. a \in Nat \X Nat /\ b \in Nat \X Nat /\ u.rank[a] \in Nat /\ u.rank[b] \in Nat
    BY <1>3
  <2>2. Before(a, b) \/ a = b \/ Before(b, a)
    BY <2>1, BeforeIs
  <2>3. CASE Before(a, b)
    <3>1. u.rank[a] < u.rank[b]
      BY <1>4, <2>3
    <3> QED BY <2>1, <2>3, <3>1
  <2>4. CASE a = b
    <3>1. ~Before(a, b)
      BY <2>1, <2>4, BeforeIs
    <3> QED BY <2>1, <2>4, <3>1
  <2>5. CASE Before(b, a)
    <3>1. u.rank[b] < u.rank[a] /\ ~Before(a, b)
      BY <1>4, <2>1, <2>5, BeforeIs
    <3> QED BY <2>1, <3>1
  <2> QED BY <2>2, <2>3, <2>4, <2>5
<1>6. IsSpace(u)
  <2>1. u.n \in Nat /\ u.top \in Nat \ {0}
    BY <1>1, <1>2, IndexIs
  <2>2. \A k \in u.keys : u.rank[k] \in 0 .. u.top - 1
    BY <1>1, <1>2, <1>3
  <2> QED BY <2>1, <2>2 DEF IsSpace
<1>7. IsKeySpace(u)
  BY <1>1, <1>5, <1>6 DEF IsKeySpace
<1> QED BY <1>1, <1>7 DEF u

\* IndexTreeWriter::create.
LEMMA NewIndexIs ==
    ASSUME NEW u, IsKeySpace(u)
    PROVE  \E g : Filed(u, NewIndex, g, {})
<1> DEFINE N == IndexPages
           g == [lo |-> [p \in 1 .. N |-> 0],
                 hi |-> [p \in 1 .. N |-> u.top],
                 lv |-> [p \in 1 .. N |-> 0]]
           t == NewIndex
           P == t.pages
           new == IndexLeaf(<<>>, 0, 0)
<1>1. /\ t = [pages |-> t.pages, free |-> t.free, root |-> t.root]
      /\ t.free = 2 /\ t.root = 1 /\ P = [p \in IndexPage |-> IF p = 1 THEN new ELSE Unused]
  BY DEF NewIndex
<1>2. /\ IndexPage = 1 .. N /\ N \in Nat \ {0} /\ u.n = N /\ IsSpace(u) /\ u.top \in Nat \ {0}
  BY IndexIs DEF IsKeySpace, IsSpace
<1>3. /\ g.lo = [p \in 1 .. N |-> 0] /\ g.hi = [p \in 1 .. N |-> u.top] /\ g.lv = [p \in 1 .. N |-> 0]
  OBVIOUS
<1> HIDE DEF t, g, N, new
<1>4. /\ \A p \in 1 .. N : P[p] = IF p = 1 THEN new ELSE Unused
      /\ DOMAIN P = 1 .. N /\ 1 \in 1 .. N
  BY <1>1, <1>2
<1>5. /\ new.kind = "leaf" /\ new.keys = <<>> /\ new.prev = 0 /\ new.next = 0
      /\ Unused.kind = "unused"
  BY DEF IndexLeaf, Unused, new
<1>6. /\ P[1] = new /\ P[1].kind = "leaf" /\ P[1].keys = <<>> /\ P[1].prev = 0 /\ P[1].next = 0
      /\ \A p \in 1 .. N : p # 1 => P[p] = Unused /\ P[p].kind = "unused"
  BY <1>4, <1>5
<1>7. /\ \A p \in 1 .. N : g.lo[p] = 0 /\ g.hi[p] = u.top /\ g.lv[p] = 0
      /\ InTree(P) = {1}
  <2>1. \A p \in 1 .. N : g.lo[p] = 0 /\ g.hi[p] = u.top /\ g.lv[p] = 0
    BY <1>3
  <2>2. InTree(P) = {1}
    BY <1>4, <1>6 DEF InTree
  <2> QED BY <2>1, <2>2
<1>8. IsCover(u, g)
  <2>1. \A p \in 1 .. N : g.lo[p] \in Nat /\ g.hi[p] \in Nat /\ g.lv[p] \in Nat
    BY <1>2, <1>7
  <2> QED BY <1>2, <1>3, <2>1 DEF IsCover
<1>9. Frame(u, t, g)
  <2>1. DOMAIN P = 1 .. u.n /\ t.free \in 2 .. u.n + 1
    BY <1>1, <1>2, <1>4
  <2>2. ASSUME NEW p \in 1 .. N
        PROVE  (P[p] = Unused <=> p >= t.free) /\ (P[p].kind = "unused" <=> p >= t.free)
    <3>1. CASE p = 1
      <4>1. P[p] # Unused /\ P[p].kind # "unused" /\ ~(p >= t.free)
        BY <1>1, <1>5, <1>6, <3>1
      <4> QED BY <4>1
    <3>2. CASE p # 1
      <4>1. P[p] = Unused /\ P[p].kind = "unused"
        BY <1>6, <3>2
      <4>2. p >= 2 /\ t.free = 2
        BY <1>1, <1>2, <3>2
      <4> QED BY <4>1, <4>2
    <3> QED BY <3>1, <3>2
  <2>3. t.root \in InTree(P) /\ g.lo[t.root] = 0 /\ g.lv[t.root] + 2 <= t.free
    BY <1>1, <1>4, <1>7
  <2>4. \A p \in InTree(P) : /\ g.lo[p] < g.hi[p] /\ g.hi[p] <= u.top
                             /\ g.lv[p] <= g.lv[t.root]
                             /\ g.lv[p] = 0 <=> P[p].kind = "leaf"
    BY <1>1, <1>2, <1>4, <1>6, <1>7
  <2>5. \A p, q \in InTree(P) : p = q
    BY <1>7
  <2> QED BY <1>1, <1>2, <1>8, <2>1, <2>2, <2>3, <2>4, <2>5 DEF Frame
<1>10. Linked(u, t, g)
  <2>1. \A p \in 1 .. N : P[p].kind = "leaf" => p = 1
    BY <1>5, <1>6
  <2>2. g.hi[1] = u.top /\ g.lo[1] = 0
    BY <1>4, <1>7
  <2> QED BY <1>2, <1>6, <2>1, <2>2 DEF Linked
<1>11. Nodes(u, t, g, g.hi)
  <2>1. \A p \in 1 .. N : P[p].kind # "branch"
    BY <1>6
  <2> QED BY <1>2, <2>1 DEF Nodes
<1>12. Whole(u, t, g)
  <2>1. g.hi[t.root] = u.top
    BY <1>1, <1>4, <1>7
  <2> QED BY <1>9, <1>10, <1>11, <2>1 DEF Whole, Standing
<1>13. Files(u, P, g, {})
  <2>1. LeafFiles(u, P[1], g.lo[1], g.hi[1], {})
    <3>1. <<>> \in Seq({}) /\ Len(<<>>) = 0 /\ Rising(<<>>, u.rank)
      BY DEF Rising
    <3>2. Lists(<<>>, Shelf(u, {}, g.lo[1], g.hi[1]), u.rank)
      BY <3>1 DEF Lists, Shelf
    <3>3. P[1] = IndexLeaf(P[1].keys, P[1].prev, P[1].next)
      BY <1>6 DEF new
    <3>4. Len(<<>>) <= IndexCap
      BY <3>1, IndexIs
    <3> QED BY <1>6, <3>2, <3>3, <3>4 DEF LeafFiles
  <2>2. \A p \in IndexPage : P[p].kind = "leaf" => p = 1
    BY <1>2, <1>5, <1>6
  <2> QED BY <2>1, <2>2 DEF Files
<1>14. Filed(u, t, g, {})
  BY <1>12, <1>13 DEF Filed
<1> QED BY <1>14 DEF t

=============================================================================
