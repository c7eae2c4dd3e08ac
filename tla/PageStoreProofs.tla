---------------------------- MODULE PageStoreProofs ----------------------------
(***************************************************************************)
(* Proofs about PageStore, for every number of threads, readers, tables,   *)
(* pages, commits and crashes, every durability and with or without power  *)
(* loss.                                                                   *)
(***************************************************************************)
EXTENDS PageStore, WellFoundedInduction, FiniteSetTheorems, SequenceTheorems, TLAPS

\* The page count derived from a file is within the bound.
LEMMA PagesOfBound ==
    ASSUME NEW f \in [Page -> Nat]
    PROVE  /\ PagesOf(f) \in 0 .. MaxPages
           /\ \A p \in Page : f[p] # 0 => p < PagesOf(f)
<1>1. MaxPages \in FileEnds(f)
  BY BoundsAssumption DEF FileEnds, Page
<1>2. \E n \in FileEnds(f) : \A m \in FileEnds(f) : n <= m
  <2>1. FileEnds(f) \subseteq Nat /\ FileEnds(f) # {}
    BY <1>1, BoundsAssumption DEF FileEnds
  <2> DEFINE R == OpToRel(<, Nat)
  <2>2. \E n \in FileEnds(f) : \A m \in FileEnds(f) : ~(<<m, n>> \in R)
    BY <2>1, NatLessThanWellFounded, WFMin
  <2>3. \A m, n \in Nat : m < n => <<m, n>> \in R
    BY DEF OpToRel
  <2>4. PICK n \in FileEnds(f) : \A m \in FileEnds(f) : ~(<<m, n>> \in R)
    BY <2>2
  <2> HIDE DEF R
  <2>5. \A m \in FileEnds(f) : ~(m < n)
    BY <2>1, <2>3, <2>4
  <2> QED BY <2>1, <2>5
<1> QED BY <1>2 DEF PagesOf, FileEnds

\* A function on 1 .. n is a sequence.
LEMMA FunctionIsSeq ==
    ASSUME NEW S, NEW n \in Nat, NEW f \in [1 .. n -> S]
    PROVE  f \in Seq(S)
BY SeqDef, Zenon

\* Images no newer than commit c are no newer than the next commit.
LEMMA NextCommitIsNewer ==
    ASSUME NEW s \in Seq(Entry), NEW c \in Nat, \A i \in 1 .. Len(s) : s[i].img <= c
    PROVE  \A i \in 1 .. Len(s) : s[i].img <= c + 1
<1> SUFFICES ASSUME NEW i \in 1 .. Len(s) PROVE s[i].img <= c + 1
  OBVIOUS
<1>1. s[i] \in Entry
  OBVIOUS
<1>2. s[i].img \in Nat
  BY <1>1 DEF Entry
<1> QED BY <1>2

\* append_page_image fills one slot of the log, at most one past its end.
LEMMA InSlotIs ==
    ASSUME NEW l \in Seq(Entry), NEW e \in Entry, NEW k \in 1 .. Len(l) + 1
    PROVE  /\ InSlot(l, k, e) \in Seq(Entry)
           /\ Len(InSlot(l, k, e)) = IF k > Len(l) THEN k ELSE Len(l)
           /\ InSlot(l, k, e)[k] = e
           /\ \A i \in 1 .. Len(l) : i # k => InSlot(l, k, e)[i] = l[i]
<1> DEFINE n == IF k > Len(l) THEN k ELSE Len(l)
<1>1. n \in Nat /\ k \in 1 .. n /\ 1 .. Len(l) \subseteq 1 .. n /\ \A i \in 1 .. n : i # k => i \in 1 .. Len(l)
  OBVIOUS
<1>2. \A i \in 1 .. Len(l) : l[i] \in Entry
  OBVIOUS
<1>3. InSlot(l, k, e) = [i \in 1 .. n |-> IF i = k THEN e ELSE l[i]]
  BY DEF InSlot
<1> HIDE DEF n
<1>4. InSlot(l, k, e) \in [1 .. n -> Entry]
  BY <1>1, <1>2, <1>3
<1>5. InSlot(l, k, e) \in Seq(Entry)
  BY <1>1, <1>4, FunctionIsSeq
<1>6. Len(InSlot(l, k, e)) = n
  BY <1>1, <1>3, <1>5
<1>7. /\ InSlot(l, k, e)[k] = e
      /\ \A i \in 1 .. Len(l) : i # k => InSlot(l, k, e)[i] = l[i]
  BY <1>1, <1>3
<1> QED BY <1>5, <1>6, <1>7 DEF n

\* After a power failure a slot of the log is half written, or holds what the
\* process wrote or what the last fsync left there.
LEMMA PlatterLog ==
    ASSUME log \in Seq(Entry), walDisk.log \in Seq(Entry), PowerFailure
    PROVE  /\ log' \in Seq(Entry) /\ walDisk'.log = log'
           /\ \A i \in 1 .. Len(log') :
                 \/ log'[i] = Torn
                 \/ i \in 1 .. Len(log) /\ log'[i] = log[i]
                 \/ i \in 1 .. Len(walDisk.log) /\ log'[i] = walDisk.log[i]
<1>1. PICK n \in {Len(log), Len(walDisk.log)} :
        \E kept \in SUBSET Unsynced(n) : \E torn \in SUBSET (Unsynced(n) \ kept) :
           log' = [i \in 1 .. n |-> IF i \in torn THEN Torn
                                    ELSE IF i \in kept THEN Slot(log, i)
                                    ELSE Slot(walDisk.log, i)]
  BY DEF PowerFailure
<1>2. PICK kept, torn : log' = [i \in 1 .. n |-> IF i \in torn THEN Torn
                                               ELSE IF i \in kept THEN Slot(log, i)
                                               ELSE Slot(walDisk.log, i)]
  BY <1>1
<1>3. n \in Nat
  BY <1>1
<1>4. /\ Torn \in Entry
      /\ \A i \in 1 .. Len(log) : log[i] \in Entry
      /\ \A i \in 1 .. Len(walDisk.log) : walDisk.log[i] \in Entry
  <2>1. Torn \in Entry
    BY RootsAssumption DEF Torn, Entry
  <2> QED BY <2>1
<1>5. \A i \in 1 .. n : /\ log'[i] \in {Torn, Slot(log, i), Slot(walDisk.log, i)}
                        /\ Slot(log, i) \in Entry /\ Slot(walDisk.log, i) \in Entry
  BY <1>2, <1>4 DEF Slot
<1>6. log' \in [1 .. n -> Entry]
  BY <1>2, <1>4, <1>5
<1>7. log' \in Seq(Entry)
  BY <1>3, <1>6, FunctionIsSeq
<1>8. Len(log') = n
  BY <1>2, <1>3, <1>7
<1>9. walDisk'.log = log'
  BY DEF PowerFailure
<1> QED BY <1>5, <1>7, <1>8, <1>9 DEF Slot

-----------------------------------------------------------------------------
(* Type correctness *)

\* What the type invariant needs to be inductive: the overlay fits in the file,
\* only an open handle has one, and appends and a replay stay inside the log.
TypeInv ==
    /\ TypeOK
    /\ numPages + newPages <= MaxPages
    /\ phase # "up" => newPages = 0
    /\ phase \in {"up", "replay"} => count <= Len(log)
    /\ phase = "replay" => cursor >= 1

\* A database as a clean shutdown left it satisfies the strengthened types.
LEMMA TypeInit == Init => TypeInv
<1> SUFFICES ASSUME Init PROVE TypeInv
  OBVIOUS
<1>1. file \in [Page -> Nat]
  BY DEF Init
<1>2. numPages \in 0 .. MaxPages
  BY <1>1, PagesOfBound DEF Init
<1>3. owner \in [Page -> Owners]
  BY DEF Init, Owners
<1>4. log \in Seq(Entry) /\ Len(log) = 0 /\ walDisk \in [log : Seq(Entry), count : Nat]
  BY DEF Init
<1>5. /\ numPages + newPages <= MaxPages
      /\ phase = "up" /\ count = 0 /\ newPages = 0
  BY <1>2, BoundsAssumption DEF Init
<1>6. /\ acked \in [Page -> Nat] /\ writes \in [Image -> SUBSET Page]
      /\ cursor \in Nat /\ commits \in Nat /\ crashes \in 0 .. MaxCrashes /\ errors \in 0 .. MaxErrors
  BY <1>1, BoundsAssumption DEF Init
<1>7. damaged \in BOOLEAN /\ acid \subseteq Threads /\ raced \in BOOLEAN
  BY DEF Init
<1>8. /\ cache \in [Page -> Nat] /\ disk \in [Page -> Nat] /\ count \in Nat
      /\ holder \in Threads \cup {Nobody} /\ dirty \subseteq Page /\ newPages \in 0 .. MaxPages
      /\ spoiled \subseteq Page /\ walHolder \in Threads \cup {Nobody}
  BY <1>1, BoundsAssumption DEF Init
<1>9. /\ lock \in [Tables -> Threads \cup {Nobody}]
      /\ pc \in [Threads -> {"idle", "locked", "open", "mutated", "published", "unlogged",
                             "logging", "logged"}]
      /\ op \in [Threads -> Owners] /\ img \in [Threads -> Nat]
      /\ todo \in [Threads -> SUBSET Page]
  BY DEF Init, Owners
<1>10. /\ rpc \in [Readers -> {"idle", "miss", "loaded"}]
      /\ rpage \in [Readers -> Page] /\ rimg \in [Readers -> Nat]
      /\ phase \in {"up", "flush", "truncate", "header", "walsync", "down", "replay", "failed"}
  BY RootsAssumption DEF Init
<1>11. TypeOK
  BY <1>1, <1>2, <1>3, <1>4, <1>6, <1>8, <1>9, <1>10, <1>7 DEF TypeOK
<1> QED BY <1>4, <1>5, <1>11 DEF TypeInv

\* Every step of a writer, a reader, a shutdown, a crash or an open keeps them:
\* allocate_page never runs past the bound, and replay never past the log.
LEMMA TypeStep == TypeInv /\ [Next]_vars => TypeInv'
<1> SUFFICES ASSUME TypeInv, [Next]_vars PROVE TypeInv'
  OBVIOUS
<1> USE BoundsAssumption, NamesAssumption, RootsAssumption
<1> USE DEF TypeInv, TypeOK, pageVars, guardVars, walVars, threadVars, readVars, lifeVars, ghostVars
<1>1. ASSUME NEW t \in Threads, NEW tb \in Tables, LockTable(t, tb) \/ CommitTransaction(t, tb)
      PROVE  TypeInv'
  <2>1. CASE LockTable(t, tb)
    <3>1. raced' \in BOOLEAN
      BY <2>1 DEF LockTable, Busied
    <3> QED BY <2>1, <3>1 DEF LockTable, Owners
  <2>2. CASE CommitTransaction(t, tb)
    <3>1. raced' \in BOOLEAN
      BY <2>2 DEF CommitTransaction, Busied
    <3>2. acid' \subseteq Threads
      BY <2>2 DEF CommitTransaction
    <3> QED BY <2>2, <3>1, <3>2 DEF CommitTransaction, Owners
  <2> QED BY <1>1, <2>1, <2>2
<1>2. ASSUME NEW t \in Threads, PersistRegistry(t) PROVE TypeInv'
  BY <1>2 DEF PersistRegistry, Owners
<1>3. ASSUME NEW t \in Threads, BeginWrite(t) PROVE TypeInv'
  BY <1>3 DEF BeginWrite
<1>4. ASSUME NEW t \in Threads, NEW S \in SUBSET Page, NEW k \in 0 .. 1, Mutate(t, S, k) PROVE TypeInv'
  <2>1. dirty' \subseteq Page
    BY <1>4 DEF Mutate, AllocatedBy
  <2>2. owner' \in [Page -> Owners]
    BY <1>4 DEF Mutate
  <2>3. newPages' \in 0 .. MaxPages /\ numPages' + newPages' <= MaxPages
    BY <1>4 DEF Mutate
  <2>4. pc' \in [Threads -> {"idle", "locked", "open", "mutated", "published", "unlogged",
                             "logging", "logged"}]
    BY <1>4 DEF Mutate
  <2> QED BY <1>4, <2>1, <2>2, <2>3, <2>4 DEF Mutate
<1>5. ASSUME NEW t \in Threads, ErrorExit(t) PROVE TypeInv'
  <2>1. lock' \in [Tables -> Threads \cup {Nobody}]
    BY <1>5 DEF ErrorExit, Unlock
  <2>2. errors' \in 0 .. MaxErrors /\ spoiled' \subseteq Page
    BY <1>5 DEF ErrorExit
  <2>3. op' \in [Threads -> Owners]
    BY <1>5 DEF ErrorExit, Owners
  <2> QED BY <1>5, <2>1, <2>2, <2>3 DEF ErrorExit
<1>6. ASSUME NEW t \in Threads, Publish(t) PROVE TypeInv'
  <2>1. cache' \in [Page -> Nat]
    BY <1>6 DEF Publish
  <2>2. writes' \in [Image -> SUBSET Page]
    BY <1>6 DEF Publish
  <2>3. img' \in [Threads -> Nat] /\ todo' \in [Threads -> SUBSET Page]
    BY <1>6 DEF Publish
  <2> QED BY <1>6, <2>1, <2>2, <2>3 DEF Publish
<1>7. ASSUME NEW t \in Threads, Release(t) PROVE TypeInv'
  BY SMTT(30), <1>7 DEF Release, Grown, Cleared
<1>8. ASSUME NEW t \in Threads, LockWal(t) PROVE TypeInv'
  BY <1>8 DEF LockWal
<1>9. ASSUME NEW t \in Threads, NEW p \in Page, AppendPageImage(t, p) PROVE TypeInv'
  <2> DEFINE e == [page |-> p, img |-> img[t]]
  <2>0. log \in Seq(Entry) /\ e \in Entry /\ count + 1 \in 1 .. Len(log) + 1 /\ log' = InSlot(log, count + 1, e)
    BY <1>9 DEF AppendPageImage, Entry
  <2> HIDE DEF e
  <2>1. log' \in Seq(Entry) /\ count + 1 <= Len(log')
    BY ONLY <2>0, InSlotIs
  <2>2. todo' \in [Threads -> SUBSET Page]
    BY <1>9 DEF AppendPageImage
  <2>3. phase' = "up"
    BY <1>9 DEF AppendPageImage
  <2>4. count' \in Nat
    BY <1>9 DEF AppendPageImage
  <2>5. newPages' = newPages /\ numPages' = numPages
    BY <1>9 DEF AppendPageImage
  <2> QED BY <1>9, <2>1, <2>2, <2>3, <2>4, <2>5 DEF AppendPageImage
<1>10. ASSUME NEW t \in Threads, FinishLog(t) PROVE TypeInv'
  BY <1>10 DEF FinishLog, Synced
<1>11. ASSUME NEW t \in Threads, Return(t) PROVE TypeInv'
  BY <1>11 DEF Return, Unlock, Owners
<1>12. ASSUME NEW r \in Readers, NEW p \in Page, ReadMiss(r, p) PROVE TypeInv'
  BY <1>12 DEF ReadMiss
<1>13. ASSUME NEW r \in Readers, ReadFromDisk(r) PROVE TypeInv'
  BY <1>13 DEF ReadFromDisk
<1>14. ASSUME NEW r \in Readers, InsertRead(r) PROVE TypeInv'
  BY <1>14 DEF InsertRead, FillSlot
<1>15. ASSUME Drop PROVE TypeInv'
  <2>1. cache' \in [Page -> Nat]
    BY <1>15 DEF Drop
  <2>2. writes' \in [Image -> SUBSET Page]
    BY <1>15 DEF Drop
  <2>3. numPages' \in 0 .. MaxPages
    BY <1>15 DEF Drop
  <2> QED BY SMTT(30), <1>15, <2>1, <2>2, <2>3 DEF Drop
<1>16. ASSUME FlushPage PROVE TypeInv'
  <2>1. file' \in [Page -> Nat]
    BY <1>16 DEF FlushPage
  <2>2. cursor' \in Nat
    BY <1>16 DEF FlushPage, Page
  <2> QED BY <1>16, <2>1, <2>2 DEF FlushPage
<1>17. ASSUME SyncData PROVE TypeInv'
  BY <1>17 DEF SyncData
<1>18. ASSUME TruncateEntries PROVE TypeInv'
  BY SMTT(30), <1>18 DEF TruncateEntries
<1>19. ASSUME TruncateHeader PROVE TypeInv'
  BY <1>19 DEF TruncateHeader
<1>20. ASSUME SyncWal PROVE TypeInv'
  BY <1>20 DEF SyncWal
<1>21. ASSUME ProcessCrash PROVE TypeInv'
  BY <1>21 DEF ProcessCrash, Forget, Owners
<1>22. ASSUME PowerFailure PROVE TypeInv'
  <2>1. file' \in [Page -> Nat]
    BY <1>22 DEF PowerFailure
  <2>2. count' \in Nat
    BY <1>22 DEF PowerFailure, Headers
  <2>3. log' \in Seq(Entry)
    BY <1>22, PlatterLog
  <2>4. damaged' \in BOOLEAN
    BY <1>22 DEF PowerFailure
  <2> QED BY <1>22, <2>1, <2>2, <2>3, <2>4 DEF PowerFailure, Forget, Owners
<1>23. ASSUME OpenClean PROVE TypeInv'
  <2>1. numPages' \in 0 .. MaxPages /\ newPages = 0
    BY <1>23, PagesOfBound DEF OpenClean
  <2>2. cache' \in [Page -> Nat] /\ phase' = "up"
    BY <1>23 DEF OpenClean
  <2>3. count' = 0 /\ log' = log /\ Len(log) \in Nat
    BY <1>23 DEF OpenClean
  <2> QED BY SMTT(30), <1>23, <2>1, <2>2, <2>3 DEF OpenClean
<1>24. ASSUME OpenDirty PROVE TypeInv'
  <2>1. phase' = "replay" => count <= Len(log)
    BY <1>24 DEF OpenDirty, Readable
  <2>2. phase' \in {"replay", "failed"} /\ newPages = 0
    BY <1>24 DEF OpenDirty
  <2> QED BY SMTT(30), <1>24, <2>1, <2>2 DEF OpenDirty
<1>25. ASSUME ReplayEntry PROVE TypeInv'
  <2>1. cursor \in 1 .. Len(log)
    BY <1>25 DEF ReplayEntry
  <2>2. log[cursor] \in Entry
    BY <1>25, <2>1
  <2>3. file' \in [Page -> Nat]
    BY <1>25, <2>2 DEF ReplayEntry, Entry
  <2>4. cursor' \in Nat /\ cursor' >= 1
    BY SMTT(30), <1>25 DEF ReplayEntry
  <2> QED BY <1>25, <2>1, <2>2, <2>3, <2>4 DEF ReplayEntry
<1>26. CASE UNCHANGED vars
  BY <1>26 DEF vars
<1> HIDE DEF TypeInv, TypeOK
<1> QED BY <1>1, <1>2, <1>3, <1>4, <1>5, <1>6, <1>7, <1>8, <1>9, <1>10, <1>11, <1>12, <1>13, <1>14,
       <1>15, <1>16, <1>17, <1>18, <1>19, <1>20, <1>21, <1>22, <1>23, <1>24, <1>25, <1>26
        DEF Next, Step, Read, Open, Shut

\* Every variable keeps its type, and page numbers never leave the file's bound.
THEOREM TypeCorrect == Spec => []TypeOK
<1>1. TypeInv => TypeOK
  BY DEF TypeInv
<1> QED BY <1>1, TypeInit, TypeStep, PTL DEF Spec

-----------------------------------------------------------------------------
(* What readers see *)

\* No image anywhere is newer than the last published commit, and an image a
\* reader took from disk is still the file's.
ImageInv ==
    /\ \A p \in Page : cache[p] <= commits /\ file[p] <= commits /\ disk[p] <= commits
    /\ \A i \in 1 .. Len(log) : log[i].img <= commits
    /\ \A i \in 1 .. Len(walDisk.log) : walDisk.log[i].img <= commits
    /\ \A t \in Threads : img[t] <= commits
    /\ \A r \in Readers : rpc[r] = "loaded" => phase = "up" /\ rimg[r] = file[rpage[r]]

\* At the start no image is newer than the last commit.
LEMMA ImageInit == Init => ImageInv
BY DEF Init, ImageInv

\* No step puts an image newer than the last commit into the cache, the file or
\* the log, and a reader between its disk read and its cache insert holds what
\* the file still holds.
LEMMA ImageStep == TypeInv /\ ImageInv /\ [Next]_vars => ImageInv'
<1> SUFFICES ASSUME TypeInv, ImageInv, [Next]_vars PROVE ImageInv'
  OBVIOUS
<1> USE DEF TypeInv, TypeOK, ImageInv
<1>1. ASSUME NEW t \in Threads, NEW tb \in Tables, LockTable(t, tb) \/ CommitTransaction(t, tb)
      PROVE  ImageInv'
  <2>1. UNCHANGED <<cache, file, disk, commits, log, walDisk, img, rpc, rimg, rpage, phase>>
    BY <1>1 DEF LockTable, CommitTransaction, pageVars, guardVars, walVars, readVars, lifeVars
  <2> QED BY <2>1
<1>2. ASSUME NEW t \in Threads, PersistRegistry(t) PROVE ImageInv'
  BY <1>2 DEF PersistRegistry, pageVars, guardVars, walVars, readVars, lifeVars, ghostVars
<1>3. ASSUME NEW t \in Threads, BeginWrite(t) PROVE ImageInv'
  BY <1>3 DEF BeginWrite, pageVars, walVars, readVars, lifeVars, ghostVars
<1>4. ASSUME NEW t \in Threads, NEW S \in SUBSET Page, NEW k \in 0 .. 1, Mutate(t, S, k) PROVE ImageInv'
  BY <1>4 DEF Mutate, pageVars, walVars, readVars, lifeVars
<1>5. ASSUME NEW t \in Threads, ErrorExit(t) PROVE ImageInv'
  BY <1>5 DEF ErrorExit, pageVars, walVars, readVars, lifeVars, ghostVars
<1>6. ASSUME NEW t \in Threads, Publish(t) PROVE ImageInv'
  <2>1. commits' = commits + 1 /\ commits \in Nat
    BY <1>6 DEF Publish
  <2>2. \A p \in Page : cache'[p] <= commits' /\ file'[p] <= commits' /\ disk'[p] <= commits'
    BY SMTT(30), <1>6, <2>1 DEF Publish
  <2>3. log' = log /\ walDisk' = walDisk
    BY <1>6 DEF Publish, walVars
  <2>4. log \in Seq(Entry) /\ walDisk.log \in Seq(Entry)
    OBVIOUS
  <2>5. /\ \A i \in 1 .. Len(log) : log[i].img <= commits
        /\ \A i \in 1 .. Len(walDisk.log) : walDisk.log[i].img <= commits
    OBVIOUS
  <2>6. /\ \A i \in 1 .. Len(log') : log'[i].img <= commits'
        /\ \A i \in 1 .. Len(walDisk'.log) : walDisk'.log[i].img <= commits'
    <3>1. \A i \in 1 .. Len(log) : log[i].img <= commits + 1
      BY ONLY <2>1, <2>4, <2>5, NextCommitIsNewer
    <3>2. \A i \in 1 .. Len(walDisk.log) : walDisk.log[i].img <= commits + 1
      BY ONLY <2>1, <2>4, <2>5, NextCommitIsNewer
    <3> QED BY <2>1, <2>3, <3>1, <3>2
  <2>7. \A u \in Threads : img'[u] <= commits'
    BY <1>6, <2>1 DEF Publish
  <2>8. \A r \in Readers : rpc'[r] = "loaded" => phase' = "up" /\ rimg'[r] = file'[rpage'[r]]
    BY <1>6 DEF Publish, readVars, lifeVars
  <2> QED BY <2>2, <2>6, <2>7, <2>8
<1>7. ASSUME NEW t \in Threads, Release(t) PROVE ImageInv'
  BY <1>7 DEF Release, walVars, readVars, lifeVars, ghostVars
<1>8. ASSUME NEW t \in Threads, LockWal(t) PROVE ImageInv'
  BY <1>8 DEF LockWal, pageVars, readVars, lifeVars, ghostVars
<1>9. ASSUME NEW t \in Threads, NEW p \in Page, AppendPageImage(t, p) PROVE ImageInv'
  <2> DEFINE e == [page |-> p, img |-> img[t]]
  <2>1. /\ log \in Seq(Entry) /\ e \in Entry /\ e.img <= commits /\ log' = InSlot(log, count + 1, e)
        /\ count + 1 \in 1 .. Len(log) + 1
    <3>1. log' = InSlot(log, count + 1, e) /\ phase = "up" /\ e.img = img[t]
      BY <1>9 DEF AppendPageImage
    <3>2. e \in Entry
      BY DEF Entry
    <3> HIDE DEF e
    <3>3. count \in Nat /\ count <= Len(log) /\ Len(log) \in Nat
      BY <3>1
    <3> QED BY SMTT(30), <3>1, <3>2, <3>3
  <2>2. \A i \in 1 .. Len(log) : log[i].img <= commits
    OBVIOUS
  <2> HIDE DEF e
  <2>3. \A i \in 1 .. Len(log') : i # count + 1 => i \in 1 .. Len(log) /\ log'[i] = log[i]
    <3>1. /\ Len(log') = IF count + 1 > Len(log) THEN count + 1 ELSE Len(log)
          /\ \A i \in 1 .. Len(log) : i # count + 1 => log'[i] = log[i]
      BY ONLY <2>1, InSlotIs
    <3>2. count + 1 \in Nat /\ Len(log) \in Nat /\ count + 1 <= Len(log) + 1
      BY <2>1
    <3>3. \A i \in 1 .. Len(log') : i # count + 1 => i \in 1 .. Len(log)
      BY ONLY <3>1, <3>2
    <3> QED BY <3>1, <3>3
  <2>4. log'[count + 1] = e
    BY ONLY <2>1, InSlotIs
  <2>5. \A i \in 1 .. Len(log') : log'[i].img <= commits
    BY ONLY <2>1, <2>2, <2>3, <2>4
  <2>6. UNCHANGED <<cache, file, disk, walDisk, img, rpc, rpage, rimg, phase, commits>>
    BY <1>9 DEF AppendPageImage, pageVars, readVars, lifeVars, ghostVars
  <2> QED BY <2>5, <2>6
<1>10. ASSUME NEW t \in Threads, FinishLog(t) PROVE ImageInv'
  BY <1>10 DEF FinishLog, Synced, pageVars, readVars, lifeVars, ghostVars
<1>11. ASSUME NEW t \in Threads, Return(t) PROVE ImageInv'
  BY <1>11, SMTT(30) DEF Return, pageVars, walVars, readVars, lifeVars
<1>12. ASSUME NEW r \in Readers, NEW p \in Page, ReadMiss(r, p) PROVE ImageInv'
  BY <1>12 DEF ReadMiss, pageVars, walVars, threadVars, lifeVars, ghostVars
<1>13. ASSUME NEW r \in Readers, ReadFromDisk(r) PROVE ImageInv'
  BY <1>13 DEF ReadFromDisk, pageVars, walVars, threadVars, lifeVars, ghostVars
<1>14. ASSUME NEW r \in Readers, InsertRead(r) PROVE ImageInv'
  BY <1>14 DEF InsertRead, FillSlot, walVars, threadVars, lifeVars, ghostVars
<1>15. ASSUME Drop PROVE ImageInv'
  <2>1. commits' = commits + 1 /\ commits \in Nat
    BY <1>15 DEF Drop
  <2>2. \A p \in Page : cache'[p] <= commits' /\ file'[p] <= commits' /\ disk'[p] <= commits'
    BY SMTT(30), <1>15, <2>1 DEF Drop
  <2>3. log' = log /\ walDisk' = walDisk /\ img' = img
    BY <1>15 DEF Drop, walVars, threadVars
  <2>4. log \in Seq(Entry) /\ walDisk.log \in Seq(Entry)
    OBVIOUS
  <2>5. /\ \A i \in 1 .. Len(log) : log[i].img <= commits
        /\ \A i \in 1 .. Len(walDisk.log) : walDisk.log[i].img <= commits
    OBVIOUS
  <2>6. /\ \A i \in 1 .. Len(log') : log'[i].img <= commits'
        /\ \A i \in 1 .. Len(walDisk'.log) : walDisk'.log[i].img <= commits'
    <3>1. \A i \in 1 .. Len(log) : log[i].img <= commits + 1
      BY ONLY <2>1, <2>4, <2>5, NextCommitIsNewer
    <3>2. \A i \in 1 .. Len(walDisk.log) : walDisk.log[i].img <= commits + 1
      BY ONLY <2>1, <2>4, <2>5, NextCommitIsNewer
    <3> QED BY <2>1, <2>3, <3>1, <3>2
  <2>7. \A u \in Threads : img'[u] <= commits'
    BY <2>1, <2>3
  <2>8. \A r \in Readers : rpc'[r] # "loaded"
    BY <1>15 DEF Drop, Quiet, readVars
  <2> QED BY <2>2, <2>6, <2>7, <2>8
<1>16. ASSUME FlushPage PROVE ImageInv'
  BY <1>16 DEF FlushPage, walVars, threadVars, readVars, ghostVars
<1>17. ASSUME SyncData PROVE ImageInv'
  BY <1>17 DEF SyncData, walVars, threadVars, readVars, ghostVars
<1>18. ASSUME TruncateEntries PROVE ImageInv'
  BY <1>18 DEF TruncateEntries, pageVars, threadVars, readVars, ghostVars
<1>19. ASSUME TruncateHeader PROVE ImageInv'
  BY <1>19 DEF TruncateHeader, pageVars, threadVars, readVars, ghostVars
<1>20. ASSUME SyncWal PROVE ImageInv'
  BY <1>20 DEF SyncWal, pageVars, threadVars, readVars, ghostVars
<1>21. ASSUME ProcessCrash PROVE ImageInv'
  BY <1>21 DEF ProcessCrash, Forget
<1>22. ASSUME PowerFailure PROVE ImageInv'
  <2>1. commits' = commits /\ commits \in Nat
    BY <1>22 DEF PowerFailure, Forget
  <2>2. \A p \in Page : cache'[p] <= commits' /\ file'[p] <= commits' /\ disk'[p] <= commits'
    BY <1>22, <2>1 DEF PowerFailure, Forget
  <2>3. \A i \in 1 .. Len(log') : log'[i].img <= commits'
    <3>1. \A i \in 1 .. Len(log') :
             \/ log'[i] = Torn
             \/ i \in 1 .. Len(log) /\ log'[i] = log[i]
             \/ i \in 1 .. Len(walDisk.log) /\ log'[i] = walDisk.log[i]
      BY <1>22, PlatterLog
    <3>2. Torn.img <= commits
      BY <2>1 DEF Torn
    <3>3. /\ \A i \in 1 .. Len(log) : log[i].img <= commits
          /\ \A i \in 1 .. Len(walDisk.log) : walDisk.log[i].img <= commits
      OBVIOUS
    <3> QED BY ONLY <2>1, <3>1, <3>2, <3>3
  <2>4. walDisk'.log = log'
    BY <1>22 DEF PowerFailure
  <2>5. \A u \in Threads : img'[u] <= commits'
    BY <1>22, <2>1 DEF PowerFailure, Forget
  <2>6. \A r \in Readers : rpc'[r] # "loaded"
    BY <1>22 DEF PowerFailure, Forget
  <2> QED BY <2>2, <2>3, <2>4, <2>5, <2>6
<1>23. ASSUME OpenClean PROVE ImageInv'
  BY <1>23 DEF OpenClean, walVars, threadVars, readVars, ghostVars
<1>24. ASSUME OpenDirty PROVE ImageInv'
  BY <1>24 DEF OpenDirty, pageVars, walVars, threadVars, readVars, ghostVars
<1>25. ASSUME ReplayEntry PROVE ImageInv'
  BY <1>25 DEF ReplayEntry, walVars, threadVars, readVars, ghostVars
<1>26. CASE UNCHANGED vars
  BY <1>26 DEF vars, pageVars, guardVars, walVars, threadVars, readVars, lifeVars, ghostVars
<1> HIDE DEF TypeInv, TypeOK, ImageInv
<1> QED BY <1>1, <1>2, <1>3, <1>4, <1>5, <1>6, <1>7, <1>8, <1>9, <1>10, <1>11, <1>12, <1>13, <1>14,
       <1>15, <1>16, <1>17, <1>18, <1>19, <1>20, <1>21, <1>22, <1>23, <1>24, <1>25, <1>26
        DEF Next, Step, Read, Open, Shut

\* A step of an open handle never takes a page back to an older image.
LEMMA ViewStep ==
    ASSUME TypeInv, ImageInv, [Next]_vars, phase = "up", phase' = "up", NEW q \in Page
    PROVE  View(q)' >= View(q)
<1> USE DEF TypeInv, TypeOK, ImageInv
<1>1. CASE UNCHANGED <<cache, file>>
  BY SMTT(30), <1>1 DEF View
<1>2. ASSUME NEW t \in Threads, Publish(t) PROVE View(q)' >= View(q)
  BY SMTT(30), <1>2 DEF Publish, View
<1>3. ASSUME NEW r \in Readers, InsertRead(r) PROVE View(q)' >= View(q)
  BY SMTT(30), <1>3 DEF InsertRead, FillSlot, View
<1>4. CASE \E t \in Threads : \/ PersistRegistry(t) \/ ErrorExit(t)
                              \/ \E tb \in Tables : LockTable(t, tb) \/ CommitTransaction(t, tb)
  BY <1>1, <1>4 DEF PersistRegistry, ErrorExit, LockTable, CommitTransaction, pageVars
<1>5. ASSUME NEW t \in Threads, Step(t), ~Publish(t) PROVE UNCHANGED <<cache, file>>
  BY <1>5 DEF Step, BeginWrite, Mutate, Release, LockWal, AppendPageImage, FinishLog, Return, pageVars
<1>6. ASSUME NEW r \in Readers, Read(r), ~InsertRead(r) PROVE UNCHANGED <<cache, file>>
  BY <1>6 DEF Read, ReadMiss, ReadFromDisk, pageVars
<1>7. ~Open /\ ~Shut /\ ~Drop /\ ~ProcessCrash /\ ~PowerFailure
  BY DEF Open, Shut, OpenClean, OpenDirty, ReplayEntry, FlushPage, SyncData, TruncateEntries,
         TruncateHeader, SyncWal, Drop, ProcessCrash, PowerFailure, Forget
<1>8. CASE UNCHANGED vars
  BY <1>1, <1>8 DEF vars, pageVars
<1> QED BY <1>1, <1>2, <1>3, <1>4, <1>5, <1>6, <1>7, <1>8 DEF Next

\* While the handle is open, what read_page returns for a page never goes back
\* to an older commit: neither a commit nor a reader filling the cache from disk
\* undoes a published page.
THEOREM ViewMonotone == Spec => ViewNeverRegresses
<1>1. TypeInv /\ ImageInv /\ [Next]_vars =>
        [phase = "up" /\ phase' = "up" => \A p \in Page : View(p)' >= View(p)]_vars
  BY ViewStep
<1> QED BY <1>1, TypeInit, TypeStep, ImageInit, ImageStep, PTL DEF Spec, ViewNeverRegresses
-----------------------------------------------------------------------------
(* Fresh pages *)

GuardOpen == {"open", "mutated", "published"}
PastGuard == {"unlogged", "logging", "logged"}

\* Why a fresh page number is nobody else's: the write mutex is held exactly by
\* the thread whose guard is open, the overlay lies below num_pages plus its own
\* count, what waits to be logged lies below num_pages once the guard is
\* released, and open() puts num_pages above every page of the file.
FreshInv ==
    /\ phase # "up" => dirty = {} /\ \A t \in Threads : pc[t] = "idle"
    /\ \A t \in Threads : holder = t <=> pc[t] \in GuardOpen
    /\ \A t \in Threads : pc[t] \in {"idle", "locked", "open", "mutated"} => todo[t] = {}
    /\ \A t \in Threads : pc[t] = "published" => todo[t] = dirty
    /\ \A t \in Threads : pc[t] \in PastGuard => \A p \in todo[t] : p < numPages
    /\ \A p \in dirty : p < numPages + newPages
    /\ phase = "up" => \A p \in Page : file[p] # 0 => p < numPages

\* It holds of a database as a clean shutdown left it.
LEMMA FreshInit == Init => FreshInv
<1> SUFFICES ASSUME Init PROVE FreshInv
  OBVIOUS
<1>1. file \in [Page -> Nat]
  BY DEF Init
<1>2. \A p \in Page : file[p] # 0 => p < numPages
  BY <1>1, PagesOfBound DEF Init
<1> QED BY <1>2, NamesAssumption DEF Init, FreshInv, GuardOpen, PastGuard

\* Every step keeps it, a failed operation's included: ErrorExit leaves the
\* overlay and its count behind together.
LEMMA FreshStep == TypeInv /\ FreshInv /\ [Next]_vars => FreshInv'
<1> SUFFICES ASSUME TypeInv, FreshInv, [Next]_vars PROVE FreshInv'
  OBVIOUS
<1> USE NamesAssumption DEF TypeInv, TypeOK, FreshInv, GuardOpen, PastGuard
<1>1. CASE UNCHANGED <<phase, dirty, newPages, pc, holder, todo, numPages, file>>
  BY <1>1
<1>2. ASSUME NEW t \in Threads, NEW tb \in Tables, LockTable(t, tb) \/ CommitTransaction(t, tb)
      PROVE  FreshInv'
  <2>1. /\ phase = "up" /\ pc[t] = "idle" /\ pc' = [pc EXCEPT ![t] = "locked"]
        /\ UNCHANGED <<phase, dirty, newPages, holder, todo, numPages, file>>
    BY <1>2 DEF LockTable, CommitTransaction, pageVars, guardVars, lifeVars
  <2> QED BY <2>1
<1>3. ASSUME NEW t \in Threads, PersistRegistry(t) PROVE FreshInv'
  BY <1>3 DEF PersistRegistry, pageVars, guardVars, lifeVars
<1>4. ASSUME NEW t \in Threads, BeginWrite(t) PROVE FreshInv'
  BY <1>4 DEF BeginWrite, pageVars, lifeVars
<1>5. ASSUME NEW t \in Threads, NEW S \in SUBSET Page, NEW k \in 0 .. 1, Mutate(t, S, k) PROVE FreshInv'
  <2>1. \A p \in dirty' : p < numPages' + newPages'
    BY <1>5 DEF Mutate, Mine, AllocatedBy, Page, pageVars
  <2>2. \A u \in Threads : pc'[u] # "published"
    BY <1>5 DEF Mutate
  <2> QED BY <1>5, <2>1, <2>2 DEF Mutate, pageVars, lifeVars
<1>6. ASSUME NEW t \in Threads, ErrorExit(t) PROVE FreshInv'
  BY <1>6 DEF ErrorExit, pageVars, lifeVars
<1>7. ASSUME NEW t \in Threads, Publish(t) PROVE FreshInv'
  BY <1>7 DEF Publish, guardVars, lifeVars
<1>8. ASSUME NEW t \in Threads, Release(t) PROVE FreshInv'
  <2>1. numPages' = numPages + newPages /\ dirty' = {} /\ newPages' = 0 /\ todo' = todo
        /\ holder' = Nobody /\ phase' = phase /\ phase = "up" /\ file' = file
    BY <1>8 DEF Release, Grown, Cleared, lifeVars
  <2>2. pc[t] = "published" /\ pc'[t] \in PastGuard /\ \A u \in Threads \ {t} : pc'[u] = pc[u]
    BY <1>8 DEF Release
  <2>3. \A u \in Threads \ {t} : pc[u] \notin GuardOpen
    BY <2>2
  <2>4. \A u \in Threads : pc'[u] \in PastGuard => \A p \in todo'[u] : p < numPages'
    <3>1. \A p \in todo'[t] : p < numPages'
      BY <2>1, <2>2
    <3>2. ASSUME NEW u \in Threads \ {t}, pc'[u] \in PastGuard PROVE \A p \in todo'[u] : p < numPages'
      <4>1. \A p \in todo[u] : p < numPages /\ p \in Page
        BY <2>2, <3>2
      <4> QED BY <2>1, <4>1 DEF Page
    <3> QED BY <3>1, <3>2
  <2>5. \A p \in Page : file'[p] # 0 => p < numPages'
    BY <2>1 DEF Page
  <2> QED BY <2>1, <2>2, <2>3, <2>4, <2>5
<1>9. ASSUME NEW t \in Threads, LockWal(t) PROVE FreshInv'
  BY <1>9 DEF LockWal, pageVars, guardVars, lifeVars
<1>10. ASSUME NEW t \in Threads, NEW p \in Page, AppendPageImage(t, p) PROVE FreshInv'
  BY <1>10 DEF AppendPageImage, pageVars, guardVars, lifeVars
<1>11. ASSUME NEW t \in Threads, FinishLog(t) PROVE FreshInv'
  BY <1>11 DEF FinishLog, pageVars, guardVars, lifeVars
<1>12. ASSUME NEW t \in Threads, Return(t) PROVE FreshInv'
  BY <1>12, SMTT(30) DEF Return, pageVars, guardVars, lifeVars
<1>13. ASSUME NEW r \in Readers, Read(r) PROVE FreshInv'
  BY <1>1, <1>13 DEF Read, ReadMiss, ReadFromDisk, InsertRead, pageVars, guardVars, threadVars, lifeVars
<1>14. ASSUME Drop PROVE FreshInv'
  BY <1>14 DEF Drop, Quiet, threadVars
<1>15. ASSUME Shut PROVE FreshInv'
  BY <1>15 DEF Shut, FlushPage, SyncData, TruncateEntries, TruncateHeader, SyncWal,
               pageVars, guardVars, threadVars
<1>16. ASSUME ProcessCrash \/ PowerFailure PROVE FreshInv'
  <2>1. Forget
    BY <1>16 DEF ProcessCrash, PowerFailure
  <2> QED BY <2>1 DEF Forget
<1>17. ASSUME OpenClean PROVE FreshInv'
  <2>1. \A p \in Page : file'[p] # 0 => p < numPages'
    BY <1>17, PagesOfBound DEF OpenClean
  <2> QED BY <1>17, <2>1 DEF OpenClean, guardVars, threadVars
<1>18. ASSUME OpenDirty \/ ReplayEntry PROVE FreshInv'
  BY <1>18 DEF OpenDirty, ReplayEntry, pageVars, guardVars, threadVars
<1>19. CASE UNCHANGED vars
  BY <1>1, <1>19 DEF vars, pageVars, guardVars, threadVars, lifeVars
<1> QED BY <1>2, <1>3, <1>4, <1>5, <1>6, <1>7, <1>8, <1>9, <1>10, <1>11, <1>12, <1>13, <1>14, <1>15, <1>16, <1>17, <1>18, <1>19
        DEF Next, Step, Open

\* allocate_page never hands out a page that the file holds or that another
\* commit is still logging, also after an operation failed with its guard open.
THEOREM FreshPages == Spec => []FreshPagesAreFree
<1>1. TypeInv /\ FreshInv => FreshPagesAreFree
  <2> SUFFICES ASSUME TypeInv, FreshInv, NEW p \in dirty, p >= numPages
               PROVE  /\ file[p] = 0 /\ p < numPages + newPages
                      /\ \A t \in Threads : p \notin todo[t] \/ holder = t
    BY DEF FreshPagesAreFree
  <2> USE DEF TypeInv, TypeOK, FreshInv, GuardOpen, PastGuard
  <2>1. p \in Page /\ p \in Nat /\ numPages \in Nat /\ ~(p < numPages)
    BY DEF Page
  <2>2. file[p] = 0
    BY <2>1
  <2>3. ASSUME NEW t \in Threads, p \in todo[t] PROVE holder = t
    BY <2>1, <2>3
  <2> QED BY <2>2, <2>3
<1> QED BY <1>1, TypeInit, TypeStep, FreshInit, FreshStep, PTL DEF Spec

-----------------------------------------------------------------------------
(***************************************************************************)
(* The redo log: why it never runs out of order for a page of a table, as  *)
(* long as no operation has failed with its guard open and commits are     *)
(* logged (Normal or Immediate).                                           *)
(***************************************************************************)

\* The setting of this part; Threads is finite because MayCommit counts the
\* operations under way.
Setting == Durability \in {"immediate", "normal"} /\ IsFiniteSet(Threads)

-----------------------------------------------------------------------------
(* The number of commits *)

Busy == {t \in Threads : pc[t] \in {"locked", "open", "mutated"}}

\* Commits published and commits under way stay within the bound on Image.
BudgetInv == commits + Cardinality(Busy) <= MaxCommits + 1

\* A finite set grows by at most one member at a time, and loses one.
LEMMA CountOne ==
    ASSUME NEW S, IsFiniteSet(S), NEW t
    PROVE  /\ Cardinality(S \cup {t}) \in Nat /\ Cardinality(S \cup {t}) <= Cardinality(S) + 1
           /\ t \in S => Cardinality(S \ {t}) = Cardinality(S) - 1
<1>1. Cardinality(S) \in Nat
  BY FS_CardinalityType
<1>2. Cardinality(S \cup {t}) = IF t \in S THEN Cardinality(S) ELSE Cardinality(S) + 1
  BY FS_AddElement
<1>3. Cardinality(S \ {t}) = IF t \in S THEN Cardinality(S) - 1 ELSE Cardinality(S)
  BY FS_RemoveElement
<1> QED BY <1>1, <1>2, <1>3

\* At the start one commit is counted and none is under way.
LEMMA BudgetInit == ASSUME Setting PROVE Init => BudgetInv
<1> SUFFICES ASSUME Init PROVE BudgetInv
  OBVIOUS
<1>1. Busy = {} /\ commits = 1
  BY DEF Busy, Init
<1>2. Cardinality(Busy) = 0
  BY <1>1, FS_EmptySet
<1> QED BY <1>1, <1>2, BoundsAssumption DEF BudgetInv

\* MayCommit keeps room for every operation it lets start.
LEMMA BudgetStep == ASSUME Setting PROVE TypeInv /\ BudgetInv /\ [Next]_vars => BudgetInv'
<1> SUFFICES ASSUME TypeInv, BudgetInv, [Next]_vars PROVE BudgetInv'
  OBVIOUS
<1> USE BoundsAssumption DEF TypeInv, TypeOK
<1>0. /\ IsFiniteSet(Busy) /\ Cardinality(Busy) \in Nat
      /\ commits \in Nat /\ commits + Cardinality(Busy) <= MaxCommits + 1
  <2>1. IsFiniteSet(Busy)
    BY FS_Subset DEF Busy, Setting
  <2> QED BY <2>1, FS_CardinalityType DEF BudgetInv
<1>1. ASSUME commits' = commits, Busy' = Busy PROVE BudgetInv'
  BY <1>1, <1>0 DEF BudgetInv
<1>2. ASSUME NEW t \in Threads, MayCommit, commits' = commits, pc' = [pc EXCEPT ![t] = "locked"]
      PROVE  BudgetInv'
  <2>1. Busy' = Busy \cup {t}
    BY <1>2 DEF Busy
  <2>2. Cardinality(Busy') <= Cardinality(Busy) + 1 /\ Cardinality(Busy') \in Nat
    BY <2>1, <1>0, CountOne
  <2>3. commits + Cardinality(Busy) <= MaxCommits
    BY <1>2 DEF MayCommit, Busy
  <2> QED BY <1>0, <1>2, <2>2, <2>3 DEF BudgetInv
<1>3. ASSUME NEW t \in Threads, Publish(t) PROVE BudgetInv'
  <2>1. Busy' = Busy \ {t} /\ t \in Busy /\ commits' = commits + 1
    BY <1>3 DEF Busy, Publish
  <2>2. Cardinality(Busy') = Cardinality(Busy) - 1
    BY <2>1, <1>0, CountOne
  <2> QED BY <1>0, <2>1, <2>2 DEF BudgetInv
<1>4. ASSUME NEW t \in Threads,
             BeginWrite(t) \/ Release(t) \/ LockWal(t) \/ FinishLog(t) \/ Return(t)
               \/ (\E S \in SUBSET Page, k \in 0 .. 1 : Mutate(t, S, k))
               \/ (\E p \in Page : AppendPageImage(t, p))
      PROVE  BudgetInv'
  <2>1. commits' = commits
    BY <1>4 DEF BeginWrite, Release, LockWal, FinishLog, Return, Mutate, AppendPageImage, ghostVars
  <2>2. Busy' = Busy
    BY <1>4 DEF Busy, BeginWrite, Release, LockWal, FinishLog, Return, Mutate, AppendPageImage
  <2> QED BY <1>1, <2>1, <2>2
<1>5. ASSUME NEW t \in Threads, ErrorExit(t) PROVE BudgetInv'
  <2>1. Busy' = Busy \ {t} /\ t \in Busy /\ commits' = commits
    BY <1>5 DEF Busy, ErrorExit, ghostVars
  <2>2. Cardinality(Busy') = Cardinality(Busy) - 1
    BY <2>1, <1>0, CountOne
  <2> QED BY <1>0, <2>1, <2>2 DEF BudgetInv
<1>6. ASSUME NEW t \in Threads, PersistRegistry(t) \/ \E tb \in Tables : LockTable(t, tb) \/ CommitTransaction(t, tb)
      PROVE  BudgetInv'
  BY <1>2, <1>6 DEF PersistRegistry, LockTable, CommitTransaction, ghostVars
<1>7. ASSUME NEW r \in Readers, Read(r) PROVE BudgetInv'
  <2>1. commits' = commits /\ pc' = pc
    BY <1>7 DEF Read, ReadMiss, ReadFromDisk, InsertRead, threadVars, ghostVars
  <2> QED BY <1>1, <2>1 DEF Busy
<1>8. ASSUME Drop PROVE BudgetInv'
  <2>1. Busy' = Busy /\ commits' = commits + 1
    BY <1>8 DEF Drop, Busy, threadVars
  <2>2. commits + Cardinality(Busy) <= MaxCommits
    BY <1>8 DEF Drop, MayCommit, Busy
  <2> QED BY <1>0, <2>1, <2>2 DEF BudgetInv
<1>9. ASSUME Shut \/ Open PROVE BudgetInv'
  <2>1. commits' = commits /\ pc' = pc
    BY <1>9 DEF Shut, Open, FlushPage, SyncData, TruncateEntries, TruncateHeader, SyncWal,
                OpenClean, OpenDirty, ReplayEntry, threadVars, ghostVars
  <2> QED BY <1>1, <2>1 DEF Busy
<1>10. ASSUME ProcessCrash \/ PowerFailure PROVE BudgetInv'
  <2>1. Forget
    BY <1>10 DEF ProcessCrash, PowerFailure
  <2>2. Busy' = {} /\ commits' = commits
    BY <2>1 DEF Forget, Busy
  <2>3. Cardinality(Busy') = 0
    BY <2>2, FS_EmptySet
  <2> QED BY <1>0, <2>2, <2>3 DEF BudgetInv
<1>11. CASE UNCHANGED vars
  BY <1>1, <1>11 DEF vars, threadVars, ghostVars, Busy
<1> QED BY <1>3, <1>4, <1>5, <1>6, <1>7, <1>8, <1>9, <1>10, <1>11 DEF Next, Step

-----------------------------------------------------------------------------
(* Whose pages a commit writes *)

Committing == {"published", "unlogged", "logging", "logged"}

\* Page p is thread t's to write: a page of its table, or page 0.
Own(t, p) == owner[p] = op[t] /\ (op[t] = Registry => p = 0)

\* A thread holds its table's lock from its first step to its last, unless it is
\* an ACID commit; until an ACID commit overlaps another operation, each table
\* has one operation at a time all the same; the overlay is empty when a guard
\* opens and holds only its thread's pages; a commit's
\* pages keep their owner, and lie below num_pages once the guard is released.
OwnInv ==
    /\ \A t \in Threads : pc[t] # "idle" /\ op[t] \in Tables /\ t \notin acid => lock[op[t]] = t
    /\ ~raced => \A t, u \in Threads :
          pc[t] # "idle" /\ pc[u] # "idle" /\ op[t] = op[u] /\ op[t] \in Tables => t = u
    /\ holder = Nobody => dirty = {}
    /\ \A t \in Threads : pc[t] = "open" => dirty = {}
    /\ \A t \in Threads : pc[t] = "mutated" => \A p \in dirty : Own(t, p)
    /\ \A t \in Threads : pc[t] = "published" => writes[img[t]] = dirty
    /\ \A t \in Threads : pc[t] \in Committing =>
          img[t] \in Image \ {0} /\ todo[t] \subseteq writes[img[t]]
    /\ \A t \in Threads : pc[t] \in Committing => \A p \in writes[img[t]] : Own(t, p)
    /\ \A t \in Threads : pc[t] \in PastGuard => \A p \in writes[img[t]] : p < numPages
    /\ \A t \in Threads : pc[t] = "logged" => todo[t] = {}

\* At the start no operation is under way.
LEMMA OwnInit == Init => OwnInv
BY NamesAssumption DEF Init, OwnInv, Committing, PastGuard

\* Without such an overlap two threads never commit the same page of a table.
LEMMA OneCommitter ==
    ASSUME TypeOK, OwnInv, ~raced, NEW t \in Threads, NEW u \in Threads, NEW p \in Page \ {0},
           pc[t] # "idle", pc[u] # "idle", Own(t, p), Own(u, p)
    PROVE  t = u
<1>1. op[t] = owner[p] /\ op[u] = owner[p] /\ op[t] # Registry
  BY DEF Own
<1>2. op[t] \in Tables
  BY <1>1 DEF TypeOK, Owners
<1> QED BY <1>1, <1>2 DEF OwnInv

\* An operation that fails with its guard open is counted.
LEMMA NoErrorExit ==
    ASSUME TypeInv, errors' = 0 PROVE \A t \in Threads : ~ErrorExit(t)
BY DEF TypeInv, TypeOK, ErrorExit

\* Every step keeps it: the overlay is cleared with the guard's release, fresh
\* pages belong to nobody's commit, and no operation fails with its guard open.
LEMMA OwnStep ==
    ASSUME Setting, TypeInv, ImageInv, FreshInv, BudgetInv, OwnInv, [Next]_vars, errors' = 0
    PROVE  OwnInv'
<1> USE NamesAssumption DEF TypeInv, TypeOK, OwnInv, Committing, PastGuard, Own
<1>1. CASE UNCHANGED <<dirty, pc, holder, todo, numPages, lock, op, img, writes, owner, acid, raced>>
  BY <1>1
<1>2. ASSUME NEW t \in Threads, NEW tb \in Tables, LockTable(t, tb) \/ CommitTransaction(t, tb)
      PROVE  OwnInv'
  <2>1. /\ pc[t] = "idle" /\ pc' = [pc EXCEPT ![t] = "locked"] /\ op' = [op EXCEPT ![t] = tb]
        /\ UNCHANGED <<dirty, holder, todo, numPages, img, writes, owner>>
    BY <1>2 DEF LockTable, CommitTransaction, pageVars, guardVars
  <2>2. \A u \in Threads \ {t} : pc'[u] = pc[u] /\ op'[u] = op[u]
    BY <2>1
  <2>3. ~raced' => ~raced /\ \A u \in Threads \ {t} : pc[u] # "idle" => op[u] # tb
    <3>1. CASE LockTable(t, tb)
      <4>1. raced' = (raced \/ Busied(tb, acid)) /\ lock[tb] = Nobody
        BY <3>1 DEF LockTable
      <4>2. ASSUME ~raced', NEW u \in Threads \ {t}, pc[u] # "idle", op[u] = tb PROVE FALSE
        <5>1. u \notin acid
          BY <4>1, <4>2 DEF Busied
        <5>2. lock[tb] = u
          BY <4>2, <5>1
        <5> QED BY <4>1, <5>2
      <4> QED BY <4>1, <4>2
    <3>2. CASE CommitTransaction(t, tb)
      <4>1. raced' = (raced \/ Busied(tb, Threads))
        BY <3>2 DEF CommitTransaction
      <4> QED BY <4>1 DEF Busied
    <3> QED BY <1>2, <3>1, <3>2
  <2>4. \A u \in Threads : pc'[u] # "idle" /\ op'[u] \in Tables /\ u \notin acid' => lock'[op'[u]] = u
    <3>1. CASE LockTable(t, tb)
      <4>1. acid' = acid /\ lock' = [lock EXCEPT ![tb] = t] /\ lock[tb] = Nobody
        BY <3>1 DEF LockTable
      <4>2. ASSUME NEW u \in Threads \ {t}, pc[u] # "idle", op[u] \in Tables, u \notin acid
            PROVE  lock'[op[u]] = u
        <5>1. lock[op[u]] = u
          BY <4>2
        <5> QED BY <4>1, <4>2, <5>1
      <4> QED BY <2>1, <2>2, <4>1, <4>2
    <3>2. CASE CommitTransaction(t, tb)
      <4>1. acid' = acid \cup {t} /\ lock' = lock
        BY <3>2 DEF CommitTransaction
      <4> QED BY <2>1, <2>2, <4>1
    <3> QED BY <1>2, <3>1, <3>2
  <2>5. ~raced' => \A u, v \in Threads : pc'[u] # "idle" /\ pc'[v] # "idle" /\ op'[u] = op'[v]
                                          /\ op'[u] \in Tables => u = v
    BY <2>1, <2>2, <2>3
  <2> QED BY <2>1, <2>2, <2>4, <2>5, SMTT(30)
<1>3. ASSUME NEW t \in Threads, PersistRegistry(t) PROVE OwnInv'
  BY <1>3 DEF PersistRegistry, pageVars, guardVars, ghostVars
<1>4. ASSUME NEW t \in Threads, BeginWrite(t) PROVE OwnInv'
  BY <1>4 DEF BeginWrite, pageVars, ghostVars
<1>5. ASSUME NEW t \in Threads, NEW S \in SUBSET Page, NEW k \in 0 .. 1, Mutate(t, S, k) PROVE OwnInv'
  <2>1. dirty = {} /\ pc[t] = "open" /\ pc' = [pc EXCEPT ![t] = "mutated"]
    BY <1>5 DEF Mutate
  <2>2. \A u \in Threads \ {t} : pc[u] \notin {"open", "mutated", "published"}
    BY <2>1 DEF FreshInv, GuardOpen
  <2>3. \A p \in dirty' : owner'[p] = op[t] /\ (op[t] = Registry => p = 0)
    BY <1>5, <2>1 DEF Mutate, Mine, AllocatedBy
  <2>4. \A u \in Threads : pc[u] \in PastGuard => \A p \in writes[img[u]] : owner'[p] = owner[p]
    BY SMTT(30), <1>5 DEF Mutate, AllocatedBy, Page
  <2>5. UNCHANGED <<todo, numPages, lock, op, img, writes, holder, acid, raced>> /\ holder = t
    BY <1>5 DEF Mutate, pageVars, FreshInv, GuardOpen
  <2> QED BY <2>1, <2>2, <2>3, <2>4, <2>5
<1>6. ASSUME NEW t \in Threads, ErrorExit(t) PROVE FALSE
  BY <1>6, NoErrorExit
<1>7. ASSUME NEW t \in Threads, Publish(t) PROVE OwnInv'
  <2>1. commits + 1 \in Image \ {0}
    <3>1. t \in Busy /\ IsFiniteSet(Busy)
      BY <1>7, FS_Subset DEF Publish, Busy, Setting
    <3>2. Cardinality(Busy) \in Nat /\ Cardinality(Busy) # 0
      BY <3>1, FS_CardinalityType, FS_EmptySet
    <3> QED BY <3>2, BoundsAssumption DEF BudgetInv, Image
  <2>2. writes'[commits + 1] = dirty /\ \A c \in Image : c # commits + 1 => writes'[c] = writes[c]
    BY <1>7, <2>1 DEF Publish
  <2>3. /\ pc' = [pc EXCEPT ![t] = "published"] /\ pc[t] = "mutated"
        /\ img' = [img EXCEPT ![t] = commits + 1] /\ todo' = [todo EXCEPT ![t] = dirty]
        /\ UNCHANGED <<dirty, numPages, lock, op, holder, owner, acid, raced>>
    BY <1>7 DEF Publish, guardVars
  <2>4. \A u \in Threads : img[u] \in Nat /\ img[u] # commits + 1
    BY DEF ImageInv
  <2>5. \A u \in Threads \ {t} : pc[u] \in Committing => writes'[img'[u]] = writes[img[u]]
    BY <2>2, <2>3, <2>4
  <2>6. \A u \in Threads \ {t} : pc[u] \notin {"open", "mutated", "published"}
    BY <2>3 DEF FreshInv, GuardOpen
  <2>7. writes'[img'[t]] = dirty /\ img'[t] = commits + 1 /\ todo'[t] = dirty /\ \A p \in dirty : Own(t, p)
    BY <2>2, <2>3
  <2> QED BY SMTT(30), <2>1, <2>3, <2>5, <2>6, <2>7
<1>8. ASSUME NEW t \in Threads, Release(t) PROVE OwnInv'
  <2>1. /\ numPages' = numPages + newPages /\ dirty' = {} /\ pc[t] = "published"
        /\ pc' = [pc EXCEPT ![t] = "unlogged"]
        /\ UNCHANGED <<todo, lock, op, img, writes, owner, acid, raced>>
    BY <1>8 DEF Release, Grown, Cleared, ghostVars, Setting
  <2>2. \A p \in writes[img[t]] : p < numPages'
    BY <2>1 DEF FreshInv
  <2>3. \A u \in Threads \ {t} : pc[u] \notin {"open", "mutated", "published"}
    BY <2>1 DEF FreshInv, GuardOpen
  <2>4. \A u \in Threads \ {t} : pc[u] \in PastGuard => \A p \in writes[img[u]] : p < numPages'
    BY SMTT(30), <2>1 DEF Page
  <2> QED BY SMTT(30), <2>1, <2>2, <2>3, <2>4
<1>9. ASSUME NEW t \in Threads, LockWal(t) PROVE OwnInv'
  BY SMTT(30), <1>9 DEF LockWal, pageVars, guardVars, ghostVars
<1>10. ASSUME NEW t \in Threads, NEW p \in Page, AppendPageImage(t, p) PROVE OwnInv'
  <2>1. /\ pc[t] = "logging" /\ todo' = [todo EXCEPT ![t] = @ \ {p}]
        /\ UNCHANGED <<dirty, pc, holder, numPages, lock, op, img, writes, owner, acid, raced>>
    BY <1>10 DEF AppendPageImage, pageVars, guardVars, ghostVars
  <2>2. \A u \in Threads : todo'[u] \subseteq todo[u]
    BY <2>1
  <2>3. \A u \in Threads : pc[u] = "logged" => todo'[u] = {}
    BY <2>1
  <2> QED BY SMTT(30), <2>1, <2>2, <2>3
<1>11. ASSUME NEW t \in Threads, FinishLog(t) PROVE OwnInv'
  <2>1. /\ pc[t] = "logging" /\ todo[t] = {} /\ pc' = [pc EXCEPT ![t] = "logged"]
        /\ UNCHANGED <<dirty, holder, todo, numPages, lock, op, img, writes, owner, acid, raced>>
    BY <1>11 DEF FinishLog, pageVars, guardVars, ghostVars
  <2> QED BY SMTT(30), <2>1
<1>12. ASSUME NEW t \in Threads, Return(t) PROVE OwnInv'
  <2>1. /\ pc[t] = "logged" /\ pc' = [pc EXCEPT ![t] = "idle"]
        /\ todo' = [todo EXCEPT ![t] = {}] /\ img' = [img EXCEPT ![t] = 0]
        /\ op' = [op EXCEPT ![t] = Registry]
        /\ acid' = acid \ {t}
        /\ UNCHANGED <<dirty, holder, numPages, writes, owner, raced>>
    BY <1>12 DEF Return, pageVars, guardVars
  <2>2. \A tb \in Tables : lock[tb] # t => lock'[tb] = lock[tb]
    BY <1>12 DEF Return, Unlock
  <2>3. \A u \in Threads \ {t} : pc'[u] = pc[u] /\ todo'[u] = todo[u] /\ img'[u] = img[u] /\ op'[u] = op[u]
    BY <2>1
  <2>4. \A u \in Threads \ {t} : pc[u] # "idle" /\ op[u] \in Tables /\ u \notin acid => lock'[op[u]] = u
    BY <2>2
  <2> QED BY <2>1, <2>3, <2>4
<1>13. ASSUME NEW r \in Readers, Read(r) PROVE OwnInv'
  BY <1>1, <1>13 DEF Read, ReadMiss, ReadFromDisk, InsertRead, pageVars, guardVars, threadVars, ghostVars
<1>14. ASSUME Drop PROVE OwnInv'
  BY <1>14 DEF Drop, Quiet, threadVars
<1>15. ASSUME Shut PROVE OwnInv'
  BY <1>1, <1>15 DEF Shut, FlushPage, SyncData, TruncateEntries, TruncateHeader, SyncWal,
               pageVars, guardVars, threadVars, ghostVars
<1>16. ASSUME ProcessCrash \/ PowerFailure PROVE OwnInv'
  <2>1. Forget
    BY <1>16 DEF ProcessCrash, PowerFailure
  <2> QED BY <2>1 DEF Forget
<1>17. ASSUME Open PROVE OwnInv'
  <2>1. UNCHANGED <<dirty, pc, holder, todo, lock, op, img, writes, owner, acid, raced>>
    BY <1>17 DEF Open, OpenClean, OpenDirty, ReplayEntry, pageVars, guardVars, threadVars, ghostVars
  <2>2. \A u \in Threads : pc[u] = "idle"
    BY <1>17 DEF Open, OpenClean, OpenDirty, ReplayEntry, FreshInv
  <2> QED BY <2>1, <2>2
<1>18. CASE UNCHANGED vars
  BY <1>1, <1>18 DEF vars, pageVars, guardVars, threadVars, ghostVars
<1> QED BY <1>2, <1>3, <1>4, <1>5, <1>6, <1>7, <1>8, <1>9, <1>10, <1>11, <1>12, <1>13, <1>14, <1>15, <1>16, <1>17, <1>18
        DEF Next, Step

-----------------------------------------------------------------------------
(* What replaying a log gives, for any file f, entries l and count c *)

LoggedIn(l, c, p) == {i \in 1 .. Len(l) : i <= c /\ l[i].page = p}
ReplayedIn(f, l, c, p) ==
    IF LoggedIn(l, c, p) = {} THEN f[p]
    ELSE l[CHOOSE i \in LoggedIn(l, c, p) : \A j \in LoggedIn(l, c, p) : j <= i].img

\* A nonempty set of numbers up to b has a greatest member.
LEMMA GreatestExists ==
    ASSUME NEW b \in Nat, NEW S \in SUBSET (1 .. b), S # {}
    PROVE  \E n \in S : \A m \in S : m <= n
<1> DEFINE Gaps == {b - n : n \in S}
           R == OpToRel(<, Nat)
<1>1. Gaps \subseteq Nat /\ Gaps # {}
  <2>1. \A n \in S : b - n \in Nat
    OBVIOUS
  <2> QED BY <2>1
<1>2. \A m, n \in Nat : m < n => <<m, n>> \in R
  BY DEF OpToRel
<1>3. PICK g \in Gaps : \A h \in Gaps : ~(<<h, g>> \in R)
  BY <1>1, NatLessThanWellFounded, WFMin
<1> HIDE DEF R
<1>4. \A h \in Gaps : ~(h < g)
  BY <1>1, <1>2, <1>3
<1>5. PICK n \in S : g = b - n
  BY <1>3
<1>6. \A m \in S : ~(b - m < b - n)
  BY <1>4, <1>5
<1> QED BY <1>6

\* The last entry for a page decides what replay makes of it.
LEMMA LastEntryWins ==
    ASSUME NEW f, NEW l \in Seq(Entry), NEW c, NEW p, NEW i \in LoggedIn(l, c, p),
           \A j \in LoggedIn(l, c, p) : j <= i
    PROVE  ReplayedIn(f, l, c, p) = l[i].img
<1> DEFINE L == LoggedIn(l, c, p)
           k == CHOOSE n \in L : \A j \in L : j <= n
<1>1. k \in L /\ \A j \in L : j <= k
  OBVIOUS
<1>2. L \subseteq Nat
  BY DEF LoggedIn
<1>3. k = i
  BY <1>1, <1>2
<1> QED BY <1>3 DEF ReplayedIn

\* A page that has entries has a last one.
LEMMA LastEntryExists ==
    ASSUME NEW l \in Seq(Entry), NEW c, NEW p, LoggedIn(l, c, p) # {}
    PROVE  \E i \in LoggedIn(l, c, p) : \A j \in LoggedIn(l, c, p) : j <= i
<1>1. LoggedIn(l, c, p) \in SUBSET (1 .. Len(l)) /\ Len(l) \in Nat
  BY DEF LoggedIn
<1> QED BY <1>1, GreatestExists

\* Logs with the same entries for a page give the same image of it.
LEMMA SameEntries ==
    ASSUME NEW f, NEW l \in Seq(Entry), NEW m \in Seq(Entry), NEW c, NEW d, NEW p,
           LoggedIn(l, c, p) = LoggedIn(m, d, p), \A i \in LoggedIn(l, c, p) : l[i] = m[i]
    PROVE  ReplayedIn(f, l, c, p) = ReplayedIn(f, m, d, p)
<1>1. CASE LoggedIn(l, c, p) = {}
  BY <1>1 DEF ReplayedIn
<1>2. CASE LoggedIn(l, c, p) # {}
  <2>1. PICK i \in LoggedIn(l, c, p) : \A j \in LoggedIn(l, c, p) : j <= i
    BY <1>2, LastEntryExists
  <2>2. ReplayedIn(f, l, c, p) = l[i].img
    BY <2>1, LastEntryWins
  <2>3. ReplayedIn(f, m, d, p) = m[i].img
    BY <2>1, LastEntryWins
  <2> QED BY <2>1, <2>2, <2>3
<1> QED BY <1>1, <1>2

\* append_page_image decides its own page and no other.
LEMMA AppendDecides ==
    ASSUME NEW f, NEW l \in Seq(Entry), NEW e \in Entry, NEW p, NEW c \in Nat, c <= Len(l)
    PROVE  /\ p = e.page => /\ ReplayedIn(f, InSlot(l, c + 1, e), c + 1, p) = e.img
                            /\ LoggedIn(InSlot(l, c + 1, e), c + 1, p) # {}
           /\ p # e.page => /\ ReplayedIn(f, InSlot(l, c + 1, e), c + 1, p) = ReplayedIn(f, l, c, p)
                            /\ LoggedIn(InSlot(l, c + 1, e), c + 1, p) = LoggedIn(l, c, p)
<1> DEFINE m == InSlot(l, c + 1, e)
           n == c + 1
<1>0. n \in 1 .. Len(l) + 1
  OBVIOUS
<1>1. /\ m \in Seq(Entry) /\ n <= Len(m) /\ Len(l) <= Len(m) /\ m[n] = e /\ n \in Nat /\ Len(l) \in Nat
      /\ \A i \in 1 .. Len(l) : i # n => m[i] = l[i]
  <2>1. /\ m \in Seq(Entry) /\ m[n] = e
        /\ Len(m) = IF n > Len(l) THEN n ELSE Len(l)
        /\ \A i \in 1 .. Len(l) : i # n => m[i] = l[i]
    BY <1>0, InSlotIs
  <2> HIDE DEF m
  <2>2. Len(l) \in Nat /\ n \in Nat
    OBVIOUS
  <2>3. n <= Len(m) /\ Len(l) <= Len(m)
    BY ONLY <2>1, <2>2
  <2> QED BY ONLY <2>1, <2>2, <2>3
<1> HIDE DEF m
<1>2. CASE p = e.page
  <2>1. n \in LoggedIn(m, n, p) /\ \A j \in LoggedIn(m, n, p) : j <= n
    BY <1>1, <1>2 DEF LoggedIn
  <2> HIDE DEF n
  <2>2. ReplayedIn(f, m, n, p) = m[n].img
    BY <1>1, <2>1, LastEntryWins
  <2> QED BY <1>1, <1>2, <2>1, <2>2 DEF m, n
<1>3. CASE p # e.page
  <2>1. LoggedIn(m, n, p) = LoggedIn(l, c, p)
    BY <1>1, <1>3 DEF LoggedIn
  <2>2. \A i \in LoggedIn(m, n, p) : m[i] = l[i]
    BY <1>1, <2>1 DEF LoggedIn
  <2>3. ReplayedIn(f, m, n, p) = ReplayedIn(f, l, c, p)
    BY <1>1, <2>1, <2>2, SameEntries
  <2> QED BY <1>3, <2>1, <2>3 DEF m, n
<1> QED BY <1>2, <1>3

-----------------------------------------------------------------------------
(* The log, the file and the cache *)

\* Every entry of a log is half written or holds an image.
Filled(l) == \A i \in 1 .. Len(l) : l[i] = Torn \/ l[i].img # 0

\* Page 0 is the registry's, it is in the file and on the platter; no log entry
\* is empty; and only entries with a valid checksum are counted where appends go
\* on and where a replay reads.
ZeroInv ==
    /\ owner[0] = Registry /\ file[0] # 0 /\ disk[0] # 0
    /\ Filled(log) /\ Filled(walDisk.log)
    /\ phase \in {"up", "replay"} => \A i \in 1 .. count : log[i] # Torn

\* append_page_image keeps a log filled, and every counted entry valid.
LEMMA AppendNonempty ==
    ASSUME NEW l \in Seq(Entry), NEW c \in Nat, c <= Len(l), NEW e \in Entry, e.img # 0,
           Filled(l), \A i \in 1 .. c : l[i] # Torn
    PROVE  /\ Filled(InSlot(l, c + 1, e))
           /\ \A i \in 1 .. c + 1 : InSlot(l, c + 1, e)[i] # Torn
<1> DEFINE m == InSlot(l, c + 1, e)
<1>0. c + 1 \in 1 .. Len(l) + 1 /\ e # Torn /\ Len(l) \in Nat
  BY DEF Torn
<1>1. /\ Len(m) = IF c + 1 > Len(l) THEN c + 1 ELSE Len(l)
      /\ m[c + 1] = e
      /\ \A i \in 1 .. Len(l) : i # c + 1 => m[i] = l[i]
  BY <1>0, InSlotIs
<1>2. \A i \in 1 .. Len(m) : i # c + 1 => i \in 1 .. Len(l)
  BY ONLY <1>0, <1>1, c \in Nat, c <= Len(l)
<1> HIDE DEF m
<1>3. \A i \in 1 .. Len(m) : m[i] = Torn \/ m[i].img # 0
  BY <1>1, <1>2 DEF Filled
<1>4. \A i \in 1 .. c + 1 : m[i] # Torn
  BY <1>0, <1>1
<1> QED BY <1>3, <1>4 DEF m, Filled

\* A database as a clean shutdown left it has its page 0.
LEMMA ZeroInit == Init => ZeroInv
<1> SUFFICES ASSUME Init PROVE ZeroInv
  OBVIOUS
<1>1. ~ \E tb \in Tables : RootOf[tb] = 0
  BY RootsAssumption
<1>2. owner[0] = Registry /\ file[0] # 0 /\ disk = file
  BY <1>1, RootsAssumption DEF Init, InitialPages
<1>3. log = <<>> /\ walDisk.log = <<>> /\ count = 0
  BY DEF Init
<1> QED BY <1>2, <1>3 DEF ZeroInv, Filled

\* Nobody else is given page 0, and neither flush, replay nor a power failure
\* empties it.
LEMMA ZeroStep == TypeInv /\ FreshInv /\ OwnInv /\ ZeroInv /\ [Next]_vars => ZeroInv'
<1> SUFFICES ASSUME TypeInv, FreshInv, OwnInv, ZeroInv, [Next]_vars PROVE ZeroInv'
  OBVIOUS
<1> USE RootsAssumption DEF TypeInv, TypeOK, ZeroInv
<1>1. CASE UNCHANGED <<owner, file, disk, log, walDisk, count, phase>>
  BY <1>1
<1>2. ASSUME NEW t \in Threads, NEW S \in SUBSET Page, NEW k \in 0 .. 1, Mutate(t, S, k) PROVE ZeroInv'
  <2>1. numPages > 0
    BY <1>2 DEF Mutate, FreshInv
  <2>2. 0 \notin AllocatedBy(k)
    BY <2>1 DEF AllocatedBy
  <2> QED BY <1>2, <2>2 DEF Mutate, pageVars, walVars, lifeVars
<1>3. ASSUME NEW t \in Threads, NEW p \in Page, AppendPageImage(t, p) PROVE ZeroInv'
  <2> DEFINE e == [page |-> p, img |-> img[t]]
  <2>1. /\ log \in Seq(Entry) /\ e \in Entry /\ e.img # 0 /\ log' = InSlot(log, count + 1, e)
        /\ count' = count + 1 /\ count \in Nat /\ count <= Len(log)
        /\ Filled(log) /\ \A i \in 1 .. count : log[i] # Torn
    BY <1>3 DEF AppendPageImage, OwnInv, Committing, Entry
  <2> HIDE DEF e
  <2>2. Filled(log') /\ \A i \in 1 .. count' : log'[i] # Torn
    BY ONLY <2>1, AppendNonempty
  <2>3. UNCHANGED <<owner, file, disk, walDisk>>
    BY <1>3 DEF AppendPageImage, pageVars, ghostVars
  <2> QED BY <2>2, <2>3
<1>4. ASSUME FlushPage PROVE ZeroInv'
  BY <1>4 DEF FlushPage, walVars, ghostVars
<1>5. ASSUME SyncData \/ TruncateHeader PROVE ZeroInv'
  BY <1>5 DEF SyncData, TruncateHeader, pageVars, walVars, ghostVars
<1>6. ASSUME TruncateEntries PROVE ZeroInv'
  <2>1. Filled(log')
    BY <1>6 DEF TruncateEntries, Filled
  <2> QED BY <1>6, <2>1 DEF TruncateEntries, pageVars, ghostVars
<1>7. ASSUME NEW t \in Threads, FinishLog(t) PROVE ZeroInv'
  <2>1. walDisk'.log = log \/ walDisk' = walDisk
    BY <1>7 DEF FinishLog, Synced
  <2> QED BY <1>7, <2>1 DEF FinishLog, pageVars, lifeVars, ghostVars
<1>8. ASSUME SyncWal PROVE ZeroInv'
  <2>1. walDisk'.log = log
    BY <1>8 DEF SyncWal
  <2> QED BY <1>8, <2>1 DEF SyncWal, pageVars, ghostVars
<1>9. ASSUME OpenDirty \/ OpenClean PROVE ZeroInv'
  <2>1. UNCHANGED <<owner, file, disk, log, walDisk, count>>
    BY <1>9 DEF OpenDirty, OpenClean, pageVars, walVars, ghostVars
  <2>2. phase' \in {"up", "replay"} => \A i \in 1 .. count : log[i] # Torn
    BY <1>9 DEF OpenDirty, OpenClean, Readable
  <2> QED BY <2>1, <2>2
<1>10. ASSUME ReplayEntry PROVE ZeroInv'
  <2>1. cursor \in 1 .. Len(log) /\ cursor \in 1 .. count /\ phase = "replay"
    BY <1>10 DEF ReplayEntry
  <2>2. log[cursor].img # 0
    BY <2>1 DEF Filled
  <2> QED BY <1>10, <2>2 DEF ReplayEntry, walVars, ghostVars
<1>11. ASSUME NEW t \in Threads,
             BeginWrite(t) \/ Publish(t) \/ Release(t) \/ LockWal(t) \/ Return(t) \/ ErrorExit(t)
               \/ PersistRegistry(t) \/ \E tb \in Tables : LockTable(t, tb) \/ CommitTransaction(t, tb)
      PROVE  UNCHANGED <<owner, file, disk, log, walDisk, count, phase>>
  BY <1>11 DEF BeginWrite, Publish, Release, LockWal, Return, PersistRegistry, LockTable, CommitTransaction, ErrorExit,
              pageVars, walVars, lifeVars, ghostVars
<1>12. ASSUME NEW r \in Readers, Read(r)
       PROVE UNCHANGED <<owner, file, disk, log, walDisk, count, phase>>
  BY <1>12 DEF Read, ReadMiss, ReadFromDisk, InsertRead, pageVars, walVars, lifeVars, ghostVars
<1>13. ASSUME Drop \/ ProcessCrash PROVE ZeroInv'
  BY <1>13 DEF Drop, ProcessCrash, Forget, walVars
<1>14. ASSUME PowerFailure PROVE ZeroInv'
  <2>1. /\ walDisk'.log = log'
        /\ \A i \in 1 .. Len(log') : \/ log'[i] = Torn
                                     \/ i \in 1 .. Len(log) /\ log'[i] = log[i]
                                     \/ i \in 1 .. Len(walDisk.log) /\ log'[i] = walDisk.log[i]
    BY <1>14, PlatterLog
  <2>2. Filled(log') /\ Filled(walDisk'.log)
    BY <2>1 DEF Filled
  <2>3. owner' = owner /\ phase' = "down" /\ disk' = file' /\ file'[0] # 0
    BY <1>14 DEF PowerFailure, Forget
  <2> QED BY <2>2, <2>3
<1>15. CASE UNCHANGED vars
  BY <1>1, <1>15 DEF vars, pageVars, walVars, lifeVars, ghostVars
<1> QED BY <1>1, <1>2, <1>3, <1>4, <1>5, <1>6, <1>7, <1>8, <1>9, <1>10, <1>11, <1>12, <1>13, <1>14,
           <1>15 DEF Next, Step, Open, Shut

Waiting(p) == \E t \in Threads : p \in todo[t]
DataPage == Page \ {0}

\* For every page but the registry's: while the handle is open, what readers
\* see is what replay would give, unless a commit still has to log the page; a
\* commit's pages stay in the cache as it published them; logged pages are
\* cached.  Shutdown and recovery bring the file to what replay would give before
\* they cut the log.
LogInv ==
    /\ phase \in {"up", "flush"} => \A p \in DataPage : Waiting(p) \/ View(p) = Replayed(p)
    /\ \A t \in Threads : pc[t] \in Committing =>
          \A p \in writes[img[t]] \cap DataPage : cache[p] = img[t]
    /\ phase = "up" => \A p \in DataPage : cache[p] = 0 => Logged(p) = {}
    /\ phase = "flush" => \A p \in DataPage : p < cursor => file[p] = View(p)
    /\ phase = "replay" => \A p \in DataPage : \A i \in Logged(p) :
          i < cursor /\ (\A j \in Logged(p) : j < cursor => j <= i) => file[p] = log[i].img
    /\ phase = "truncate" => \A p \in DataPage : file[p] = Replayed(p)
    /\ phase \in {"header", "walsync"} => log = <<>>

\* A step that is no power failure leaves what replay would give, or, appending a
\* page's image, makes it what readers see.
ReplayMoves ==
    \A p \in DataPage : \/ Replayed(p)' = Replayed(p)
                        \/ phase = "up" /\ Replayed(p)' = View(p)

\* In terms of the operators above.
LEMMA ReplayedDefs ==
    /\ \A p : Logged(p) = LoggedIn(log, count, p) /\ Replayed(p) = ReplayedIn(file, log, count, p)
    /\ \A p : Logged(p)' = LoggedIn(log', count', p) /\ Replayed(p)' = ReplayedIn(file', log', count', p)
BY DEF Logged, Replayed, LoggedIn, ReplayedIn

\* At the start the log is empty and the cache too.
LEMMA LogInit == Init => LogInv
<1> SUFFICES ASSUME Init PROVE LogInv
  OBVIOUS
<1>1. \A p \in Page : Logged(p) = {} /\ Replayed(p) = file[p] /\ View(p) = file[p] /\ acked[p] = file[p]
  BY DEF Init, Logged, Replayed, View
<1>2. \A p \in Page : file[p] \in Nat
  BY DEF Init
<1> QED BY <1>1, <1>2 DEF Init, LogInv, DataPage, Committing

\* A step that leaves the cache, the file, the log and what is still to be logged alone.
LEMMA LogFrame ==
    ASSUME LogInv, UNCHANGED <<cache, file, log, count, phase, cursor, todo>>,
           \A t \in Threads : pc'[t] \in Committing =>
              pc[t] \in Committing /\ img'[t] = img[t] /\ writes'[img[t]] = writes[img[t]]
    PROVE  LogInv' /\ ReplayMoves
<1>1. \A p : Logged(p)' = Logged(p) /\ Replayed(p)' = Replayed(p) /\ View(p)' = View(p)
             /\ Waiting(p)' = Waiting(p)
  BY DEF Logged, Replayed, View, Waiting
<1> QED BY <1>1 DEF LogInv, ReplayMoves

\* Outside an open handle nobody waits to log a page.
LEMMA NobodyWaits ==
    ASSUME FreshInv, \A t \in Threads : pc[t] = "idle"
    PROVE  \A p : ~Waiting(p)
BY DEF FreshInv, Waiting

\* Publishing a commit leaves replay as it was; its pages now wait to be logged.
LEMMA LogPublish ==
    ASSUME Setting, TypeInv, ImageInv, FreshInv, OwnInv, OwnInv', LogInv, ~raced, NEW t \in Threads, Publish(t)
    PROVE  LogInv' /\ ReplayMoves
<1> USE DEF TypeInv, TypeOK
<1>1. /\ phase = "up" /\ phase' = "up" /\ commits \in Nat
      /\ cache' = [p \in Page |-> IF p \in dirty THEN commits + 1 ELSE cache[p]]
      /\ todo' = [todo EXCEPT ![t] = dirty] /\ img' = [img EXCEPT ![t] = commits + 1]
      /\ pc' = [pc EXCEPT ![t] = "published"] /\ pc[t] = "mutated" /\ todo[t] = {}
      /\ UNCHANGED <<file, log, count, acked, owner, op, lock, dirty>>
  BY DEF Publish, guardVars, walVars, lifeVars, FreshInv
<1>2. \A p : Logged(p)' = Logged(p) /\ Replayed(p)' = Replayed(p)
  BY <1>1 DEF Logged, Replayed
<1>3. \A p \in Page : Waiting(p)' <=> Waiting(p) \/ p \in dirty
  BY <1>1 DEF Waiting
<1>4. \A p \in Page : p \notin dirty => View(p)' = View(p)
  BY <1>1 DEF View
<1>5. ASSUME NEW u \in Threads, pc'[u] \in Committing, NEW p \in writes'[img'[u]] \cap DataPage
      PROVE  cache'[p] = img'[u]
  <2>1. p \in DataPage /\ Own(u, p)'
    BY <1>5 DEF OwnInv
  <2>2. CASE u = t
    <3>1. p \in dirty
      BY <1>1, <1>5, <2>2 DEF OwnInv
    <3> QED BY <1>1, <2>2, <3>1
  <2>3. CASE u # t
    <3>1. img'[u] = img[u] /\ pc'[u] = pc[u] /\ img[u] # commits + 1
      BY <1>1, <2>3 DEF ImageInv
    <3>2. writes'[img[u]] = writes[img[u]]
      <4>1. img[u] \in Image
        BY <1>5, <3>1 DEF OwnInv
      <4> QED BY <3>1, <4>1 DEF Publish
    <3>3. cache[p] = img[u]
      BY <1>5, <3>1, <3>2 DEF LogInv
    <3>4. p \notin dirty
      <4>1. SUFFICES ASSUME p \in dirty PROVE FALSE
        OBVIOUS
      <4>2. Own(t, p) /\ pc[t] # "idle"
        BY <1>1, <4>1 DEF OwnInv
      <4>3. Own(u, p) /\ pc[u] # "idle"
        BY <1>1, <1>5, <2>1, <3>1 DEF Own, Committing
      <4> QED BY <2>1, <2>3, <4>2, <4>3, OneCommitter DEF DataPage
    <3> QED BY <1>1, <3>1, <3>3, <3>4, <2>1 DEF DataPage
  <2> QED BY <2>2, <2>3
<1>6. \A p \in DataPage : Waiting(p)' \/ View(p)' = Replayed(p)'
  BY <1>1, <1>2, <1>3, <1>4 DEF LogInv, DataPage
<1>7. \A p \in DataPage : cache'[p] = 0 => Logged(p)' = {}
  BY <1>1, <1>2 DEF LogInv, DataPage
<1> QED BY <1>1, <1>2, <1>5, <1>6, <1>7 DEF LogInv, ReplayMoves

\* Appending a page's image is what that page was waiting for.
LEMMA LogAppend ==
    ASSUME TypeInv, FreshInv, OwnInv, LogInv, NEW t \in Threads, NEW q \in Page, AppendPageImage(t, q)
    PROVE  LogInv' /\ ReplayMoves
<1> DEFINE e == [page |-> q, img |-> img[t]]
<1>1. /\ phase = "up" /\ phase' = "up" /\ log' = InSlot(log, count + 1, e) /\ count' = count + 1
      /\ pc[t] = "logging" /\ q \in todo[t] /\ todo' = [todo EXCEPT ![t] = @ \ {q}]
      /\ UNCHANGED <<cache, file, pc, img, writes>>
  BY DEF AppendPageImage, pageVars, lifeVars, ghostVars
<1>2. log \in Seq(Entry) /\ e \in Entry /\ e.page = q /\ e.img = img[t]
      /\ count \in Nat /\ count <= Len(log)
      /\ todo \in [Threads -> SUBSET Page] /\ cache \in [Page -> Nat]
  BY <1>1 DEF TypeInv, TypeOK, Entry
<1> HIDE DEF e
<1>3. /\ Replayed(q)' = img[t]
      /\ \A p : p # q => Replayed(p)' = Replayed(p) /\ Logged(p)' = Logged(p)
  <2>1. /\ ReplayedIn(file, log', count', q) = img[t]
        /\ \A p : p # q => /\ ReplayedIn(file, log', count', p) = ReplayedIn(file, log, count, p)
                           /\ LoggedIn(log', count', p) = LoggedIn(log, count, p)
    BY <1>1, <1>2, AppendDecides
  <2> QED BY <1>1, <2>1, ReplayedDefs, Zenon
<1>4. \A p : View(p)' = View(p)
  BY <1>1 DEF View
<1>5. \A p : p # q => (Waiting(p)' <=> Waiting(p))
  BY <1>1, <1>2 DEF Waiting
<1>6. q \in DataPage => View(q) = img[t] /\ cache[q] = img[t] /\ cache[q] # 0
  <2>1. q \in writes[img[t]] /\ img[t] # 0
    BY <1>1 DEF OwnInv, Committing
  <2>2. q \in DataPage => cache[q] = img[t]
    BY <1>1, <2>1 DEF LogInv, Committing
  <2> QED BY <2>1, <2>2 DEF View
<1>7. \A p \in DataPage : Waiting(p)' \/ View(p)' = Replayed(p)'
  BY <1>1, <1>3, <1>4, <1>5, <1>6 DEF LogInv
<1>8. \A p \in DataPage : cache'[p] = 0 => Logged(p)' = {}
  BY <1>1, <1>3, <1>6 DEF LogInv
<1> QED BY <1>1, <1>3, <1>6, <1>7, <1>8 DEF LogInv, ReplayMoves

\* A commit that has logged all its pages may be acknowledged.
LEMMA LogReturn ==
    ASSUME TypeInv, FreshInv, OwnInv, LogInv, ~raced, NEW t \in Threads, Return(t)
    PROVE  /\ LogInv' /\ \A p \in DataPage : Replayed(p)' = Replayed(p) /\ View(p)' = View(p)
           /\ \A p \in DataPage : acked'[p] = acked[p] \/ (acked'[p] = Replayed(p) /\ acked'[p] = View(p))
<1> USE DEF TypeInv, TypeOK
<1>1. /\ phase = "up" /\ phase' = "up" /\ pc[t] = "logged" /\ pc' = [pc EXCEPT ![t] = "idle"]
      /\ todo' = [todo EXCEPT ![t] = {}] /\ img' = [img EXCEPT ![t] = 0]
      /\ acked' = [p \in Page |-> IF p \in writes[img[t]] /\ acked[p] < img[t] THEN img[t] ELSE acked[p]]
      /\ UNCHANGED <<cache, file, log, count, cursor, writes>>
  BY DEF Return, pageVars, walVars, lifeVars
<1>2. todo[t] = {} /\ todo' = todo
  BY <1>1 DEF OwnInv
<1>3. \A p : Logged(p)' = Logged(p) /\ Replayed(p)' = Replayed(p) /\ View(p)' = View(p)
             /\ Waiting(p)' = Waiting(p)
  BY <1>1, <1>2 DEF Logged, Replayed, View, Waiting
<1>4. ASSUME NEW p \in writes[img[t]] \cap DataPage PROVE Replayed(p) = img[t] /\ View(p) = img[t]
  <2>1. View(p) = img[t] /\ p \in DataPage
    BY <1>1 DEF LogInv, OwnInv, Committing, View
  <2>2. ~Waiting(p)
    <3>1. SUFFICES ASSUME NEW u \in Threads, p \in todo[u] PROVE FALSE
      BY DEF Waiting
    <3>2. pc[u] \in Committing
      BY <3>1, <1>2 DEF FreshInv, OwnInv, Committing
    <3>3. Own(u, p) /\ Own(t, p)
      BY <1>1, <3>1, <3>2 DEF OwnInv, Committing
    <3>4. u = t
      BY <1>1, <2>1, <3>2, <3>3, OneCommitter DEF DataPage, Committing
    <3> QED BY <1>2, <3>1, <3>4
  <2> QED BY <1>1, <2>1, <2>2 DEF LogInv
<1>5. \A p \in DataPage : acked'[p] = acked[p] \/ (acked'[p] = Replayed(p) /\ acked'[p] = View(p))
  BY <1>1, <1>4 DEF DataPage
<1>6. \A u \in Threads : pc'[u] \in Committing => pc[u] \in Committing /\ img'[u] = img[u]
  BY <1>1 DEF Committing
<1> QED BY ZenonT(30), <1>1, <1>3, <1>5, <1>6 DEF LogInv

\* Filling a cache slot from disk changes nothing that a reader sees.
LEMMA LogInsertRead ==
    ASSUME TypeInv, ImageInv, OwnInv, LogInv, NEW r \in Readers, InsertRead(r)
    PROVE  LogInv' /\ ReplayMoves
<1>1. /\ cache' = [cache EXCEPT ![rpage[r]] = IF @ # 0 THEN @ ELSE file[rpage[r]]]
      /\ UNCHANGED <<file, log, count, phase, cursor, todo, pc, img, writes>> /\ phase = "up"
  BY DEF InsertRead, FillSlot, ImageInv, walVars, threadVars, lifeVars, ghostVars
<1>2. cache \in [Page -> Nat] /\ rpage[r] \in Page
  BY DEF TypeInv, TypeOK
<1>3. \A p \in Page : View(p)' = View(p) /\ (cache[p] # 0 => cache'[p] = cache[p])
  BY <1>1, <1>2 DEF View
<1>4. \A p : Logged(p)' = Logged(p) /\ Replayed(p)' = Replayed(p) /\ Waiting(p)' = Waiting(p)
  BY <1>1 DEF Logged, Replayed, Waiting
<1>5. \A t \in Threads : pc[t] \in Committing => \A p \in writes[img[t]] \cap DataPage : cache'[p] = img[t]
  BY <1>3 DEF LogInv, OwnInv, DataPage
<1>6. \A p \in DataPage : cache'[p] = 0 => Logged(p)' = {}
  BY <1>1, <1>3, <1>4 DEF LogInv, DataPage
<1> QED BY <1>1, <1>3, <1>4, <1>5, <1>6 DEF LogInv, ReplayMoves, DataPage

\* Drop publishes page 0 only, and sync_all writes what replay would give.
LEMMA LogShut ==
    ASSUME TypeInv, FreshInv, OwnInv, LogInv, Drop \/ Shut
    PROVE  LogInv' /\ ReplayMoves
<1> USE DEF TypeInv, TypeOK
<1>0. ASSUME phase # "up" PROVE \A t \in Threads : pc[t] = "idle"
  BY <1>0 DEF FreshInv
<1>1. ASSUME Drop PROVE LogInv' /\ ReplayMoves
  <2>1. (\A t \in Threads : pc[t] = "idle" /\ pc'[t] = "idle") /\ holder \in Threads \cup {Nobody}
    BY <1>1 DEF Drop, Quiet, threadVars
  <2>2. dirty = {}
    BY <2>1 DEF FreshInv, OwnInv, GuardOpen
  <2>3. /\ phase = "up" /\ phase' = "flush" /\ cursor' = 0
        /\ cache' = [p \in Page |-> IF p = 0 THEN commits + 1 ELSE cache[p]]
        /\ UNCHANGED <<file, log, count, todo>>
    BY <1>1, <2>2 DEF Drop, walVars, threadVars
  <2>4. \A p : Logged(p)' = Logged(p) /\ Replayed(p)' = Replayed(p) /\ Waiting(p)' = Waiting(p)
    BY <2>3 DEF Logged, Replayed, Waiting
  <2>5. \A p \in DataPage : View(p)' = View(p)
    BY <2>3 DEF View, DataPage
  <2>6. \A p \in DataPage : ~(p < cursor')
    BY <2>3 DEF DataPage, Page
  <2> QED BY <2>1, <2>3, <2>4, <2>5, <2>6 DEF LogInv, ReplayMoves, Committing
<1>2. ASSUME FlushPage PROVE LogInv' /\ ReplayMoves
  <2>1. /\ phase = "flush" /\ phase' = "flush" /\ cursor' = cursor + 1 /\ cursor \in Page
        /\ file' = [file EXCEPT ![cursor] = IF cache[cursor] # 0 THEN cache[cursor] ELSE @]
        /\ UNCHANGED <<cache, log, count, todo, pc>>
    BY <1>2 DEF FlushPage, walVars, threadVars, ghostVars
  <2>2. \A p \in Page : View(p)' = View(p) /\ (p # cursor => file'[p] = file[p])
    BY <2>1 DEF View
  <2>3. file'[cursor] = View(cursor)
    BY <2>1 DEF View
  <2>4. \A p \in DataPage : View(p) = Replayed(p)
    BY <1>0, <2>1, NobodyWaits DEF LogInv
  <2>5. \A p \in DataPage : Replayed(p)' = Replayed(p)
    <3> SUFFICES ASSUME NEW p \in DataPage PROVE Replayed(p)' = Replayed(p)
      OBVIOUS
    <3>1. Logged(p)' = Logged(p)
      BY <2>1 DEF Logged
    <3>2. CASE Logged(p) # {}
      BY <2>1, <3>1, <3>2 DEF Replayed
    <3>3. CASE Logged(p) = {}
      <4>1. Replayed(p)' = file'[p] /\ Replayed(p) = file[p]
        BY <3>1, <3>3 DEF Replayed
      <4> QED BY <2>2, <2>3, <2>4, <4>1 DEF DataPage
    <3> QED BY <3>2, <3>3
  <2>6. \A p \in DataPage : p < cursor' => file'[p] = View(p)'
    <3> SUFFICES ASSUME NEW p \in DataPage, p < cursor' PROVE file'[p] = View(p)'
      OBVIOUS
    <3>1. p = cursor \/ p < cursor
      BY <2>1 DEF DataPage, Page
    <3>2. p < cursor => file[p] = View(p)
      BY <2>1 DEF LogInv
    <3>3. p < cursor => p # cursor
      BY <2>1 DEF Page
    <3> QED BY <2>2, <2>3, <3>1, <3>2, <3>3 DEF DataPage
  <2>7. \A t \in Threads : pc'[t] = "idle"
    BY <1>0, <2>1
  <2> QED BY SMTT(30), <2>1, <2>2, <2>4, <2>5, <2>6, <2>7 DEF LogInv, ReplayMoves, Committing, DataPage
<1>3. ASSUME SyncData PROVE LogInv' /\ ReplayMoves
  <2>1. /\ phase \in {"flush", "replay"} /\ phase' = "truncate"
        /\ UNCHANGED <<cache, file, log, count, todo, pc>>
    BY <1>3 DEF SyncData, walVars, threadVars, ghostVars
  <2>2. \A p : Logged(p)' = Logged(p) /\ Replayed(p)' = Replayed(p)
    BY <2>1 DEF Logged, Replayed
  <2>3. ASSUME NEW p \in DataPage PROVE file[p] = Replayed(p)
    <3>1. CASE phase = "flush"
      <4>1. cursor = MaxPages /\ p < MaxPages
        BY <1>3, <3>1, BoundsAssumption DEF SyncData, DataPage, Page
      <4>2. View(p) = Replayed(p)
        BY <1>0, <3>1, NobodyWaits DEF LogInv
      <4> QED BY <3>1, <4>1, <4>2 DEF LogInv
    <3>2. CASE phase = "replay" /\ Logged(p) = {}
      BY <3>2 DEF Replayed
    <3>3. CASE phase = "replay" /\ Logged(p) # {}
      <4>1. PICK i \in Logged(p) : \A j \in Logged(p) : j <= i
        BY <3>3, LastEntryExists, ReplayedDefs
      <4>2. Replayed(p) = log[i].img
        BY <4>1, LastEntryWins, ReplayedDefs
      <4>3. i < cursor
        BY <1>3, <3>3, <4>1 DEF SyncData, Logged
      <4> QED BY <3>3, <4>1, <4>2, <4>3 DEF LogInv
    <3> QED BY <2>1, <3>1, <3>2, <3>3
  <2>4. \A t \in Threads : pc'[t] = "idle"
    BY <1>0, <2>1
  <2> QED BY <2>1, <2>2, <2>3, <2>4 DEF LogInv, ReplayMoves, Committing
<1>4. ASSUME TruncateEntries PROVE LogInv' /\ ReplayMoves
  <2>1. phase = "truncate" /\ phase' = "header" /\ log' = <<>> /\ UNCHANGED <<file, pc>>
    BY <1>4 DEF TruncateEntries, pageVars, threadVars, ghostVars
  <2>2. \A p \in DataPage : Replayed(p)' = Replayed(p)
    <3>1. \A p : Logged(p)' = {}
      BY <2>1 DEF Logged
    <3>2. \A p : Replayed(p)' = file[p]
      BY <2>1, <3>1 DEF Replayed
    <3> QED BY <2>1, <3>2 DEF LogInv
  <2>3. \A t \in Threads : pc'[t] = "idle"
    BY <1>0, <2>1
  <2> QED BY <2>1, <2>2, <2>3 DEF LogInv, ReplayMoves, Committing
<1>5. ASSUME TruncateHeader \/ SyncWal PROVE LogInv' /\ ReplayMoves
  <2>1. /\ phase \in {"header", "walsync"} /\ phase' \in {"walsync", "down"} /\ log = <<>>
        /\ UNCHANGED <<log, file, pc>>
    BY <1>5 DEF TruncateHeader, SyncWal, pageVars, threadVars, ghostVars, LogInv
  <2>2. \A p \in DataPage : Replayed(p)' = Replayed(p)
    BY <2>1 DEF Replayed, Logged
  <2>3. \A t \in Threads : pc'[t] = "idle"
    BY <1>0, <2>1
  <2> QED BY <2>1, <2>2, <2>3 DEF LogInv, ReplayMoves, Committing
<1> QED BY <1>1, <1>2, <1>3, <1>4, <1>5 DEF Shut

\* A process crash leaves the file and the log; recovery replays them in order.
LEMMA LogOpen ==
    ASSUME TypeInv, FreshInv, LogInv, ProcessCrash \/ Open
    PROVE  LogInv' /\ ReplayMoves
<1> USE DEF TypeInv, TypeOK
<1>1. ASSUME ProcessCrash PROVE LogInv' /\ ReplayMoves
  <2>1. phase' = "down" /\ (\A t \in Threads : pc'[t] = "idle") /\ UNCHANGED <<file, log, count>>
    BY <1>1 DEF ProcessCrash, Forget
  <2>2. \A p : Replayed(p)' = Replayed(p)
    BY <2>1 DEF Logged, Replayed
  <2> QED BY <2>1, <2>2 DEF LogInv, ReplayMoves, Committing
<1>2. ASSUME Open PROVE phase # "up" /\ UNCHANGED <<pc>> /\ \A t \in Threads : pc[t] = "idle"
  BY <1>2 DEF Open, OpenClean, OpenDirty, ReplayEntry, threadVars, ghostVars, FreshInv
<1>3. ASSUME OpenClean PROVE LogInv' /\ ReplayMoves
  <2>1. /\ phase' = "up" /\ count = 0 /\ UNCHANGED <<log, count, file>>
        /\ cache' = [p \in Page |-> 0]
    BY <1>3 DEF OpenClean, walVars
  <2>2. \A p \in Page : Logged(p)' = {} /\ Logged(p) = {}
    BY SMTT(30), <2>1 DEF Logged
  <2>3. \A p \in Page : Replayed(p)' = file[p] /\ Replayed(p) = file[p] /\ View(p)' = file[p]
    BY <2>1, <2>2 DEF Replayed, View
  <2>4. \A t \in Threads : pc'[t] = "idle"
    BY <1>2, <1>3 DEF Open
  <2> QED BY <2>1, <2>2, <2>3, <2>4 DEF LogInv, ReplayMoves, Committing, DataPage
<1>4. ASSUME OpenDirty PROVE LogInv' /\ ReplayMoves
  <2>1. phase' \in {"replay", "failed"} /\ cursor' = 1 /\ UNCHANGED <<file, log, count>>
    BY <1>4 DEF OpenDirty, pageVars, walVars, ghostVars
  <2>2. \A p : Replayed(p)' = Replayed(p) /\ Logged(p)' = Logged(p)
    BY <2>1 DEF Logged, Replayed
  <2>3. \A p : \A i \in Logged(p) : ~(i < 1)
    BY DEF Logged
  <2>4. \A t \in Threads : pc'[t] = "idle"
    BY <1>2, <1>4 DEF Open
  <2> QED BY <2>1, <2>2, <2>3, <2>4 DEF LogInv, ReplayMoves, Committing
<1>5. ASSUME ReplayEntry PROVE LogInv' /\ ReplayMoves
  <2> DEFINE e == log[cursor]
  <2>1. /\ phase = "replay" /\ phase' = "replay" /\ cursor' = cursor + 1 /\ UNCHANGED <<log, count>>
        /\ file' = [file EXCEPT ![e.page] = e.img] /\ cursor \in 1 .. Len(log) /\ cursor <= count
    BY <1>5 DEF ReplayEntry, walVars, ghostVars
  <2>2. e \in Entry /\ e.page \in Page
    <3>1. log \in Seq(Entry)
      OBVIOUS
    <3>2. e \in Entry
      BY ONLY <2>1, <3>1
    <3> QED BY <3>2 DEF Entry
  <2>3. \A p : Logged(p)' = Logged(p) /\ (cursor \in Logged(p) <=> e.page = p)
    BY <2>1 DEF Logged
  <2>4. \A p \in Page : p # e.page => file'[p] = file[p]
    BY <2>1
  <2>5. file'[e.page] = e.img
    BY <2>1, <2>2
  <2>6. \A p \in DataPage : Replayed(p)' = Replayed(p)
    <3> SUFFICES ASSUME NEW p \in DataPage PROVE Replayed(p)' = Replayed(p)
      OBVIOUS
    <3>1. Logged(p)' = Logged(p)
      BY <2>3
    <3>2. CASE Logged(p) # {}
      BY <2>1, <3>1, <3>2 DEF Replayed
    <3>3. CASE Logged(p) = {}
      <4>1. p # e.page
        BY <2>3, <3>3
      <4> QED BY <2>4, <3>1, <3>3, <4>1 DEF Replayed, DataPage
    <3> QED BY <3>2, <3>3
  <2>7. ASSUME NEW p \in DataPage, NEW i \in Logged(p), i < cursor + 1,
               \A j \in Logged(p) : j < cursor + 1 => j <= i
        PROVE  file'[p] = log[i].img
    <3>0. i \in Nat /\ cursor \in Nat
      BY DEF Logged
    <3>1. CASE e.page = p
      <4>1. i = cursor
        BY <2>3, <2>7, <3>0, <3>1
      <4> QED BY <2>5, <3>1, <4>1
    <3>2. CASE e.page # p
      <4>1. i < cursor
        <5>1. i # cursor
          BY <2>3, <2>7, <3>2
        <5> QED BY ONLY <5>1, <2>7, <3>0
      <4>2. \A j \in Logged(p) : j < cursor => j <= i
        BY <2>7, <3>0 DEF Logged
      <4>3. file[p] = log[i].img
        BY <2>1, <4>1, <4>2 DEF LogInv
      <4> QED BY <2>4, <3>2, <4>3 DEF DataPage
    <3> QED BY <3>1, <3>2
  <2>8. \A t \in Threads : pc'[t] = "idle"
    BY <1>2, <1>5 DEF Open
  <2>9. \A p \in DataPage : \A i \in Logged(p)' :
          i < cursor' /\ (\A j \in Logged(p)' : j < cursor' => j <= i) => file'[p] = log'[i].img
    BY <2>1, <2>3, <2>7
  <2> QED BY <2>1, <2>6, <2>8, <2>9 DEF LogInv, ReplayMoves, Committing
<1> QED BY <1>1, <1>3, <1>4, <1>5 DEF Open

\* Every step keeps the log in step with the cache and the file.
LEMMA LogStep ==
    ASSUME Setting, TypeInv, ImageInv, FreshInv, OwnInv, OwnInv', LogInv, ~raced, [Next]_vars
    PROVE  LogInv' /\ (PowerFailure \/ ReplayMoves)
<1>1. ASSUME NEW t \in Threads,
             BeginWrite(t) \/ Release(t) \/ LockWal(t) \/ FinishLog(t) \/ PersistRegistry(t)
               \/ ErrorExit(t)
               \/ (\E tb \in Tables : LockTable(t, tb) \/ CommitTransaction(t, tb))
               \/ (\E S \in SUBSET Page, k \in 0 .. 1 : Mutate(t, S, k))
      PROVE  LogInv' /\ ReplayMoves
  <2>1. UNCHANGED <<cache, file, log, count, phase, cursor, todo, img, writes>>
    BY <1>1 DEF BeginWrite, Release, LockWal, FinishLog, PersistRegistry, LockTable, CommitTransaction, Mutate, ErrorExit,
                pageVars, walVars, lifeVars, ghostVars
  <2>2. \A u \in Threads : pc'[u] \in Committing => pc[u] \in Committing
    BY SMTT(30), <1>1 DEF BeginWrite, Release, LockWal, FinishLog, PersistRegistry, LockTable,
           CommitTransaction, Mutate, ErrorExit,
                Committing, TypeInv, TypeOK
  <2> QED BY <2>1, <2>2, LogFrame
<1>2. ASSUME NEW r \in Readers, ReadFromDisk(r) \/ \E p \in Page : ReadMiss(r, p)
      PROVE  LogInv' /\ ReplayMoves
  <2>1. UNCHANGED <<cache, file, log, count, phase, cursor, todo, img, writes, pc>>
    BY <1>2 DEF ReadFromDisk, ReadMiss, pageVars, walVars, threadVars, lifeVars, ghostVars
  <2> QED BY <2>1, LogFrame
<1>3. CASE UNCHANGED vars
  <2>1. UNCHANGED <<cache, file, log, count, phase, cursor, todo, img, writes, pc>>
    BY <1>3 DEF vars, pageVars, walVars, threadVars, lifeVars, ghostVars
  <2> QED BY <2>1, LogFrame
<1>4. ASSUME PowerFailure PROVE LogInv'
  BY <1>4 DEF PowerFailure, Forget, LogInv, Committing
<1>5. ASSUME NEW t \in Threads, Publish(t) \/ \E p \in Page : AppendPageImage(t, p)
      PROVE  LogInv' /\ ReplayMoves
  BY <1>5, LogPublish, LogAppend
<1>6. ASSUME NEW t \in Threads, Return(t) PROVE LogInv' /\ ReplayMoves
  BY <1>6, LogReturn DEF ReplayMoves
<1>7. ASSUME NEW r \in Readers, InsertRead(r) PROVE LogInv' /\ ReplayMoves
  BY <1>7, LogInsertRead
<1>8. ASSUME Drop \/ Shut \/ ProcessCrash \/ Open PROVE LogInv' /\ ReplayMoves
  BY <1>8, LogShut, LogOpen
<1> QED BY <1>1, <1>2, <1>3, <1>4, <1>5, <1>6, <1>7, <1>8 DEF Next, Step, Read

-----------------------------------------------------------------------------
(* What was acknowledged *)

\* Where a power loss is possible, a claim about what survives it is made of a
\* log that no power loss hit over older entries, and that open() can read.
Sure == PowerLoss => ~damaged /\ (phase \in {"down", "failed"} => Readable)

\* What readers see, and what replay would give, is at least as new as what was
\* acknowledged.
CoverInv ==
    Sure => \A p \in DataPage : /\ phase = "up" => View(p) >= acked[p]
                                /\ Replayed(p) >= acked[p]

\* At the start every page is as it was acknowledged.
LEMMA CoverInit == Init => CoverInv
<1> SUFFICES ASSUME Init PROVE CoverInv
  OBVIOUS
<1>1. \A p \in Page : Replayed(p) = file[p] /\ View(p) = file[p] /\ acked[p] = file[p] /\ file[p] \in Nat
  BY DEF Init, Logged, Replayed, View
<1> QED BY <1>1 DEF CoverInv, DataPage

\* Damage stays, and a log that open() cannot read stays so.
LEMMA SureStep ==
    ASSUME TypeInv, [Next]_vars, Sure' PROVE Sure
<1> SUFFICES ASSUME PowerLoss PROVE ~damaged /\ (phase \in {"down", "failed"} => Readable)
  BY DEF Sure
<1>1. damaged' = damaged \/ PowerFailure
  <2>1. ASSUME NEW t \in Threads, Step(t) PROVE damaged' = damaged
    BY <2>1 DEF Step, BeginWrite, Publish, Release, LockWal, FinishLog, Return, Mutate, AppendPageImage, ghostVars
  <2>2. ASSUME NEW t \in Threads, \/ PersistRegistry(t) \/ ErrorExit(t)
                                  \/ \E tb \in Tables : LockTable(t, tb) \/ CommitTransaction(t, tb)
        PROVE  damaged' = damaged
    BY <2>2 DEF PersistRegistry, ErrorExit, LockTable, CommitTransaction, ghostVars
  <2>3. ASSUME NEW r \in Readers, Read(r) PROVE damaged' = damaged
    BY <2>3 DEF Read, ReadMiss, ReadFromDisk, InsertRead, ghostVars
  <2>4. CASE Open \/ Shut \/ Drop
    BY <2>4 DEF Open, OpenClean, OpenDirty, ReplayEntry, Shut, FlushPage, SyncData, TruncateEntries,
           TruncateHeader, SyncWal, Drop, ghostVars
  <2>5. CASE ProcessCrash \/ UNCHANGED vars
    BY <2>5 DEF ProcessCrash, vars, ghostVars
  <2> QED BY <2>1, <2>2, <2>3, <2>4, <2>5 DEF Next
<1> USE DEF TypeInv, TypeOK, Sure
<1>2. ~damaged
  BY <1>1 DEF PowerFailure
<1>3. ASSUME phase \in {"down", "failed"}
      PROVE  OpenClean \/ OpenDirty \/ UNCHANGED vars \/ \E r \in Readers : Read(r)
  <2>1. ASSUME NEW t \in Threads
        PROVE  ~(Step(t) \/ PersistRegistry(t) \/ ErrorExit(t) \/ \E tb \in Tables : LockTable(t, tb) \/ CommitTransaction(t, tb))
    BY <1>3 DEF Step, BeginWrite, Publish, Release, LockWal, FinishLog, Return, Mutate, AppendPageImage,
         PersistRegistry, LockTable, CommitTransaction, ErrorExit
  <2>2. ~Shut /\ ~Drop /\ ~ReplayEntry
    BY <1>3 DEF Shut, ReplayEntry, FlushPage, SyncData, TruncateEntries, TruncateHeader, SyncWal, Drop
  <2>3. ~ProcessCrash /\ ~PowerFailure
    BY <1>3 DEF ProcessCrash, PowerFailure
  <2> QED BY <2>1, <2>2, <2>3 DEF Next, Open
<1>4. ASSUME phase \in {"down", "failed"} PROVE Readable
  <2>1. CASE OpenClean
    <3>1. count = 0 /\ 0 <= Len(log)
      BY <2>1 DEF OpenClean
    <3> QED BY <3>1 DEF Readable
  <2>2. CASE OpenDirty
    <3>1. UNCHANGED <<log, count>> /\ phase' = IF Readable THEN "replay" ELSE "failed"
      BY <2>2 DEF OpenDirty, walVars
    <3>2. Readable' <=> Readable
      BY <3>1 DEF Readable
    <3> QED BY <1>2, <3>1, <3>2
  <2>3. CASE UNCHANGED vars \/ \E r \in Readers : Read(r)
    <3>1. UNCHANGED <<log, count, phase>>
      BY <2>3 DEF Read, ReadMiss, ReadFromDisk, InsertRead, vars, walVars, lifeVars
    <3>2. Readable' <=> Readable
      BY <3>1 DEF Readable
    <3> QED BY <1>4, <3>1, <3>2
  <2> QED BY <1>3, <1>4, <2>1, <2>2, <2>3
<1> QED BY <1>2, <1>4

\* A handle comes up after a clean shutdown, or after a replay has shut down.
LEMMA OnlyOpenOpens ==
    ASSUME [Next]_vars, phase # "up", phase' = "up" PROVE OpenClean
<1>1. ASSUME NEW t \in Threads, Step(t) PROVE FALSE
  BY <1>1 DEF Step, BeginWrite, Publish, Release, LockWal, FinishLog, Return, Mutate, AppendPageImage, lifeVars
<1>2. ASSUME NEW t \in Threads, \/ PersistRegistry(t) \/ ErrorExit(t)
                                \/ \E tb \in Tables : LockTable(t, tb) \/ CommitTransaction(t, tb)
      PROVE  FALSE
  BY <1>2 DEF PersistRegistry, ErrorExit, LockTable, CommitTransaction, lifeVars
<1>3. ASSUME NEW r \in Readers, Read(r) PROVE FALSE
  BY <1>3 DEF Read, ReadMiss, ReadFromDisk, InsertRead, lifeVars
<1>4. ~Shut /\ ~Drop /\ ~OpenDirty /\ ~ReplayEntry
  BY DEF OpenDirty, ReplayEntry, Shut, FlushPage, SyncData, TruncateEntries, TruncateHeader, SyncWal, Drop
<1>5. ~ProcessCrash /\ ~PowerFailure /\ ~UNCHANGED vars
  BY DEF ProcessCrash, PowerFailure, Forget, vars, lifeVars
<1> QED BY <1>1, <1>2, <1>3, <1>4, <1>5 DEF Next, Open

\* A commit is acknowledged once the log has all of it, and no other step makes
\* readers or replay go back.
LEMMA CoverStep ==
    ASSUME Setting, TypeInv, TypeInv', ImageInv, FreshInv, OwnInv, OwnInv', LogInv, ~raced, CoverInv, [Next]_vars,
           ~PowerFailure
    PROVE  CoverInv'
<1> SUFFICES ASSUME Sure', NEW p \in DataPage
             PROVE  (phase' = "up" => View(p)' >= acked'[p]) /\ Replayed(p)' >= acked'[p]
  BY DEF CoverInv
<1>1. /\ phase = "up" => View(p) >= acked[p]
      /\ Replayed(p) >= acked[p]
      /\ View(p) \in Nat /\ View(p)' \in Nat /\ acked[p] \in Nat
  BY SureStep DEF CoverInv, TypeInv, TypeOK, View, DataPage
<1>2. LogInv' /\ ReplayMoves
  BY LogStep
<1>3. ASSUME NEW t \in Threads, Return(t)
      PROVE  (phase' = "up" => View(p)' >= acked'[p]) /\ Replayed(p)' >= acked'[p]
  <2>1. /\ Replayed(p)' = Replayed(p) /\ View(p)' = View(p)
        /\ acked'[p] = acked[p] \/ (acked'[p] = Replayed(p) /\ acked'[p] = View(p))
    BY <1>3, LogReturn
  <2>2. phase = "up"
    BY <1>3 DEF Return
  <2> QED BY <1>1, <2>1, <2>2
<1>4. ASSUME acked' = acked
      PROVE  (phase' = "up" => View(p)' >= acked'[p]) /\ Replayed(p)' >= acked'[p]
  <2>1. Replayed(p)' >= acked'[p]
    BY <1>1, <1>2, <1>4 DEF ReplayMoves
  <2>2. CASE phase = "up"
    <3>1. phase' = "up" => View(p)' >= View(p)
      BY <2>2, ViewStep DEF DataPage
    <3> QED BY <1>1, <1>4, <2>1, <2>2, <3>1
  <2>3. CASE phase # "up" /\ phase' = "up"
    <3>1. OpenClean
      BY <2>3, OnlyOpenOpens
    <3>2. \A t \in Threads : todo'[t] = {}
      BY <2>3, <3>1 DEF OpenClean, threadVars, FreshInv
    <3>3. View(p)' = Replayed(p)'
      BY <1>2, <2>3, <3>2 DEF LogInv, Waiting
    <3> QED BY <2>1, <3>3
  <2> QED BY <2>1, <2>2, <2>3
<1>5. (\E t \in Threads : Return(t)) \/ acked' = acked
  BY ZenonT(30) DEF Next, Step, Read, Open, Shut, BeginWrite, Publish, Release, LockWal, FinishLog, Mutate,
         AppendPageImage, PersistRegistry, LockTable, CommitTransaction, ErrorExit, ReadMiss, ReadFromDisk, InsertRead,
         OpenClean, OpenDirty, ReplayEntry, FlushPage, SyncData, TruncateEntries, TruncateHeader, SyncWal,
         Drop, ProcessCrash, Forget, vars, ghostVars
<1> QED BY <1>3, <1>4, <1>5

-----------------------------------------------------------------------------
(* The theorems *)

\* The inductive invariant behind the theorems: until an operation fails with
\* its guard open, the owners and the entries are in order, and until an ACID
\* commit overlaps another operation on its table so is the log.
RedoInv == /\ TypeInv /\ ImageInv /\ FreshInv /\ BudgetInv
           /\ errors = 0 => OwnInv /\ ZeroInv
           /\ errors = 0 /\ ~raced => LogInv

\* The initial state satisfies all of it.
LEMMA RedoInit == ASSUME Setting PROVE Init => RedoInv
BY TypeInit, ImageInit, FreshInit, BudgetInit, OwnInit, ZeroInit, LogInit DEF RedoInv

\* Failures are counted and never forgotten.
LEMMA ErrorsStay == ASSUME TypeInv, [Next]_vars, errors' = 0 PROVE errors = 0
<1>1. ASSUME NEW t \in Threads, ErrorExit(t) PROVE FALSE
  BY <1>1, NoErrorExit
<1>2. ASSUME NEW t \in Threads, Step(t) \/ PersistRegistry(t) \/ \E tb \in Tables : LockTable(t, tb) \/ CommitTransaction(t, tb)
      PROVE  errors' = errors
  BY <1>2 DEF Step, BeginWrite, Publish, Release, LockWal, FinishLog, Return, Mutate, AppendPageImage,
         PersistRegistry, LockTable, CommitTransaction
<1>3. ASSUME NEW r \in Readers, Read(r) PROVE errors' = errors
  BY <1>3 DEF Read, ReadMiss, ReadFromDisk, InsertRead
<1>4. Open \/ Shut \/ Drop => errors' = errors
  BY DEF Open, OpenClean, OpenDirty, ReplayEntry, Shut, FlushPage, SyncData, TruncateEntries, TruncateHeader,
         SyncWal, Drop
<1>5. ProcessCrash \/ PowerFailure => errors' = errors
  BY DEF ProcessCrash, PowerFailure, Forget
<1>6. UNCHANGED vars => errors' = errors
  BY DEF vars
<1> QED BY <1>1, <1>2, <1>3, <1>4, <1>5, <1>6 DEF Next

\* An overlap is never forgotten.
LEMMA RacedStays == ASSUME TypeInv, [Next]_vars, ~raced' PROVE ~raced
<1>1. ASSUME NEW t \in Threads, Step(t) \/ PersistRegistry(t) \/ ErrorExit(t) PROVE raced' = raced
  BY <1>1 DEF Step, BeginWrite, Publish, Release, LockWal, FinishLog, Return, Mutate, AppendPageImage,
         PersistRegistry, ErrorExit, ghostVars
<1>2. ASSUME NEW t \in Threads, NEW tb \in Tables, LockTable(t, tb) \/ CommitTransaction(t, tb)
      PROVE  ~raced
  BY <1>2 DEF LockTable, CommitTransaction
<1>3. ASSUME NEW r \in Readers, Read(r) PROVE raced' = raced
  BY <1>3 DEF Read, ReadMiss, ReadFromDisk, InsertRead, ghostVars
<1>4. Open \/ Shut \/ Drop => raced' = raced
  BY DEF Open, OpenClean, OpenDirty, ReplayEntry, Shut, FlushPage, SyncData, TruncateEntries, TruncateHeader,
         SyncWal, Drop, ghostVars
<1>5. ProcessCrash \/ PowerFailure => raced' = raced
  BY DEF ProcessCrash, PowerFailure, Forget
<1>6. UNCHANGED vars => raced' = raced
  BY DEF vars, ghostVars
<1> QED BY <1>1, <1>2, <1>3, <1>4, <1>5, <1>6 DEF Next

\* Every step keeps all of it.
LEMMA RedoStep == ASSUME Setting PROVE RedoInv /\ [Next]_vars => RedoInv'
<1> SUFFICES ASSUME RedoInv, [Next]_vars PROVE RedoInv'
  OBVIOUS
<1>1. TypeInv' /\ ImageInv' /\ FreshInv' /\ BudgetInv'
  BY TypeStep, ImageStep, FreshStep, BudgetStep DEF RedoInv
<1>2. ASSUME errors' = 0 PROVE OwnInv' /\ ZeroInv' /\ (~raced' => LogInv')
  <2>1. errors = 0
    BY <1>2, ErrorsStay DEF RedoInv
  <2>2. OwnInv'
    BY <1>2, <2>1, OwnStep DEF RedoInv
  <2>3. ZeroInv'
    BY <2>1, ZeroStep DEF RedoInv
  <2>4. ASSUME ~raced' PROVE LogInv'
    <3>1. ~raced
      BY <2>4, RacedStays DEF RedoInv
    <3> QED BY <2>1, <2>2, <3>1, LogStep DEF RedoInv
  <2> QED BY <2>2, <2>3, <2>4
<1> QED BY <1>1, <1>2 DEF RedoInv

\* A page of a table is not the registry's page.
LEMMA TablePagesAreData == ZeroInv => TablePages \subseteq DataPage
BY NamesAssumption DEF ZeroInv, TablePages, DataPage

\* Where no operation fails with its guard open, there are no failures.
LEMMA NoErrors == ASSUME MaxErrors = 0, TypeInv PROVE errors = 0
BY DEF TypeInv, TypeOK

\* At every instant, mid-commit, mid-shutdown and mid-recovery, replaying what
\* the process has written covers every acknowledged commit of a table, until an
\* ACID commit overlaps another operation on its table.
THEOREM RedoCovers ==
    ASSUME Setting, MaxErrors = 0, PowerLoss = FALSE PROVE Spec => []RedoCoversAcked
<1> DEFINE IInv == RedoInv /\ (~raced => CoverInv)
<1>1. IInv => RedoCoversAcked
  BY TablePagesAreData, NoErrors DEF RedoInv, RedoCoversAcked, CoverInv, Sure
<1>2. Init => IInv
  BY RedoInit, CoverInit
<1>3. IInv /\ [Next]_vars => IInv'
  <2> SUFFICES ASSUME RedoInv, ~raced => CoverInv, [Next]_vars PROVE RedoInv' /\ (~raced' => CoverInv')
    OBVIOUS
  <2>1. RedoInv'
    BY RedoStep
  <2> SUFFICES ASSUME ~raced' PROVE CoverInv'
    BY <2>1
  <2>2. ~raced
    BY RacedStays DEF RedoInv
  <2>3. OwnInv /\ OwnInv' /\ LogInv /\ TypeInv /\ TypeInv' /\ ImageInv /\ FreshInv
    <3>1. errors = 0 /\ errors' = 0
      BY <2>1 DEF RedoInv, TypeInv, TypeOK
    <3> QED BY <2>1, <2>2, <3>1 DEF RedoInv
  <2>4. ~PowerFailure
    BY DEF PowerFailure
  <2> QED BY <2>2, <2>3, <2>4, CoverStep
<1> HIDE DEF IInv
<1> QED BY <1>1, <1>2, <1>3, PTL DEF Spec

\* Whenever no operation works on a table, its readers see exactly what replay
\* would give, also after crashes and power losses, until an ACID commit overlaps
\* another operation on its table.
THEOREM UnlockedIsLogged ==
    ASSUME Setting, MaxErrors = 0 PROVE Spec => []UnlockedMeansLogged
<1>1. RedoInv => UnlockedMeansLogged
  <2> SUFFICES ASSUME RedoInv, phase = "up", ~raced, NEW p \in TablePages, Settled(owner[p])
               PROVE  Replayed(p) = View(p)
    BY DEF UnlockedMeansLogged
  <2>0. OwnInv /\ ZeroInv /\ LogInv
    BY NoErrors DEF RedoInv
  <2>1. p \in DataPage /\ owner[p] \in Tables
    BY <2>0, TablePagesAreData DEF TablePages
  <2>2. ASSUME NEW t \in Threads, p \in todo[t] PROVE FALSE
    <3>1. pc[t] \in Committing
      BY <2>2 DEF RedoInv, TypeInv, TypeOK, FreshInv, Committing
    <3>2. owner[p] = op[t] /\ pc[t] # "idle"
      BY <2>0, <2>2, <3>1 DEF OwnInv, Own, Committing
    <3>3. t \notin acid
      BY <3>2 DEF Settled
    <3>4. lock[owner[p]] = t
      BY <2>0, <2>1, <3>2, <3>3 DEF OwnInv
    <3> QED BY <3>4, NamesAssumption DEF Settled
  <2>3. ~Waiting(p)
    BY <2>2 DEF Waiting
  <2> QED BY <2>0, <2>1, <2>3 DEF LogInv
<1>2. Init => RedoInv
  BY RedoInit
<1>3. RedoInv /\ [Next]_vars => RedoInv'
  BY RedoStep
<1> QED BY <1>1, <1>2, <1>3, PTL DEF Spec

\* An operation on a table only ever logs pages of that table.
THEOREM OwnPagesLogged ==
    ASSUME Setting, MaxErrors = 0 PROVE Spec => []AppendsOwnPages
<1>1. RedoInv => AppendsOwnPages
  <2> SUFFICES ASSUME RedoInv, NEW t \in Threads, op[t] \in Tables, NEW p \in todo[t]
               PROVE  owner[p] = op[t]
    BY DEF AppendsOwnPages
  <2>1. pc[t] \in Committing
    BY DEF RedoInv, TypeInv, TypeOK, FreshInv, Committing
  <2> QED BY <2>1, NoErrors DEF RedoInv, OwnInv, Own
<1>2. Init => RedoInv
  BY RedoInit
<1>3. RedoInv /\ [Next]_vars => RedoInv'
  BY RedoStep
<1> QED BY <1>1, <1>2, <1>3, PTL DEF Spec

-----------------------------------------------------------------------------
(***************************************************************************)
(* Power losses: why what an Immediate commit acknowledged survives them,  *)
(* until an operation fails with its guard open or a power loss hits       *)
(* unsynced WAL slots that lie over older ones.                            *)
(*                                                                         *)
(* A power loss may take each page from `file' or from `disk' and each WAL *)
(* slot from `log' or from `walDisk'; so each of the four combinations has *)
(* to cover what was acknowledged.                                         *)
(***************************************************************************)

\* The setting of this part.
Immediate == Durability = "immediate" /\ IsFiniteSet(Threads)

\* Slot i of the log is as the WAL's last fsync left it.
Same(i) == /\ i <= walDisk.count /\ i <= Len(walDisk.log)
           /\ log[i] = walDisk.log[i]

\* File f and the first c entries of log l give back what was acknowledged.
Covers(f, l, c) == \A p \in DataPage : ReplayedIn(f, l, c, p) >= acked[p]

\* Every mixture of written and synced parts covers what was acknowledged (the
\* one of file and log is CoverInv's).
PlatterCovers ==
    /\ Covers(disk, log, count)
    /\ Covers(file, walDisk.log, walDisk.count)
    /\ Covers(disk, walDisk.log, walDisk.count)

\* A counted entry that is not synced is no older than what was acknowledged.
SlotsSynced ==
    \A i \in 1 .. count : i <= Len(log) =>
        Same(i) \/ log[i].page = 0 \/ log[i].img >= acked[log[i].page]

\* The synced log is readable; a count below the synced one is one started over
\* after a truncation, over nothing; the log is cut only after the data file's
\* fsync, and itself fsynced with a count of 0.
PlatterInOrder ==
    /\ walDisk.count <= Len(walDisk.log)
    /\ \A i \in 1 .. walDisk.count : walDisk.log[i] # Torn
    /\ count < walDisk.count => Len(log) <= count
    /\ phase \in {"truncate", "header", "walsync"} => disk = file
    /\ phase = "walsync" => count = 0

\* What a commit has appended is in the log, and once it has fsynced it all of
\* its images are in the synced log, last of their pages in both.
CommitsLogged ==
    /\ \A t \in Threads : pc[t] \in Committing =>
          \A p \in (writes[img[t]] \ todo[t]) \cap DataPage : LoggedIn(log, count, p) # {}
    /\ \A t \in Threads : pc[t] = "logged" =>
          \A p \in writes[img[t]] \cap DataPage :
              /\ LoggedIn(walDisk.log, walDisk.count, p) # {}
              /\ ReplayedIn(file, walDisk.log, walDisk.count, p) = img[t]
              /\ \A i \in LoggedIn(log, count, p) : Same(i)

Platter == PlatterCovers /\ SlotsSynced /\ PlatterInOrder /\ CommitsLogged
DurableInv == Sure => Platter

\* What the other modules establish, when Sure and while nothing has failed.
Known == /\ ~raced /\ TypeInv /\ FreshInv /\ OwnInv /\ ZeroInv /\ LogInv
         /\ \A p \in DataPage : /\ phase = "up" => View(p) >= acked[p]
                                /\ ReplayedIn(file, log, count, p) >= acked[p]

-----------------------------------------------------------------------------
(* Files *)

\* Replay takes a page that has entries from the log, and another from the file.
LEMMA ReplayPicks ==
    ASSUME NEW f, NEW g, NEW l, NEW c, NEW p
    PROVE  /\ LoggedIn(l, c, p) # {} => ReplayedIn(f, l, c, p) = ReplayedIn(g, l, c, p)
           /\ LoggedIn(l, c, p) = {} => ReplayedIn(f, l, c, p) = f[p]
           /\ f[p] = g[p] => ReplayedIn(f, l, c, p) = ReplayedIn(g, l, c, p)
BY DEF ReplayedIn

\* Nothing is logged in an empty log.
LEMMA NothingLogged ==
    \A f, c, p : LoggedIn(<<>>, c, p) = {} /\ ReplayedIn(f, <<>>, c, p) = f[p]
<1>1. \A c, p : LoggedIn(<<>>, c, p) = {}
  BY DEF LoggedIn
<1> QED BY <1>1, ReplayPicks

-----------------------------------------------------------------------------
(* Steps *)

\* At the start both logs are empty and the files are the same.
LEMMA PlatterInit == Init => Platter
<1> SUFFICES ASSUME Init PROVE Platter
  OBVIOUS
<1>1. /\ log = <<>> /\ count = 0 /\ walDisk.log = <<>> /\ walDisk.count = 0
      /\ disk = file /\ acked = file /\ phase = "up" /\ \A t \in Threads : pc[t] = "idle"
  BY DEF Init
<1>2. \A p \in DataPage : file[p] \in Nat
  BY DEF Init, DataPage
<1>3. PlatterCovers
  BY <1>1, <1>2, NothingLogged DEF PlatterCovers, Covers
<1>4. SlotsSynced
  BY <1>1 DEF SlotsSynced
<1>5. PlatterInOrder
  BY <1>1 DEF PlatterInOrder
<1>6. CommitsLogged
  BY <1>1 DEF CommitsLogged, Committing
<1> QED BY <1>3, <1>4, <1>5, <1>6 DEF Platter

\* A step that leaves the files and the logs alone.
LEMMA PlatterFrame ==
    ASSUME Platter, UNCHANGED <<file, disk, log, count, walDisk, acked>>,
           phase' \in {"truncate", "header", "walsync"} => phase' = phase,
           \A t \in Threads : pc'[t] \in Committing =>
              \/ writes'[img'[t]] \subseteq todo'[t]
              \/ /\ pc[t] \in Committing /\ img'[t] = img[t] /\ todo'[t] = todo[t]
                 /\ writes'[img[t]] = writes[img[t]],
           \A t \in Threads : pc'[t] = "logged" =>
              pc[t] = "logged" /\ img'[t] = img[t] /\ writes'[img[t]] = writes[img[t]]
    PROVE  Platter'
<1>1. PlatterCovers'
  BY DEF Platter, PlatterCovers, Covers
<1>2. SlotsSynced'
  BY DEF Platter, SlotsSynced, Same
<1>3. PlatterInOrder'
  BY DEF Platter, PlatterInOrder
<1>4. CommitsLogged'
  <2>1. ASSUME NEW t \in Threads, pc'[t] \in Committing,
               NEW p \in (writes'[img'[t]] \ todo'[t]) \cap DataPage
        PROVE  LoggedIn(log', count', p) # {}
    <3>1. /\ pc[t] \in Committing /\ img'[t] = img[t] /\ todo'[t] = todo[t]
          /\ writes'[img[t]] = writes[img[t]]
      BY <2>1
    <3>2. p \in (writes[img[t]] \ todo[t]) \cap DataPage
      BY <2>1, <3>1
    <3> QED BY <3>1, <3>2 DEF Platter, CommitsLogged
  <2>2. ASSUME NEW t \in Threads, pc'[t] = "logged", NEW p \in writes'[img'[t]] \cap DataPage
        PROVE  /\ LoggedIn(walDisk'.log, walDisk'.count, p) # {}
               /\ ReplayedIn(file', walDisk'.log, walDisk'.count, p) = img'[t]
               /\ \A i \in LoggedIn(log', count', p) : Same(i)'
    <3>1. pc[t] = "logged" /\ img'[t] = img[t] /\ p \in writes[img[t]] \cap DataPage
      BY <2>2
    <3>2. \A i : Same(i)' <=> Same(i)
      BY DEF Same
    <3> QED BY <3>1, <3>2 DEF Platter, CommitsLogged
  <2> QED BY <2>1, <2>2 DEF CommitsLogged, DataPage, Page
<1> QED BY <1>1, <1>2, <1>3, <1>4 DEF Platter

\* The steps that move no data, and the publishing of a commit.
LEMMA PlatterQuiet ==
    ASSUME Immediate, Known, OwnInv', ImageInv, Platter,
           \/ \E t \in Threads : \/ BeginWrite(t) \/ Publish(t) \/ Release(t) \/ LockWal(t)
                                 \/ PersistRegistry(t) \/ ErrorExit(t)
                                 \/ (\E tb \in Tables : LockTable(t, tb) \/ CommitTransaction(t, tb))
                                 \/ (\E S \in SUBSET Page, k \in 0 .. 1 : Mutate(t, S, k))
           \/ \E r \in Readers : Read(r)
           \/ Drop \/ ProcessCrash \/ OpenClean \/ OpenDirty \/ UNCHANGED vars
    PROVE  Platter'
<1> USE DEF Known, TypeInv, TypeOK
<1>1. ASSUME NEW t \in Threads,
             BeginWrite(t) \/ Release(t) \/ LockWal(t) \/ PersistRegistry(t) \/ ErrorExit(t)
               \/ (\E tb \in Tables : LockTable(t, tb) \/ CommitTransaction(t, tb))
               \/ (\E S \in SUBSET Page, k \in 0 .. 1 : Mutate(t, S, k))
      PROVE  Platter'
  <2>1. UNCHANGED <<file, disk, log, count, walDisk, acked, phase, img, todo, writes>>
    BY <1>1 DEF BeginWrite, Release, LockWal, PersistRegistry, LockTable, CommitTransaction, Mutate, ErrorExit,
                pageVars, walVars, lifeVars, ghostVars
  <2>2. \A u \in Threads : /\ pc'[u] \in Committing => pc[u] \in Committing
                           /\ pc'[u] = "logged" => pc[u] = "logged"
    BY SMTT(30), <1>1 DEF BeginWrite, Release, LockWal, PersistRegistry, LockTable, CommitTransaction, Mutate, ErrorExit,
                Committing, Immediate
  <2> QED BY <2>1, <2>2, PlatterFrame
<1>2. ASSUME NEW t \in Threads, Publish(t) PROVE Platter'
  <2>1. /\ UNCHANGED <<file, disk, log, count, walDisk, acked, phase, dirty>>
        /\ pc' = [pc EXCEPT ![t] = "published"]
        /\ img' = [img EXCEPT ![t] = commits + 1] /\ todo' = [todo EXCEPT ![t] = dirty]
        /\ writes' = [writes EXCEPT ![commits + 1] = dirty]
    BY <1>2 DEF Publish, walVars, lifeVars, guardVars
  <2>2. writes'[img'[t]] \subseteq todo'[t]
    <3>1. pc'[t] = "published" /\ todo'[t] = dirty /\ dirty' = dirty
      BY <2>1
    <3>2. writes'[img'[t]] = dirty'
      BY <3>1 DEF OwnInv
    <3> QED BY <3>1, <3>2
  <2>3. ASSUME NEW u \in Threads, u # t
        PROVE  /\ pc'[u] = pc[u] /\ img'[u] = img[u] /\ todo'[u] = todo[u]
               /\ pc[u] \in Committing => writes'[img[u]] = writes[img[u]]
    <3>1. pc'[u] = pc[u] /\ img'[u] = img[u] /\ todo'[u] = todo[u] /\ img[u] # commits + 1
      BY <2>1, <2>3 DEF ImageInv
    <3> QED BY <2>1, <3>1 DEF OwnInv
  <2>4. pc'[t] # "logged"
    BY <2>1
  <2> QED BY <2>1, <2>2, <2>3, <2>4, PlatterFrame DEF Committing
<1>3. ASSUME NEW r \in Readers, Read(r) PROVE Platter'
  <2>1. UNCHANGED <<file, disk, log, count, walDisk, acked, phase, img, todo, writes, pc>>
    BY <1>3 DEF Read, ReadMiss, ReadFromDisk, InsertRead, pageVars, walVars, threadVars, lifeVars, ghostVars
  <2> QED BY <2>1, PlatterFrame
<1>4. ASSUME Drop \/ ProcessCrash \/ OpenClean \/ OpenDirty PROVE Platter'
  <2>1. UNCHANGED <<file, disk, log, count, walDisk, acked>>
    BY <1>4 DEF Drop, ProcessCrash, OpenClean, OpenDirty, Forget, pageVars, walVars, ghostVars
  <2>2. \A t \in Threads : pc'[t] = "idle"
    BY <1>4 DEF Drop, Quiet, ProcessCrash, OpenClean, OpenDirty, Forget, threadVars, FreshInv
  <2>3. phase' \notin {"truncate", "header", "walsync"}
    BY <1>4 DEF Drop, ProcessCrash, OpenClean, OpenDirty, Forget
  <2> QED BY <2>1, <2>2, <2>3, PlatterFrame DEF Committing
<1>5. CASE UNCHANGED vars
  <2>1. UNCHANGED <<file, disk, log, count, walDisk, acked, phase, img, todo, writes, pc>>
    BY <1>5 DEF vars, pageVars, walVars, threadVars, lifeVars, ghostVars
  <2> QED BY <2>1, PlatterFrame
<1> QED BY <1>1, <1>2, <1>3, <1>4, <1>5

\* While a commit is past its publishing, no other commit waits for its pages.
LEMMA OnlyCommitter ==
    ASSUME Known, NEW t \in Threads, pc[t] \in Committing, NEW p \in writes[img[t]] \cap DataPage,
           NEW u \in Threads, p \in todo[u]
    PROVE  u = t /\ pc[u] \in Committing
<1>1. pc[u] \in Committing
  BY DEF Known, TypeInv, TypeOK, FreshInv, Committing
<1>2. Own(u, p) /\ Own(t, p)
  BY <1>1 DEF Known, OwnInv
<1>3. pc[t] # "idle" /\ pc[u] # "idle"
  BY <1>1 DEF Committing
<1> QED BY <1>1, <1>2, <1>3, OneCommitter DEF Known, TypeInv, DataPage

\* The pages of a commit are in the cache as it published them.
LEMMA CommitCached ==
    ASSUME Known, NEW t \in Threads, pc[t] \in Committing, NEW p \in writes[img[t]] \cap DataPage
    PROVE  View(p) = img[t]
BY DEF Known, LogInv, OwnInv, View

\* Appending an entry covers its own page at its newest image, and no other.
LEMMA PlatterAppend ==
    ASSUME Known, Platter, NEW t \in Threads, NEW q \in Page, AppendPageImage(t, q)
    PROVE  Platter'
<1> DEFINE e == [page |-> q, img |-> img[t]]
<1>1. /\ phase = "up" /\ phase' = "up" /\ log' = InSlot(log, count + 1, e) /\ count' = count + 1
      /\ pc[t] = "logging" /\ q \in todo[t] /\ todo' = [todo EXCEPT ![t] = @ \ {q}]
      /\ UNCHANGED <<file, disk, walDisk, acked, pc, img, writes>>
  BY DEF AppendPageImage, pageVars, lifeVars, ghostVars
<1>2. /\ log \in Seq(Entry) /\ e \in Entry /\ e.page = q /\ e.img = img[t]
      /\ count \in Nat /\ count <= Len(log) /\ Len(log) \in Nat /\ count + 1 \in 1 .. Len(log) + 1
      /\ todo \in [Threads -> SUBSET Page] /\ walDisk.count \in Nat
  BY <1>1 DEF Known, TypeInv, TypeOK, Entry
<1> HIDE DEF e
<1>3. ASSUME NEW f, NEW p
      PROVE  /\ p = q => /\ ReplayedIn(f, log', count', p) = img[t]
                         /\ LoggedIn(log', count', p) # {}
             /\ p # q => /\ ReplayedIn(f, log', count', p) = ReplayedIn(f, log, count, p)
                         /\ LoggedIn(log', count', p) = LoggedIn(log, count, p)
  BY <1>1, <1>2, AppendDecides
<1>4. /\ Len(log') = IF count + 1 > Len(log) THEN count + 1 ELSE Len(log)
      /\ log'[count + 1] = e
      /\ \A i \in 1 .. Len(log) : i # count + 1 => log'[i] = log[i]
  BY <1>1, <1>2, InSlotIs
<1>5. \A i \in 1 .. count : i \in 1 .. Len(log) /\ log'[i] = log[i] /\ (Same(i)' <=> Same(i))
  <2>1. \A i \in 1 .. count : i \in 1 .. Len(log) /\ i # count + 1
    BY <1>2
  <2> QED BY <1>1, <1>4, <2>1 DEF Same
<1>6. q \in DataPage => img[t] >= acked[q]
  <2>1. pc[t] \in Committing /\ q \in writes[img[t]]
    BY <1>1 DEF Known, OwnInv, Committing
  <2>2. q \in DataPage => View(q) = img[t]
    BY <2>1, CommitCached
  <2> QED BY <1>1, <2>2 DEF Known
<1>7. PlatterCovers'
  <2>1. ASSUME NEW p \in DataPage PROVE ReplayedIn(disk, log', count', p) >= acked[p]
    <3>1. CASE p = q
      BY <1>3, <1>6, <3>1
    <3>2. CASE p # q
      BY <1>3, <3>2 DEF Platter, PlatterCovers, Covers
    <3> QED BY <3>1, <3>2
  <2> QED BY <1>1, <2>1 DEF Platter, PlatterCovers, Covers
<1>8. SlotsSynced'
  <2> SUFFICES ASSUME NEW i \in 1 .. count', i <= Len(log')
               PROVE  Same(i)' \/ log'[i].page = 0 \/ log'[i].img >= acked[log'[i].page]
    BY <1>1 DEF SlotsSynced
  <2>1. CASE i \in 1 .. count
    BY <1>5, <2>1 DEF Platter, SlotsSynced
  <2>2. CASE i = count + 1
    BY <1>2, <1>4, <1>6, <2>2 DEF DataPage
  <2>3. i \in 1 .. count \/ i = count + 1
    BY <1>1, <1>2
  <2> QED BY <2>1, <2>2, <2>3
<1>9. PlatterInOrder'
  <2>1. count' < walDisk'.count => Len(log') <= count'
    BY <1>1, <1>2, <1>4 DEF Platter, PlatterInOrder
  <2> QED BY <1>1, <2>1 DEF Platter, PlatterInOrder
<1>10. CommitsLogged'
  <2>1. ASSUME NEW u \in Threads, pc[u] \in Committing, NEW p \in (writes[img[u]] \ todo'[u]) \cap DataPage
        PROVE  LoggedIn(log', count', p) # {}
    <3>1. p # q => p \in (writes[img[u]] \ todo[u]) \cap DataPage
      BY <1>1, <1>2, <2>1
    <3> QED BY <1>3, <2>1, <3>1 DEF Platter, CommitsLogged
  <2>2. ASSUME NEW u \in Threads, pc[u] = "logged", NEW p \in writes[img[u]] \cap DataPage
        PROVE  \A i \in LoggedIn(log', count', p) : Same(i)'
    <3>1. pc[u] \in Committing
      BY <2>2 DEF Committing
    <3>2. p # q
      BY <1>1, <2>2, <3>1, OnlyCommitter
    <3>3. LoggedIn(log', count', p) = LoggedIn(log, count, p)
      BY <1>3, <3>2
    <3>4. \A i \in LoggedIn(log, count, p) : Same(i) /\ i \in 1 .. count
      BY <1>2, <2>2 DEF Platter, CommitsLogged, LoggedIn
    <3> QED BY <1>5, <3>3, <3>4
  <2>3. ASSUME NEW u \in Threads, pc[u] = "logged", NEW p \in writes[img[u]] \cap DataPage
        PROVE  /\ LoggedIn(walDisk.log, walDisk.count, p) # {}
               /\ ReplayedIn(file, walDisk.log, walDisk.count, p) = img[u]
    BY <2>3 DEF Platter, CommitsLogged
  <2> QED BY <1>1, <2>1, <2>2, <2>3 DEF CommitsLogged
<1> QED BY <1>7, <1>8, <1>9, <1>10 DEF Platter

\* The fsync makes every counted entry durable, other commits' included.
LEMMA PlatterFinish ==
    ASSUME Immediate, Known, Platter, NEW t \in Threads, FinishLog(t)
    PROVE  Platter'
<1>1. /\ phase = "up" /\ phase' = "up" /\ pc[t] = "logging" /\ todo[t] = {}
      /\ walDisk' = [log |-> log, count |-> count] /\ pc' = [pc EXCEPT ![t] = "logged"]
      /\ UNCHANGED <<file, disk, log, count, acked, todo, img, writes>>
  BY DEF FinishLog, Synced, Immediate, pageVars, lifeVars, ghostVars
<1>2. log \in Seq(Entry) /\ count \in Nat /\ count <= Len(log) /\ pc = [u \in Threads |-> pc[u]]
  BY <1>1 DEF Known, TypeInv, TypeOK
<1>3. \A i \in 1 .. count : Same(i)' /\ i \in 1 .. Len(log)
  BY <1>1, <1>2 DEF Same
<1>4. PlatterCovers'
  BY <1>1 DEF Platter, PlatterCovers, Covers, Known
<1>5. SlotsSynced'
  BY <1>1, <1>3 DEF SlotsSynced
<1>6. PlatterInOrder'
  BY <1>1, <1>2 DEF PlatterInOrder, Known, ZeroInv
<1>7. CommitsLogged'
  <2>1. ASSUME NEW u \in Threads, pc'[u] \in Committing, NEW p \in (writes[img[u]] \ todo[u]) \cap DataPage
        PROVE  LoggedIn(log, count, p) # {}
    <3>1. pc[u] \in Committing
      BY <1>1, <1>2, <2>1 DEF Committing
    <3> QED BY <2>1, <3>1 DEF Platter, CommitsLogged
  <2>2. ASSUME NEW u \in Threads, pc'[u] = "logged", NEW p \in writes[img[u]] \cap DataPage
        PROVE  /\ LoggedIn(log, count, p) # {}
               /\ ReplayedIn(file, log, count, p) = img[u]
               /\ \A i \in LoggedIn(log, count, p) : Same(i)'
    <3>1. pc[u] \in Committing /\ todo[u] = {}
      BY <1>1, <1>2, <2>2 DEF Committing, Known, OwnInv
    <3>2. LoggedIn(log, count, p) # {}
      BY <2>2, <3>1 DEF Platter, CommitsLogged
    <3>3. ~Waiting(p)
      BY <2>2, <3>1, OnlyCommitter DEF Waiting
    <3>4. View(p) = img[u] /\ p \in DataPage
      BY <2>2, <3>1, CommitCached
    <3>5. Replayed(p) = img[u]
      BY <1>1, <3>3, <3>4 DEF Known, LogInv
    <3>6. \A i \in LoggedIn(log, count, p) : i \in 1 .. count
      BY <1>2 DEF LoggedIn
    <3> QED BY <1>3, <3>2, <3>5, <3>6, ReplayedDefs
  <2> QED BY <1>1, <2>1, <2>2 DEF CommitsLogged
<1> QED BY <1>4, <1>5, <1>6, <1>7 DEF Platter

\* What a commit acknowledges is in the log and in the synced log.
LEMMA PlatterReturn ==
    ASSUME Known, Platter, NEW t \in Threads, Return(t)
    PROVE  Platter'
<1>1. /\ phase = "up" /\ phase' = "up" /\ pc[t] = "logged" /\ pc' = [pc EXCEPT ![t] = "idle"]
      /\ todo' = [todo EXCEPT ![t] = {}] /\ img' = [img EXCEPT ![t] = 0]
      /\ acked' = [p \in Page |-> IF p \in writes[img[t]] /\ acked[p] < img[t] THEN img[t] ELSE acked[p]]
      /\ UNCHANGED <<file, disk, log, count, walDisk, writes>>
  BY DEF Return, pageVars, walVars, lifeVars
<1>2. log \in Seq(Entry) /\ count \in Nat /\ pc = [u \in Threads |-> pc[u]] /\ todo[t] = {} /\ pc[t] \in Committing
  BY <1>1 DEF Known, TypeInv, TypeOK, OwnInv, Committing
<1>3. ASSUME NEW p \in DataPage, acked'[p] # acked[p]
      PROVE  /\ p \in writes[img[t]] /\ acked'[p] = img[t]
             /\ ReplayedIn(disk, log, count, p) = img[t]
             /\ ReplayedIn(file, walDisk.log, walDisk.count, p) = img[t]
             /\ ReplayedIn(disk, walDisk.log, walDisk.count, p) = img[t]
             /\ \A i \in LoggedIn(log, count, p) : Same(i)
  <2>1. p \in writes[img[t]] \cap DataPage /\ acked'[p] = img[t]
    BY <1>1, <1>3 DEF DataPage
  <2>2. Replayed(p) = img[t]
    <3>1. OwnInv /\ LogInv /\ TypeInv /\ FreshInv /\ ~raced
      BY DEF Known
    <3>2. acked'[p] = Replayed(p)
      BY <1>3, <3>1, LogReturn
    <3> QED BY <2>1, <3>2
  <2>3. LoggedIn(log, count, p) # {}
    BY <1>2, <2>1 DEF Platter, CommitsLogged
  <2>4. ReplayedIn(disk, log, count, p) = ReplayedIn(file, log, count, p)
    BY <2>3, ReplayPicks
  <2>5. ReplayedIn(file, log, count, p) = Replayed(p)
    BY ReplayedDefs
  <2>6. /\ LoggedIn(walDisk.log, walDisk.count, p) # {}
        /\ ReplayedIn(file, walDisk.log, walDisk.count, p) = img[t]
        /\ \A i \in LoggedIn(log, count, p) : Same(i)
    BY <1>1, <2>1 DEF Platter, CommitsLogged
  <2>7. ReplayedIn(disk, walDisk.log, walDisk.count, p) = img[t]
    BY <2>6, ReplayPicks
  <2> QED BY <2>1, <2>2, <2>4, <2>5, <2>6, <2>7
<1>4. PlatterCovers'
  <2> SUFFICES ASSUME NEW p \in DataPage
               PROVE  /\ ReplayedIn(disk, log, count, p) >= acked'[p]
                      /\ ReplayedIn(file, walDisk.log, walDisk.count, p) >= acked'[p]
                      /\ ReplayedIn(disk, walDisk.log, walDisk.count, p) >= acked'[p]
    BY <1>1 DEF PlatterCovers, Covers
  <2>1. CASE acked'[p] = acked[p]
    BY <2>1 DEF Platter, PlatterCovers, Covers
  <2>2. CASE acked'[p] # acked[p]
    <3>1. img[t] \in Nat
      BY DEF Known, TypeInv, TypeOK
    <3> QED BY <1>3, <2>2, <3>1
  <2> QED BY <2>1, <2>2
<1>5. SlotsSynced'
  <2> SUFFICES ASSUME NEW i \in 1 .. count, i <= Len(log), log[i].page # 0
               PROVE  Same(i) \/ log[i].img >= acked'[log[i].page]
    BY <1>1 DEF SlotsSynced, Same
  <2>1. i \in 1 .. Len(log)
    BY <1>2
  <2>2. log[i] \in Entry
    BY ONLY <2>1, <1>2
  <2>3. log[i].page \in DataPage /\ i \in LoggedIn(log, count, log[i].page)
    BY <1>2, <2>1, <2>2 DEF Entry, DataPage, LoggedIn
  <2>4. CASE acked'[log[i].page] = acked[log[i].page]
    BY <2>4 DEF Platter, SlotsSynced
  <2>5. CASE acked'[log[i].page] # acked[log[i].page]
    BY <1>3, <2>3, <2>5
  <2> QED BY <2>4, <2>5
<1>6. PlatterInOrder'
  BY <1>1 DEF Platter, PlatterInOrder
<1>7. CommitsLogged'
  <2>1. \A u \in Threads : pc'[u] \in Committing =>
           u # t /\ pc'[u] = pc[u] /\ todo'[u] = todo[u] /\ img'[u] = img[u]
    BY <1>1, <1>2 DEF Committing
  <2>2. \A u \in Threads : pc'[u] = "logged" => u # t /\ pc[u] = "logged" /\ img'[u] = img[u]
    BY <1>1, <1>2
  <2>3. \A i : Same(i)' <=> Same(i)
    BY <1>1 DEF Same
  <2>4. ASSUME NEW u \in Threads, pc'[u] \in Committing, NEW p \in (writes'[img'[u]] \ todo'[u]) \cap DataPage
        PROVE  LoggedIn(log', count', p) # {}
    BY <1>1, <2>1, <2>4 DEF Platter, CommitsLogged
  <2>5. ASSUME NEW u \in Threads, pc'[u] = "logged", NEW p \in writes'[img'[u]] \cap DataPage
        PROVE  /\ LoggedIn(walDisk'.log, walDisk'.count, p) # {}
               /\ ReplayedIn(file', walDisk'.log, walDisk'.count, p) = img'[u]
               /\ \A i \in LoggedIn(log', count', p) : Same(i)'
    BY <1>1, <2>2, <2>3, <2>5 DEF Platter, CommitsLogged
  <2> QED BY <2>4, <2>5 DEF CommitsLogged
<1> QED BY <1>4, <1>5, <1>6, <1>7 DEF Platter

\* Shutdown writes the file, fsyncs it, and only then cuts the log; a log it has
\* cut is fsynced with its count.
LEMMA PlatterShut ==
    ASSUME Known, Platter, Shut
    PROVE  Platter'
<1> USE DEF Known, TypeInv, TypeOK
<1>0. ASSUME phase # "up" PROVE \A t \in Threads : pc[t] = "idle"
  BY <1>0 DEF FreshInv
<1>1. ASSUME FlushPage PROVE Platter'
  <2>1. /\ phase = "flush" /\ phase' = "flush" /\ cursor \in Page
        /\ file' = [file EXCEPT ![cursor] = IF cache[cursor] # 0 THEN cache[cursor] ELSE @]
        /\ UNCHANGED <<disk, log, count, walDisk, acked, pc>>
    BY <1>1 DEF FlushPage, walVars, threadVars, ghostVars
  <2>2. \A t \in Threads : pc'[t] = "idle" /\ pc[t] = "idle"
    BY <1>0, <2>1
  <2>3. ASSUME NEW p \in DataPage PROVE file'[p] = file[p] \/ file'[p] >= acked[p]
    <3>1. CASE p # cursor
      BY <2>1, <3>1
    <3>2. CASE p = cursor
      <4>1. file'[p] = View(p)
        BY <2>1, <3>2 DEF View
      <4>2. View(p) = Replayed(p)
        BY <2>1, <2>2, NobodyWaits DEF LogInv
      <4>3. Replayed(p) = ReplayedIn(file, log, count, p)
        BY ReplayedDefs
      <4> QED BY <4>1, <4>2, <4>3
    <3> QED BY <3>1, <3>2
  <2>4. ASSUME NEW p \in DataPage PROVE ReplayedIn(file', walDisk.log, walDisk.count, p) >= acked[p]
    <3>1. CASE LoggedIn(walDisk.log, walDisk.count, p) # {} \/ file'[p] = file[p]
      <4>1. ReplayedIn(file', walDisk.log, walDisk.count, p) = ReplayedIn(file, walDisk.log, walDisk.count, p)
        BY <3>1, ReplayPicks
      <4> QED BY <4>1 DEF Platter, PlatterCovers, Covers
    <3>2. CASE LoggedIn(walDisk.log, walDisk.count, p) = {} /\ file'[p] # file[p]
      <4>1. ReplayedIn(file', walDisk.log, walDisk.count, p) = file'[p]
        BY <3>2, ReplayPicks
      <4> QED BY <2>3, <3>2, <4>1
    <3> QED BY <3>1, <3>2
  <2>5. PlatterCovers'
    BY <2>1, <2>4 DEF Platter, PlatterCovers, Covers
  <2>6. SlotsSynced' /\ PlatterInOrder'
    BY <2>1 DEF Platter, SlotsSynced, PlatterInOrder, Same
  <2>7. CommitsLogged'
    BY <2>2 DEF CommitsLogged, Committing
  <2> QED BY <2>5, <2>6, <2>7 DEF Platter
<1>2. ASSUME SyncData PROVE Platter'
  <2>1. /\ phase # "up" /\ phase' = "truncate" /\ disk' = file
        /\ UNCHANGED <<file, log, count, walDisk, acked, pc>>
    BY <1>2 DEF SyncData, walVars, threadVars, ghostVars
  <2>2. PlatterCovers'
    BY <2>1 DEF Platter, PlatterCovers, Covers
  <2>3. SlotsSynced' /\ PlatterInOrder'
    BY <2>1 DEF Platter, SlotsSynced, PlatterInOrder, Same
  <2>4. CommitsLogged'
    BY <1>0, <2>1 DEF CommitsLogged, Committing
  <2> QED BY <2>2, <2>3, <2>4 DEF Platter
<1>3. ASSUME TruncateEntries PROVE Platter'
  <2>1. /\ phase = "truncate" /\ phase' = "header" /\ log' = <<>> /\ count \in Nat
        /\ UNCHANGED <<file, disk, count, walDisk, acked, pc>>
    BY <1>3 DEF TruncateEntries, pageVars, threadVars, ghostVars
  <2>2. \A p \in DataPage : file[p] >= acked[p] /\ disk[p] = file[p]
    BY <2>1, ReplayedDefs DEF LogInv, Platter, PlatterInOrder
  <2>3. PlatterCovers'
    BY <2>1, <2>2, NothingLogged DEF Platter, PlatterCovers, Covers
  <2>4. SlotsSynced' /\ PlatterInOrder'
    BY <2>1 DEF Platter, SlotsSynced, PlatterInOrder
  <2>5. CommitsLogged'
    BY <1>0, <2>1 DEF CommitsLogged, Committing
  <2> QED BY <2>3, <2>4, <2>5 DEF Platter
<1>4. ASSUME TruncateHeader PROVE Platter'
  <2>1. /\ phase = "header" /\ phase' = "walsync" /\ log = <<>> /\ count' = 0
        /\ UNCHANGED <<file, disk, log, walDisk, acked, pc>>
    BY <1>4 DEF TruncateHeader, pageVars, threadVars, ghostVars, LogInv
  <2>2. PlatterCovers'
    BY <2>1, NothingLogged DEF Platter, PlatterCovers, Covers
  <2>3. SlotsSynced' /\ PlatterInOrder'
    <3>1. SlotsSynced'
      BY <2>1 DEF SlotsSynced
    <3>2. Len(log') = 0
      BY <2>1
    <3> QED BY <2>1, <3>1, <3>2 DEF Platter, PlatterInOrder
  <2>4. CommitsLogged'
    BY <1>0, <2>1 DEF CommitsLogged, Committing
  <2> QED BY <2>2, <2>3, <2>4 DEF Platter
<1>5. ASSUME SyncWal PROVE Platter'
  <2>1. /\ phase = "walsync" /\ phase' = "down" /\ log = <<>> /\ walDisk' = [log |-> <<>>, count |-> count]
        /\ count \in Nat
        /\ UNCHANGED <<file, disk, log, count, acked, pc>>
    BY <1>5 DEF SyncWal, pageVars, threadVars, ghostVars, LogInv
  <2>2. \A p \in DataPage : file[p] >= acked[p] /\ disk[p] = file[p]
    BY <2>1, NothingLogged DEF Platter, PlatterInOrder
  <2>3. PlatterCovers'
    BY <2>1, <2>2, NothingLogged DEF PlatterCovers, Covers
  <2>4. SlotsSynced'
    BY <2>1 DEF SlotsSynced
  <2>5. PlatterInOrder'
    <3>1. count = 0
      BY <1>5 DEF SyncWal, Platter, PlatterInOrder
    <3> QED BY <2>1, <3>1 DEF PlatterInOrder
  <2>6. CommitsLogged'
    BY <1>0, <2>1 DEF CommitsLogged, Committing
  <2> QED BY <2>3, <2>4, <2>5, <2>6 DEF Platter
<1> QED BY <1>1, <1>2, <1>3, <1>4, <1>5 DEF Shut

\* A replayed entry is in the synced log too, or no older than what was acknowledged.
LEMMA PlatterReplay ==
    ASSUME Known, Platter, ReplayEntry
    PROVE  Platter'
<1> DEFINE e == log[cursor]
<1>1. /\ phase = "replay" /\ phase' = "replay" /\ cursor \in 1 .. count /\ cursor \in 1 .. Len(log)
      /\ file' = [file EXCEPT ![e.page] = e.img]
      /\ UNCHANGED <<disk, log, count, walDisk, acked, pc>>
  BY DEF ReplayEntry, walVars, threadVars, ghostVars, Known, TypeInv, TypeOK
<1>2. e \in Entry /\ file \in [Page -> Nat]
  <2>1. log \in Seq(Entry) /\ file \in [Page -> Nat]
    BY DEF Known, TypeInv, TypeOK
  <2> QED BY ONLY <1>1, <2>1
<1>3. \A t \in Threads : pc'[t] = "idle"
  BY <1>1 DEF Known, FreshInv
<1>4. ASSUME NEW p \in DataPage PROVE ReplayedIn(file', walDisk.log, walDisk.count, p) >= acked[p]
  <2>1. CASE LoggedIn(walDisk.log, walDisk.count, p) # {} \/ file'[p] = file[p]
    <3>1. ReplayedIn(file', walDisk.log, walDisk.count, p) = ReplayedIn(file, walDisk.log, walDisk.count, p)
      BY <2>1, ReplayPicks
    <3> QED BY <3>1 DEF Platter, PlatterCovers, Covers
  <2>2. CASE LoggedIn(walDisk.log, walDisk.count, p) = {} /\ file'[p] # file[p]
    <3>1. p = e.page /\ file'[p] = e.img /\ p # 0 /\ p \in Page
      BY <1>1, <1>2, <2>2 DEF DataPage
    <3>2. ~Same(cursor)
      <4>1. ASSUME Same(cursor) PROVE cursor \in LoggedIn(walDisk.log, walDisk.count, p)
        BY <1>1, <3>1, <4>1 DEF Same, LoggedIn
      <4> QED BY <2>2, <4>1
    <3>3. cursor <= Len(log) /\ log[cursor].page = p /\ log[cursor].img = file'[p]
      BY <1>1, <3>1
    <3>4. log[cursor].img >= acked[p]
      BY <1>1, <3>1, <3>2, <3>3 DEF Platter, SlotsSynced
    <3> QED BY <2>2, <3>3, <3>4, ReplayPicks
  <2> QED BY <2>1, <2>2
<1>5. PlatterCovers'
  BY <1>1, <1>4 DEF Platter, PlatterCovers, Covers
<1>6. SlotsSynced' /\ PlatterInOrder'
  BY <1>1 DEF Platter, SlotsSynced, PlatterInOrder, Same
<1>7. CommitsLogged'
  BY <1>3 DEF CommitsLogged, Committing
<1> QED BY <1>5, <1>6, <1>7 DEF Platter

-----------------------------------------------------------------------------
(* The power failure *)

\* What a readable platter holds in its counted slots: the synced entries, and
\* after them entries written since.
LEMMA PlatterSlots ==
    ASSUME Known, Platter, PowerFailure, ~Overwriting, Readable'
    PROVE  /\ \A i \in 1 .. walDisk.count : i <= count' => log'[i] = walDisk.log[i]
           /\ \A i \in 1 .. count' : i > walDisk.count => i \in 1 .. count /\ i \in 1 .. Len(log) /\ log'[i] = log[i]
           /\ count' = 0 \/ count' >= walDisk.count
           /\ count' = 0 /\ walDisk.count # 0 => log = <<>> /\ count = 0
<1>1. /\ log \in Seq(Entry) /\ walDisk.log \in Seq(Entry) /\ count \in Nat /\ walDisk.count \in Nat
      /\ Len(log) \in Nat /\ Len(walDisk.log) \in Nat
  BY DEF Known, TypeInv, TypeOK
<1>2. /\ log' \in Seq(Entry)
      /\ \A i \in 1 .. Len(log') :
            \/ log'[i] = Torn
            \/ i \in 1 .. Len(log) /\ log'[i] = log[i]
            \/ i \in 1 .. Len(walDisk.log) /\ log'[i] = walDisk.log[i]
  BY <1>1, PlatterLog
<1>3. /\ count' \in Nat
      /\ count' = walDisk.count \/ (IF walDisk.count <= count THEN count' \in walDisk.count .. count
                                                             ELSE count' \in 0 .. count)
  BY <1>1 DEF PowerFailure, Headers
<1>4. count' <= Len(log') /\ \A i \in 1 .. count' : log'[i] # Torn /\ i \in 1 .. Len(log')
  BY <1>2, <1>3 DEF Readable
<1>5. walDisk.count <= Len(walDisk.log) /\ \A i \in 1 .. walDisk.count : walDisk.log[i] # Torn
  BY DEF Platter, PlatterInOrder
<1>6. ASSUME NEW i \in 1 .. count, Slot(walDisk.log, i) # Torn
      PROVE  i <= walDisk.count /\ walDisk.count <= count /\ (i <= Len(log) => log[i] = walDisk.log[i])
  BY <1>1, <1>6 DEF Overwriting
<1>7. ASSUME NEW i \in 1 .. walDisk.count
      PROVE  i \in 1 .. Len(walDisk.log) /\ Slot(walDisk.log, i) # Torn
  BY <1>1, <1>5 DEF Slot
<1>8. CASE walDisk.count > count
  <2>1. count = 0
    <3>1. SUFFICES ASSUME count # 0 PROVE FALSE
      OBVIOUS
    <3>2. 1 \in 1 .. count /\ 1 \in 1 .. walDisk.count
      BY <1>1, <1>8, <3>1
    <3>3. walDisk.count <= count
      BY <1>6, <1>7, <3>2
    <3> QED BY <1>1, <1>8, <3>3
  <2>2. log = <<>>
    <3>1. Len(log) = 0
      BY <1>1, <1>8, <2>1 DEF Platter, PlatterInOrder
    <3> QED BY <1>1, <3>1
  <2>3. count' = 0 \/ count' = walDisk.count
    BY <1>1, <1>3, <1>8, <2>1
  <2>4. \A i \in 1 .. walDisk.count : i <= count' => log'[i] = walDisk.log[i]
    <3> SUFFICES ASSUME NEW i \in 1 .. walDisk.count, i <= count' PROVE log'[i] = walDisk.log[i]
      OBVIOUS
    <3>1. i \in 1 .. count'
      BY <1>3
    <3>2. i \notin 1 .. Len(log)
      BY <2>2
    <3> QED BY <1>2, <1>4, <3>1, <3>2
  <2> QED BY <1>1, <1>3, <2>1, <2>2, <2>3, <2>4
<1>9. CASE walDisk.count <= count
  <2>1. count' \in walDisk.count .. count
    BY <1>1, <1>3, <1>9
  <2>2. ASSUME NEW i \in 1 .. walDisk.count, i <= count' PROVE log'[i] = walDisk.log[i]
    <3>1. i \in 1 .. count' /\ i \in 1 .. count
      BY <1>1, <1>3, <1>9, <2>2
    <3>2. i \in 1 .. Len(log) => log[i] = walDisk.log[i]
      BY <1>6, <1>7, <3>1
    <3> QED BY <1>2, <1>4, <3>1, <3>2
  <2>3. ASSUME NEW i \in 1 .. count', i > walDisk.count
        PROVE  i \in 1 .. count /\ i \in 1 .. Len(log) /\ log'[i] = log[i]
    <3>1. i \in 1 .. count
      BY <1>1, <2>1
    <3>2. Slot(walDisk.log, i) = Torn
      BY <1>1, <1>6, <2>3, <3>1
    <3>3. ~(i \in 1 .. Len(walDisk.log) /\ log'[i] = walDisk.log[i])
      BY <1>4, <3>2 DEF Slot
    <3> QED BY <1>2, <1>4, <3>1, <3>3
  <2> QED BY <1>1, <1>3, <2>1, <2>2, <2>3
<1> QED BY <1>1, <1>8, <1>9

\* Replaying what a power failure left covers what was acknowledged.
LEMMA PowerCovers ==
    ASSUME Known, Platter, PowerFailure, ~Overwriting, Readable', NEW p \in DataPage
    PROVE  ReplayedIn(file', log', count', p) >= acked[p]
<1>1. /\ log \in Seq(Entry) /\ walDisk.log \in Seq(Entry) /\ count \in Nat /\ walDisk.count \in Nat
      /\ Len(log) \in Nat /\ Len(walDisk.log) \in Nat
  BY DEF Known, TypeInv, TypeOK
<1>2. log' \in Seq(Entry) /\ count' \in Nat /\ Len(log') \in Nat
  <2>1. count' \in Nat
    BY <1>1 DEF PowerFailure, Headers
  <2> QED BY <1>1, <2>1, PlatterLog
<1>3. file'[p] = file[p] \/ file'[p] = disk[p]
  BY DEF PowerFailure, DataPage
<1>4. ASSUME NEW l, NEW c, ReplayedIn(file, l, c, p) >= acked[p], ReplayedIn(disk, l, c, p) >= acked[p]
      PROVE  ReplayedIn(file', l, c, p) >= acked[p]
  <2>1. \/ ReplayedIn(file', l, c, p) = ReplayedIn(file, l, c, p)
        \/ ReplayedIn(file', l, c, p) = ReplayedIn(disk, l, c, p)
    BY <1>3, ReplayPicks
  <2> QED BY <1>4, <2>1
<1>5. /\ ReplayedIn(file, log, count, p) >= acked[p] /\ ReplayedIn(disk, log, count, p) >= acked[p]
      /\ ReplayedIn(file, walDisk.log, walDisk.count, p) >= acked[p]
      /\ ReplayedIn(disk, walDisk.log, walDisk.count, p) >= acked[p]
  BY DEF Known, Platter, PlatterCovers, Covers
<1>6. /\ \A i \in 1 .. walDisk.count : i <= count' => log'[i] = walDisk.log[i]
      /\ \A i \in 1 .. count' : i > walDisk.count => i \in 1 .. count /\ i \in 1 .. Len(log) /\ log'[i] = log[i]
      /\ count' = 0 \/ count' >= walDisk.count
      /\ count' = 0 /\ walDisk.count # 0 => log = <<>> /\ count = 0
  BY PlatterSlots
<1>7. count' <= Len(log') /\ walDisk.count <= Len(walDisk.log)
  BY DEF Readable, Platter, PlatterInOrder
<1>8. CASE count' = 0 /\ walDisk.count # 0
  <2>1. LoggedIn(log', 0, p) = {} /\ LoggedIn(<<>>, 0, p) = {}
    BY <1>2 DEF LoggedIn
  <2>2. ReplayedIn(file', log', 0, p) = file'[p] /\ ReplayedIn(file', <<>>, 0, p) = file'[p]
    BY <2>1, ReplayPicks
  <2>3. ReplayedIn(file', <<>>, 0, p) >= acked[p]
    BY <1>4, <1>5, <1>6, <1>8
  <2> QED BY <1>8, <2>2, <2>3
<1>9. CASE count' >= walDisk.count /\ \E i \in LoggedIn(log', count', p) : i > walDisk.count
  <2>1. LoggedIn(log', count', p) # {}
    BY <1>9
  <2>2. PICK i \in LoggedIn(log', count', p) : \A j \in LoggedIn(log', count', p) : j <= i
    BY <1>2, <2>1, LastEntryExists
  <2>3. ReplayedIn(file', log', count', p) = log'[i].img
    BY <1>2, <2>2, LastEntryWins
  <2>4. i > walDisk.count /\ i \in 1 .. count' /\ log'[i].page = p
    BY <1>1, <1>2, <1>9, <2>2 DEF LoggedIn
  <2>5. i \in 1 .. count /\ i <= Len(log) /\ log'[i] = log[i]
    BY <1>1, <1>6, <2>4
  <2>6. ~Same(i)
    BY <1>1, <2>4, <2>5 DEF Same
  <2>7. log[i].img >= acked[p]
    BY <2>4, <2>5, <2>6 DEF Platter, SlotsSynced, DataPage
  <2> QED BY <2>3, <2>5, <2>7
<1>10. CASE count' >= walDisk.count /\ \A i \in LoggedIn(log', count', p) : ~(i > walDisk.count)
  <2>1. \A i \in 1 .. walDisk.count : log'[i] = walDisk.log[i] /\ i \in 1 .. Len(log') /\ i \in 1 .. Len(walDisk.log)
    BY <1>1, <1>2, <1>6, <1>7, <1>10
  <2>2. LoggedIn(log', count', p) = LoggedIn(walDisk.log, walDisk.count, p)
    BY <1>1, <1>2, <1>10, <2>1 DEF LoggedIn
  <2>3. \A i \in LoggedIn(log', count', p) : log'[i] = walDisk.log[i]
    BY <1>1, <2>1, <2>2 DEF LoggedIn
  <2>4. ReplayedIn(file', log', count', p) = ReplayedIn(file', walDisk.log, walDisk.count, p)
    BY <1>1, <1>2, <2>2, <2>3, SameEntries
  <2>5. ReplayedIn(file', walDisk.log, walDisk.count, p) >= acked[p]
    BY <1>4, <1>5
  <2> QED BY <2>4, <2>5
<1>11. count' >= walDisk.count \/ (count' = 0 /\ walDisk.count # 0)
  BY <1>1, <1>2, <1>6
<1> QED BY <1>8, <1>9, <1>10, <1>11

\* After a power failure what is written is what is synced.
LEMMA PlatterPower ==
    ASSUME Known, Platter, PowerFailure, ~Overwriting, Readable'
    PROVE  Platter' /\ \A p \in DataPage : ReplayedIn(file', log', count', p) >= acked'[p]
<1>1. /\ disk' = file' /\ walDisk' = [log |-> log', count |-> count'] /\ acked' = acked
      /\ phase' = "down" /\ \A t \in Threads : pc'[t] = "idle"
  BY DEF PowerFailure, Forget
<1>2. \A p \in DataPage : ReplayedIn(file', log', count', p) >= acked[p]
  BY PowerCovers
<1>3. PlatterCovers'
  BY <1>1, <1>2 DEF PlatterCovers, Covers
<1>4. SlotsSynced'
  <2>1. \A i \in 1 .. count' : i <= Len(log') => Same(i)'
    <3>1. count' \in Nat
      BY DEF PowerFailure, Headers, Known, TypeInv, TypeOK
    <3> QED BY <1>1, <3>1 DEF Same
  <2> QED BY <2>1 DEF SlotsSynced
<1>5. PlatterInOrder'
  <2>1. count' \in Nat
    BY DEF PowerFailure, Headers, Known, TypeInv, TypeOK
  <2> QED BY <1>1, <2>1 DEF PlatterInOrder, Readable
<1>6. CommitsLogged'
  BY <1>1 DEF CommitsLogged, Committing
<1> QED BY <1>1, <1>2, <1>3, <1>4, <1>5, <1>6 DEF Platter

-----------------------------------------------------------------------------
(* The theorem *)

\* The inductive invariant behind it.
KeepInv == RedoInv /\ (errors = 0 /\ ~raced => CoverInv /\ DurableInv)

\* Every step keeps it.
LEMMA KeepStep == ASSUME Immediate PROVE KeepInv /\ [Next]_vars => KeepInv'
<1> SUFFICES ASSUME KeepInv, [Next]_vars, errors' = 0, ~raced' PROVE CoverInv' /\ DurableInv'
  BY RedoStep DEF KeepInv, Immediate, Setting
<1>1. Setting /\ RedoInv'
  BY RedoStep DEF KeepInv, Immediate, Setting
<1>2. errors = 0 /\ ~raced
  BY ErrorsStay, RacedStays DEF KeepInv, RedoInv
<1>3. /\ TypeInv /\ ImageInv /\ FreshInv /\ OwnInv /\ ZeroInv /\ LogInv /\ CoverInv /\ DurableInv
      /\ TypeInv' /\ OwnInv'
  BY <1>1, <1>2 DEF KeepInv, RedoInv
<1>4. ASSUME Sure PROVE Known /\ Platter
  BY <1>2, <1>3, <1>4, ReplayedDefs DEF Known, CoverInv, DurableInv
<1>5. Sure' => Sure
  BY <1>3, SureStep
<1>6. CASE PowerFailure
  <2> SUFFICES ASSUME Sure' PROVE CoverInv' /\ Platter'
    BY DEF CoverInv, DurableInv
  <2>1. ~Overwriting /\ Readable' /\ phase' = "down"
    BY <1>6 DEF PowerFailure, Forget, Sure
  <2>2. Platter' /\ \A p \in DataPage : ReplayedIn(file', log', count', p) >= acked'[p]
    BY <1>4, <1>5, <1>6, <2>1, PlatterPower
  <2> QED BY <2>1, <2>2, ReplayedDefs DEF CoverInv, DataPage, Page
<1>7. CASE ~PowerFailure
  <2>1. CoverInv'
    BY <1>1, <1>2, <1>3, <1>7, CoverStep
  <2>2. DurableInv'
    <3> SUFFICES ASSUME Sure' PROVE Platter'
      BY DEF DurableInv
    <3>1. Known /\ Platter
      BY <1>4, <1>5
    <3>2. ASSUME NEW t \in Threads, \/ FinishLog(t) \/ Return(t) \/ \E p \in Page : AppendPageImage(t, p)
          PROVE  Platter'
      BY <3>1, <3>2, PlatterFinish, PlatterReturn, PlatterAppend
    <3>3. ASSUME Shut \/ ReplayEntry PROVE Platter'
      BY <3>1, <3>3, PlatterShut, PlatterReplay
    <3>4. ASSUME \/ \E t \in Threads : \/ BeginWrite(t) \/ Publish(t) \/ Release(t) \/ LockWal(t)
                                       \/ PersistRegistry(t) \/ ErrorExit(t)
                                       \/ (\E tb \in Tables : LockTable(t, tb) \/ CommitTransaction(t, tb))
                                       \/ (\E S \in SUBSET Page, k \in 0 .. 1 : Mutate(t, S, k))
                 \/ \E r \in Readers : Read(r)
                 \/ Drop \/ ProcessCrash \/ OpenClean \/ OpenDirty \/ UNCHANGED vars
          PROVE  Platter'
      BY <1>3, <3>1, <3>4, PlatterQuiet
    <3> QED BY <1>7, <3>2, <3>3, <3>4 DEF Next, Step, Open
  <2> QED BY <2>1, <2>2
<1> QED BY <1>6, <1>7

\* Once open() succeeds after power losses, process crashes and interrupted
\* recoveries, every table page is at least as new as what an Immediate commit
\* acknowledged, until an ACID commit overlaps another operation on its table.
THEOREM AckedIsKept ==
    ASSUME Immediate PROVE Spec => []AckedSurvives
<1>1. KeepInv => AckedSurvives
  <2> SUFFICES ASSUME KeepInv, phase = "up", errors = 0, ~damaged, ~raced, NEW p \in TablePages
               PROVE  View(p) >= acked[p]
    BY DEF AckedSurvives
  <2>1. p \in DataPage
    BY TablePagesAreData DEF KeepInv, RedoInv
  <2>2. Sure
    BY DEF Sure
  <2> QED BY <2>1, <2>2 DEF KeepInv, CoverInv
<1>2. Init => KeepInv
  BY RedoInit, CoverInit, PlatterInit DEF KeepInv, DurableInv, Immediate, Setting
<1>3. KeepInv /\ [Next]_vars => KeepInv'
  BY KeepStep
<1> QED BY <1>1, <1>2, <1>3, PTL DEF Spec
=============================================================================
