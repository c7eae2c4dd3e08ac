------------------------------- MODULE PageStore -------------------------------
(***************************************************************************)
(* The page file, its write guard and the redo log, from file.rs, wal.rs   *)
(* and the commit, open and drop paths of db.rs.                           *)
(*                                                                         *)
(* A page image is the number of the commit that produced it; 0 stands for *)
(* "no page" (a hole in the file, an empty cache slot).  Every operation   *)
(* of the database reaches pages the same way:                             *)
(*                                                                         *)
(*    take the table lock; take the write mutex; change pages in the dirty *)
(*    overlay; publish the overlay to the cache; bump num_pages; release   *)
(*    the write mutex; take the WAL mutex; append one entry per page; fsync *)
(*    if Immediate; release everything.                                    *)
(*                                                                         *)
(* The registry (page 0) is written along the same path without any table  *)
(* lock, and so are the pages of an ACID transaction: its commit takes the *)
(* table lock only after the log, for the metadata.                        *)
(*                                                                         *)
(* `file' and `log' are what the process wrote (the operating system's     *)
(* view, which survives a process crash); `disk' and `walDisk' are what    *)
(* fsync made durable (what survives a power loss).                        *)
(***************************************************************************)
EXTENDS Integers, Sequences, FiniteSets

CONSTANTS Threads,      \* callers running operations on the shared handle
          Readers,      \* callers inside PageFile::read_page
          Tables,       \* user tables
          Registry,     \* the system page's pseudo table
          Nobody,       \* no lock holder
          RootOf,       \* the root page each table starts with
          MaxPages,     \* bound on the file's length
          MaxCommits,   \* bound on the number of published commits
          MaxCrashes,   \* bound on crashes
          MaxErrors,    \* bound on operations that fail with the guard open
          PowerLoss,    \* TRUE when a crash may be a power loss
          Durability    \* "immediate", "normal" or "none"

Page == 0 .. MaxPages - 1
Owners == Tables \cup {Registry}

\* The database starts as a clean shutdown left it: page 0 and the roots.
InitialPages == {0} \cup {RootOf[tb] : tb \in Tables}

ASSUME BoundsAssumption ==
    /\ MaxPages \in Nat /\ MaxCommits \in Nat /\ MaxCrashes \in Nat /\ MaxErrors \in Nat
    /\ PowerLoss \in BOOLEAN
    /\ Durability \in {"immediate", "normal", "none"}

ASSUME NamesAssumption ==
    /\ Nobody \notin Threads
    /\ Registry \notin Tables
    /\ Nobody \notin Tables \cup {Registry}

ASSUME RootsAssumption ==
    /\ 0 \in Page
    /\ RootOf \in [Tables -> Page \ {0}]
    /\ \A a, b \in Tables : RootOf[a] = RootOf[b] => a = b

VARIABLES
    numPages,   \* PageFile.num_pages
    cache,      \* PageFile.pages: image per slot, 0 = None
    file,       \* the data file as written
    disk,       \* the data file as of its last fsync
    holder,     \* who holds write_state (the open WriteGuard)
    dirty,      \* WriteState.dirty: the pages of the overlay
    newPages,   \* WriteState.new_page_count
    log,        \* the entry slots of the WAL file as written
    count,      \* the WAL header's entry_count as written: the slots in use
    walDisk,    \* log and count as of the WAL's last fsync
    walHolder,  \* who holds the WAL mutex
    lock,       \* table -> thread holding its write lock
    owner,      \* page -> whose tree it belongs to
    pc,         \* where each thread is in its operation
    op,         \* what it works on: a table or the registry
    img,        \* the commit number of its after-images
    todo,       \* after-images it has not appended yet
    rpc, rpage, rimg,   \* read_page: step, page number, image read from disk
    phase,      \* the life cycle of the handle
    cursor,     \* next WAL entry to replay / next page to flush
    commits,    \* published commits so far
    crashes, errors,
    acked,      \* page -> newest image an acknowledged commit wrote
    writes,     \* commit -> pages it published
    spoiled,    \* pages in the overlay that a failed operation left there
    damaged,    \* a power loss hit a log with unsynced entries over older ones
    acid,       \* the threads inside AcidTransaction::commit
    raced       \* one of them has overlapped another operation on its table

pageVars == <<numPages, cache, file, disk>>
guardVars == <<holder, dirty, newPages, spoiled>>
walVars == <<log, count, walDisk, walHolder>>
threadVars == <<lock, pc, op, img, todo>>
readVars == <<rpc, rpage, rimg>>
lifeVars == <<phase, cursor, crashes>>
ghostVars == <<commits, acked, writes, owner, damaged, acid, raced>>
vars == <<pageVars, guardVars, walVars, threadVars, readVars, lifeVars, ghostVars, errors>>

Image == 0 .. MaxCommits + 1
Entry == [page : Page, img : Nat]
Torn == [page |-> 0, img |-> 0]     \* an entry whose checksum does not match

\* The number of pages PageFile::open derives from a file's length: the least
\* number above every page written.
FileEnds(f) == {n \in 0 .. MaxPages : \A p \in Page : f[p] # 0 => p < n}
PagesOf(f) == CHOOSE n \in FileEnds(f) : \A m \in FileEnds(f) : n <= m

\* What read_page returns for a page in range: the cached copy, else the file's.
View(p) == IF cache[p] # 0 THEN cache[p] ELSE file[p]

\* read_entries: every counted entry is present and has a valid checksum.
Readable == /\ count <= Len(log)
            /\ \A i \in 1 .. count : log[i] # Torn

Init ==
    /\ file = [p \in Page |-> IF p \in InitialPages THEN 1 ELSE 0]
    /\ disk = file
    /\ cache = [p \in Page |-> 0]
    /\ numPages = PagesOf(file)
    /\ holder = Nobody /\ dirty = {} /\ newPages = 0 /\ spoiled = {}
    /\ log = <<>> /\ count = 0 /\ walDisk = [log |-> <<>>, count |-> 0]
    /\ walHolder = Nobody
    /\ lock = [tb \in Tables |-> Nobody]
    /\ owner = [p \in Page |-> IF \E tb \in Tables : RootOf[tb] = p
                               THEN CHOOSE tb \in Tables : RootOf[tb] = p
                               ELSE Registry]
    /\ pc = [t \in Threads |-> "idle"]
    /\ op = [t \in Threads |-> Registry]
    /\ img = [t \in Threads |-> 0]
    /\ todo = [t \in Threads |-> {}]
    /\ rpc = [r \in Readers |-> "idle"]
    /\ rpage = [r \in Readers |-> 0]
    /\ rimg = [r \in Readers |-> 0]
    /\ phase = "up" /\ cursor = 0
    /\ commits = 1
    /\ crashes = 0 /\ errors = 0
    /\ acked = file
    /\ writes = [c \in Image |-> {}]
    /\ damaged = FALSE
    /\ acid = {} /\ raced = FALSE

------------------------------------------------------------------------------
(* Writers *)

\* Bound: an operation starts only while its commit stays below MaxCommits.
MayCommit == commits + Cardinality({t \in Threads : pc[t] \in {"locked", "open", "mutated"}})
                <= MaxCommits

\* An operation of one of the threads in S works on table tb.
Busied(tb, S) == \E u \in S : pc[u] # "idle" /\ op[u] = tb

\* An operation on table tb write-locks its TableState (insert, update, ...)
\* and keeps the lock until it returns: the callers of commit_write.
LockTable(t, tb) ==
    /\ phase = "up" /\ pc[t] = "idle" /\ MayCommit /\ lock[tb] = Nobody
    /\ lock' = [lock EXCEPT ![tb] = t]
    /\ op' = [op EXCEPT ![t] = tb]
    /\ pc' = [pc EXCEPT ![t] = "locked"]
    /\ raced' = (raced \/ Busied(tb, acid))
    /\ UNCHANGED <<pageVars, guardVars, walVars, img, todo, readVars, lifeVars, commits, acked,
                   writes, owner, damaged, acid, errors>>

\* AcidTransaction::commit on the pages a transaction changed in table tb (also
\* every insert, update or delete by itself under set_acid(true)): from
\* begin_write to the log no table lock is held.  Its pages were changed in
\* private and enter the overlay by inject_dirty and set_new_page_count, which
\* Mutate stands for; new pages are numbered from the file's current count
\* (AcidTx has the counts that are out of date).  Left out: a transaction of
\* several tables, and one that runs while the overlay holds a failed
\* operation's pages, which its own operations would take along.
CommitTransaction(t, tb) ==
    /\ phase = "up" /\ pc[t] = "idle" /\ MayCommit /\ spoiled = {}
    /\ acid' = acid \cup {t}
    /\ op' = [op EXCEPT ![t] = tb]
    /\ pc' = [pc EXCEPT ![t] = "locked"]
    /\ raced' = (raced \/ Busied(tb, Threads))
    /\ UNCHANGED <<pageVars, guardVars, walVars, lock, img, todo, readVars, lifeVars, commits, acked,
                   writes, owner, damaged, errors>>

\* persist_registry runs with a snapshot of the metas and holds no table lock.
PersistRegistry(t) ==
    /\ phase = "up" /\ pc[t] = "idle" /\ MayCommit
    /\ op' = [op EXCEPT ![t] = Registry]
    /\ pc' = [pc EXCEPT ![t] = "locked"]
    /\ UNCHANGED <<pageVars, guardVars, walVars, lock, img, todo, readVars, lifeVars, ghostVars, errors>>

\* PageFile::begin_write: block on the write mutex.
BeginWrite(t) ==
    /\ phase = "up" /\ pc[t] = "locked" /\ holder = Nobody
    /\ holder' = t
    /\ pc' = [pc EXCEPT ![t] = "open"]
    /\ UNCHANGED <<pageVars, dirty, newPages, spoiled, walVars, lock, op, img, todo,
                   readVars, lifeVars, ghostVars, errors>>

\* The pages a thread's operation may change: those of its own tree that
\* read_page can load.
Mine(t) == {p \in Page : /\ p < numPages /\ View(p) # 0
                         /\ owner[p] = op[t] /\ (op[t] = Registry => p = 0)}

\* WriteGuard::allocate_page: the next number past the end of the file.
AllocatedBy(k) == {p \in Page : numPages + newPages <= p /\ p < numPages + newPages + k}

\* The operation's page changes (write_page, put_page, allocate_page).  They
\* only reach the overlay, which no other thread can see while the mutex is
\* held, so they are one step.  (Left out: the overflow pages that a registry too
\* large for page 0 allocates, and the root that create_table allocates before its
\* table exists; no other operation works on either before the commit is done.)
Mutate(t, S, k) ==
    /\ phase = "up" /\ pc[t] = "open"
    /\ S \subseteq Mine(t) /\ (S # {} \/ k > 0)
    /\ numPages + newPages + k <= MaxPages
    /\ op[t] = Registry => k = 0
    /\ dirty' = dirty \cup S \cup AllocatedBy(k)
    /\ newPages' = newPages + k
    /\ owner' = [p \in Page |-> IF p \in AllocatedBy(k) THEN op[t] ELSE owner[p]]
    /\ pc' = [pc EXCEPT ![t] = "mutated"]
    /\ UNCHANGED <<pageVars, holder, spoiled, walVars, lock, op, img, todo, readVars,
                   lifeVars, commits, acked, writes, damaged, acid, raced, errors>>

Unlock(t) == lock' = [tb \in Tables |-> IF lock[tb] = t THEN Nobody ELSE lock[tb]]

\* Mutant: the page count is reset and the pages stay.
ErrorExitKeepsPages(t) ==
    /\ phase = "up" /\ pc[t] = "mutated" /\ op[t] # Registry
    /\ errors < MaxErrors /\ acid = {}
    /\ errors' = errors + 1
    /\ spoiled' = spoiled \cup dirty
    /\ newPages' = 0
    /\ holder' = Nobody
    /\ Unlock(t)
    /\ op' = [op EXCEPT ![t] = Registry]
    /\ pc' = [pc EXCEPT ![t] = "idle"]
    /\ UNCHANGED <<pageVars, dirty, walVars, img, todo, readVars, lifeVars, ghostVars>>

\* The operation returns Err with the guard open (insert_many on RowTooLarge,
\* create_index_ex on UniqueViolation).  WriteGuard has no Drop: the mutex is
\* released and the overlay stays as it is.  (No transaction commits meanwhile.)
ErrorExit(t) ==
    /\ phase = "up" /\ pc[t] = "mutated" /\ op[t] # Registry
    /\ errors < MaxErrors /\ acid = {}
    /\ errors' = errors + 1
    /\ spoiled' = spoiled \cup dirty
    /\ holder' = Nobody
    /\ Unlock(t)
    /\ op' = [op EXCEPT ![t] = Registry]
    /\ pc' = [pc EXCEPT ![t] = "idle"]
    /\ UNCHANGED <<pageVars, dirty, newPages, walVars, img, todo, readVars, lifeVars, ghostVars>>

\* WriteGuard::commit, first half: every dirty page enters the cache under one
\* write lock, as the after-images of the next commit.
Publish(t) ==
    /\ phase = "up" /\ pc[t] = "mutated"
    /\ commits' = commits + 1
    /\ cache' = [p \in Page |-> IF p \in dirty THEN commits + 1 ELSE cache[p]]
    /\ writes' = [writes EXCEPT ![commits + 1] = dirty]
    /\ img' = [img EXCEPT ![t] = commits + 1]
    /\ todo' = [todo EXCEPT ![t] = dirty]
    /\ pc' = [pc EXCEPT ![t] = "published"]
    /\ UNCHANGED <<numPages, file, disk, guardVars, walVars, lock, op, readVars, lifeVars,
                   acked, owner, damaged, acid, raced, errors>>

\* What the guard leaves behind: the new num_pages and an empty overlay.  The
\* mutants count the new pages twice, or keep the overlay.
GrownTwice == numPages + 2 * newPages
Grown == numPages + newPages
NotCleared == dirty
Cleared == {}

\* Mutant: the table lock goes with the write mutex, before the log is written.
ReleaseAndUnlock(t) ==
    /\ phase = "up" /\ pc[t] = "published"
    /\ numPages' = Grown
    /\ dirty' = Cleared /\ newPages' = 0 /\ spoiled' = {}
    /\ holder' = Nobody
    /\ Unlock(t)
    /\ pc' = [pc EXCEPT ![t] = IF Durability = "none" THEN "logged" ELSE "unlogged"]
    /\ UNCHANGED <<cache, file, disk, walVars, op, img, todo, readVars, lifeVars, ghostVars, errors>>

\* WriteGuard::commit, second half: num_pages grows, the overlay is cleared
\* and the write mutex is released, before anything is in the WAL.
Release(t) ==
    /\ phase = "up" /\ pc[t] = "published"
    /\ numPages' = Grown
    /\ dirty' = Cleared /\ newPages' = 0 /\ spoiled' = {}
    /\ holder' = Nobody
    /\ pc' = [pc EXCEPT ![t] = IF Durability = "none" THEN "logged" ELSE "unlogged"]
    /\ UNCHANGED <<cache, file, disk, walVars, lock, op, img, todo, readVars, lifeVars,
                   ghostVars, errors>>

\* commit_write: take the WAL mutex ...
LockWal(t) ==
    /\ phase = "up" /\ pc[t] = "unlogged" /\ walHolder = Nobody
    /\ walHolder' = t
    /\ pc' = [pc EXCEPT ![t] = "logging"]
    /\ UNCHANGED <<pageVars, guardVars, log, count, walDisk, lock, op, img, todo, readVars,
                   lifeVars, ghostVars, errors>>

\* ... append the after-images one by one, in the overlay's arbitrary iteration
\* order.  append_page_image writes the entry into the slot after the counted ones
\* (open() does not cut the file there, so the slot may hold an older entry) and
\* then the header's entry_count: one step here, because an entry beyond the count
\* is not replayed and the next append writes over it, so a process that dies
\* between the two leaves what it would have left before the first ...
InSlot(l, k, e) == [i \in 1 .. (IF k > Len(l) THEN k ELSE Len(l)) |-> IF i = k THEN e ELSE l[i]]
AppendPageImage(t, p) ==
    /\ phase = "up" /\ pc[t] = "logging" /\ p \in todo[t]
    /\ log' = InSlot(log, count + 1, [page |-> p, img |-> img[t]])
    /\ count' = count + 1
    /\ todo' = [todo EXCEPT ![t] = @ \ {p}]
    /\ UNCHANGED <<pageVars, guardVars, walDisk, walHolder, lock, pc, op, img, readVars,
                   lifeVars, ghostVars, errors>>

\* What wal.sync makes durable, which is called only under Immediate.
NotSynced == walDisk
Synced == IF Durability = "immediate" THEN [log |-> log, count |-> count] ELSE walDisk

\* Mutant: the WAL mutex is not released.
FinishLogLocked(t) ==
    /\ phase = "up" /\ pc[t] = "logging" /\ todo[t] = {}
    /\ walDisk' = Synced
    /\ pc' = [pc EXCEPT ![t] = "logged"]
    /\ UNCHANGED <<pageVars, guardVars, log, count, walHolder, lock, op, img, todo, readVars,
                   lifeVars, ghostVars, errors>>

\* ... and fsync only under Immediate.
FinishLog(t) ==
    /\ phase = "up" /\ pc[t] = "logging" /\ todo[t] = {}
    /\ walDisk' = Synced
    /\ walHolder' = Nobody
    /\ pc' = [pc EXCEPT ![t] = "logged"]
    /\ UNCHANGED <<pageVars, guardVars, log, count, lock, op, img, todo, readVars, lifeVars,
                   ghostVars, errors>>

\* The operation updates its meta, drops the table lock and returns Ok; an ACID
\* commit takes the table lock here, for as long as the update of the meta lasts.
Return(t) ==
    /\ phase = "up" /\ pc[t] = "logged"
    /\ t \in acid => lock[op[t]] = Nobody
    /\ acid' = acid \ {t}
    /\ acked' = [p \in Page |-> IF p \in writes[img[t]] /\ acked[p] < img[t]
                                THEN img[t] ELSE acked[p]]
    /\ todo' = [todo EXCEPT ![t] = {}]
    /\ op' = [op EXCEPT ![t] = Registry]
    /\ img' = [img EXCEPT ![t] = 0]
    /\ Unlock(t)
    /\ pc' = [pc EXCEPT ![t] = "idle"]
    /\ UNCHANGED <<pageVars, guardVars, walVars, readVars, lifeVars, commits, writes, owner, damaged,
                   raced, errors>>

------------------------------------------------------------------------------
(* PageFile::read_page on a cache miss: three steps, each under its own lock. *)

ReadMiss(r, p) ==
    /\ phase = "up" /\ rpc[r] = "idle"
    /\ p < numPages /\ cache[p] = 0
    /\ rpage' = [rpage EXCEPT ![r] = p]
    /\ rpc' = [rpc EXCEPT ![r] = "miss"]
    /\ UNCHANGED <<pageVars, guardVars, walVars, threadVars, rimg, lifeVars, ghostVars, errors>>

\* read_page_from_disk: a hole has no page magic and is refused.
ReadFromDisk(r) ==
    /\ phase = "up" /\ rpc[r] = "miss"
    /\ rimg' = [rimg EXCEPT ![r] = file[rpage[r]]]
    /\ rpc' = [rpc EXCEPT ![r] = IF file[rpage[r]] = 0 THEN "idle" ELSE "loaded"]
    /\ rpage' = [rpage EXCEPT ![r] = IF file[rpage[r]] = 0 THEN 0 ELSE @]
    /\ UNCHANGED <<pageVars, guardVars, walVars, threadVars, lifeVars, ghostVars, errors>>

\* Mutant: no second look at the slot.
OverwriteSlot(r) == [cache EXCEPT ![rpage[r]] = rimg[r]]
\* The slot's new value: a copy published meanwhile wins over the disk's.
FillSlot(r) == [cache EXCEPT ![rpage[r]] = IF @ # 0 THEN @ ELSE rimg[r]]

InsertRead(r) ==
    /\ phase = "up" /\ rpc[r] = "loaded"
    /\ cache' = FillSlot(r)
    /\ rpc' = [rpc EXCEPT ![r] = "idle"]
    /\ rpage' = [rpage EXCEPT ![r] = 0] /\ rimg' = [rimg EXCEPT ![r] = 0]
    /\ UNCHANGED <<numPages, file, disk, guardVars, walVars, threadVars, lifeVars, ghostVars, errors>>

------------------------------------------------------------------------------
(* Clean shutdown: Drop for BoogyDb. *)

Quiet == (\A t \in Threads : pc[t] = "idle") /\ (\A r \in Readers : rpc[r] = "idle")

\* The registry is published to the cache (guard.commit, no WAL).
Drop ==
    /\ phase = "up" /\ Quiet /\ MayCommit
    /\ commits' = commits + 1
    /\ cache' = [p \in Page |-> IF p \in dirty \cup {0} THEN commits + 1 ELSE cache[p]]
    /\ writes' = [writes EXCEPT ![commits + 1] = dirty \cup {0}]
    /\ numPages' = numPages + newPages
    /\ dirty' = {} /\ newPages' = 0 /\ spoiled' = {}
    /\ phase' = "flush" /\ cursor' = 0
    /\ UNCHANGED <<file, disk, holder, walVars, threadVars, readVars, crashes, acked, owner,
                   damaged, acid, raced, errors>>

\* sync_all: every cached page is written, in page order ...
FlushPage ==
    /\ phase = "flush" /\ cursor \in Page
    /\ file' = [file EXCEPT ![cursor] = IF cache[cursor] # 0 THEN cache[cursor] ELSE @]
    /\ cursor' = cursor + 1
    /\ UNCHANGED <<numPages, cache, disk, guardVars, walVars, threadVars, readVars, phase,
                   crashes, ghostVars, errors>>

\* ... then the data file is fsynced.  Recovery ends the same way.
SyncData ==
    /\ \/ phase = "flush" /\ cursor = MaxPages
       \/ phase = "replay" /\ cursor = count + 1
    /\ disk' = file
    /\ phase' = "truncate" /\ cursor' = 0
    /\ UNCHANGED <<numPages, cache, file, guardVars, walVars, threadVars, readVars, crashes,
                   ghostVars, errors>>

\* Wal::truncate: set_len, then the header's count, then fsync.
TruncateEntries ==
    /\ phase = "truncate"
    /\ log' = <<>>
    /\ phase' = "header"
    /\ UNCHANGED <<pageVars, guardVars, count, walDisk, walHolder, threadVars, readVars, cursor,
                   crashes, ghostVars, errors>>

TruncateHeader ==
    /\ phase = "header"
    /\ count' = 0
    /\ phase' = "walsync"
    /\ UNCHANGED <<pageVars, guardVars, log, walDisk, walHolder, threadVars, readVars, cursor,
                   crashes, ghostVars, errors>>

SyncWal ==
    /\ phase = "walsync"
    /\ walDisk' = [log |-> log, count |-> count]
    /\ phase' = "down"
    /\ UNCHANGED <<pageVars, guardVars, log, count, walHolder, threadVars, readVars, cursor,
                   crashes, ghostVars, errors>>

------------------------------------------------------------------------------
(* Crash and BoogyDb::open. *)

Forget ==
    /\ cache' = [p \in Page |-> 0]
    /\ numPages' = 0
    /\ holder' = Nobody /\ dirty' = {} /\ newPages' = 0 /\ spoiled' = {}
    /\ walHolder' = Nobody
    /\ lock' = [tb \in Tables |-> Nobody]
    /\ pc' = [t \in Threads |-> "idle"]
    /\ op' = [t \in Threads |-> Registry]
    /\ img' = [t \in Threads |-> 0]
    /\ todo' = [t \in Threads |-> {}]
    /\ rpc' = [r \in Readers |-> "idle"]
    /\ rpage' = [r \in Readers |-> 0] /\ rimg' = [r \in Readers |-> 0]
    /\ phase' = "down"
    /\ cursor' = 0
    /\ crashes' = crashes + 1
    /\ acid' = {}
    /\ UNCHANGED <<commits, acked, writes, owner, raced, errors>>

\* The process dies: what it wrote survives, what it held in memory does not.
ProcessCrash ==
    /\ crashes < MaxCrashes /\ phase \notin {"down", "failed"}
    /\ Forget
    /\ UNCHANGED <<file, disk, log, count, walDisk, damaged>>

\* Slot i of a log; a slot past the end of the file reads as a bad entry.
Slot(l, i) == IF i \in 1 .. Len(l) THEN l[i] ELSE Torn
Unsynced(n) == {i \in 1 .. n : Slot(log, i) # Slot(walDisk.log, i)}

\* The count covers a slot whose newest entry was not synced and in which the
\* platter still has an entry from before a truncation or an earlier power loss.
Overwriting == \E i \in 1 .. count : /\ Slot(walDisk.log, i) # Torn
                                    /\ \/ i > walDisk.count \/ walDisk.count > count
                                       \/ i <= Len(log) /\ log[i] # walDisk.log[i]

\* The entry counts the platter may hold: each one written since the last fsync.
\* (A count below the synced one is left out when a truncation and as many appends
\* followed it without an fsync; `damaged' covers that case.)
Headers == {walDisk.count} \cup
           IF walDisk.count <= count THEN walDisk.count .. count ELSE 0 .. count

\* The machine dies: each page, each WAL slot and the WAL header written since
\* the last fsync is on the platter, or is as it was then, independently of the
\* others; a WAL slot may also be half written.
PowerFailure ==
    /\ PowerLoss /\ crashes < MaxCrashes /\ phase \notin {"down", "failed"}
    /\ Forget
    /\ damaged' = (damaged \/ Overwriting)
    /\ \E kept \in SUBSET {p \in Page : file[p] # disk[p]} :
          file' = [p \in Page |-> IF p \in kept THEN file[p] ELSE disk[p]]
    /\ disk' = file'
    /\ count' \in Headers
    /\ \E n \in {Len(log), Len(walDisk.log)} :
          \E kept \in SUBSET Unsynced(n) : \E torn \in SUBSET (Unsynced(n) \ kept) :
             log' = [i \in 1 .. n |-> IF i \in torn THEN Torn
                                      ELSE IF i \in kept THEN Slot(log, i)
                                      ELSE Slot(walDisk.log, i)]
    /\ walDisk' = [log |-> log', count |-> count']

\* open(): an empty WAL goes straight to the normal open ...
OpenClean ==
    /\ phase = "down" /\ count = 0
    /\ numPages' = PagesOf(file)
    /\ cache' = [p \in Page |-> 0]
    /\ phase' = "up"
    /\ UNCHANGED <<file, disk, guardVars, walVars, threadVars, readVars, cursor, crashes,
                   ghostVars, errors>>

\* ... a readable one is replayed forward, an unreadable one fails the open.
OpenDirty ==
    /\ phase = "down" /\ count > 0
    /\ phase' = IF Readable THEN "replay" ELSE "failed"
    /\ cursor' = 1
    /\ UNCHANGED <<pageVars, guardVars, walVars, threadVars, readVars, crashes, ghostVars, errors>>

\* Mutant: replay starts over after each entry.
ReplayAgain ==
    /\ phase = "replay" /\ cursor <= count
    /\ file' = [file EXCEPT ![log[cursor].page] = log[cursor].img]
    /\ cursor' = 1
    /\ UNCHANGED <<numPages, cache, disk, guardVars, walVars, threadVars, readVars, phase,
                   crashes, ghostVars, errors>>

\* put_page_direct on the next entry.
ReplayEntry ==
    /\ phase = "replay" /\ cursor <= count
    /\ file' = [file EXCEPT ![log[cursor].page] = log[cursor].img]
    /\ cursor' = cursor + 1
    /\ UNCHANGED <<numPages, cache, disk, guardVars, walVars, threadVars, readVars, phase,
                   crashes, ghostVars, errors>>

------------------------------------------------------------------------------

Step(t) == \/ BeginWrite(t) \/ Publish(t) \/ Release(t) \/ LockWal(t) \/ FinishLog(t) \/ Return(t)
           \/ \E S \in SUBSET Page, k \in 0 .. 1 : Mutate(t, S, k)
           \/ \E p \in Page : AppendPageImage(t, p)

Read(r) == ReadFromDisk(r) \/ InsertRead(r) \/ \E p \in Page : ReadMiss(r, p)

Open == OpenClean \/ OpenDirty \/ ReplayEntry
Shut == FlushPage \/ SyncData \/ TruncateEntries \/ TruncateHeader \/ SyncWal

Next == \/ \E t \in Threads : \/ Step(t) \/ PersistRegistry(t) \/ ErrorExit(t)
                              \/ \E tb \in Tables : LockTable(t, tb) \/ CommitTransaction(t, tb)
        \/ \E r \in Readers : Read(r)
        \/ Open \/ Shut \/ Drop
        \/ ProcessCrash \/ PowerFailure

Spec == Init /\ [][Next]_vars

\* A started operation keeps running (its mutexes are released by their
\* holders), and so do an open() and a drop() once entered.
FairSpec == /\ Spec
            /\ \A t \in Threads : WF_vars(Step(t))
            /\ WF_vars(Open) /\ WF_vars(Shut)
------------------------------------------------------------------------------
(* Properties *)

\* Types of every variable; the overlay never runs past the file's bound.
TypeOK ==
    /\ numPages \in 0 .. MaxPages
    /\ cache \in [Page -> Nat] /\ file \in [Page -> Nat] /\ disk \in [Page -> Nat]
    /\ holder \in Threads \cup {Nobody} /\ dirty \subseteq Page /\ newPages \in 0 .. MaxPages
    /\ spoiled \subseteq Page
    /\ log \in Seq(Entry) /\ count \in Nat /\ walDisk \in [log : Seq(Entry), count : Nat]
    /\ walHolder \in Threads \cup {Nobody}
    /\ lock \in [Tables -> Threads \cup {Nobody}] /\ owner \in [Page -> Owners]
    /\ pc \in [Threads -> {"idle", "locked", "open", "mutated", "published", "unlogged",
                           "logging", "logged"}]
    /\ op \in [Threads -> Owners] /\ img \in [Threads -> Nat]
    /\ todo \in [Threads -> SUBSET Page]
    /\ rpc \in [Readers -> {"idle", "miss", "loaded"}]
    /\ rpage \in [Readers -> Page] /\ rimg \in [Readers -> Nat]
    /\ phase \in {"up", "flush", "truncate", "header", "walsync", "down", "replay", "failed"}
    /\ cursor \in Nat /\ commits \in Nat
    /\ crashes \in 0 .. MaxCrashes /\ errors \in 0 .. MaxErrors
    /\ acked \in [Page -> Nat] /\ writes \in [Image -> SUBSET Page] /\ damaged \in BOOLEAN
    /\ acid \subseteq Threads /\ raced \in BOOLEAN

\* The entries open() would apply now, and what they make of page p.
Logged(p) == {i \in 1 .. Len(log) : i <= count /\ log[i].page = p}
Replayed(p) == IF Logged(p) = {} THEN file[p]
               ELSE log[CHOOSE i \in Logged(p) : \A j \in Logged(p) : j <= i].img

TablePages == {p \in Page : owner[p] \in Tables}

\* At every instant of every phase (mid-commit, mid-flush, mid-truncate,
\* mid-recovery) replaying what has been written gives back, for each page of
\* a table, an image at least as new as the last one an operation returned Ok
\* for: commit_write's publish-then-log order never lets the log of one page
\* run out of order, because the table lock is held across both, and an ACID
\* commit that has its table to itself cannot be overtaken either.  Not claimed
\* once an ACID commit has overlapped another operation on its table: it
\* publishes and logs without the table lock, so the two may reach the log in
\* the reverse order, and replay gives back the older image of a page for which
\* both returned Ok.
RedoCoversAcked == ~raced => \A p \in TablePages : Replayed(p) >= acked[p]

\* Nobody holds table tb's lock and no ACID commit works on it.
Settled(tb) == lock[tb] = Nobody /\ \A t \in acid : op[t] # tb

\* Whenever no operation works on a table, the redo log and the file hold exactly
\* what its readers see: nothing published is missing from the log (commit_write
\* logs every after-image before the operation drops the table lock).  A table
\* that is merely unlocked may have an ACID commit's pages published and not
\* logged, and one on which an ACID commit overlapped another operation may have
\* them logged out of order: neither is claimed.
UnlockedMeansLogged ==
    phase = "up" /\ ~raced => \A p \in TablePages :
        Settled(owner[p]) => Replayed(p) = View(p)

\* Once open() succeeds after a power loss, every table page is at least as new
\* as what was acknowledged before it: Immediate's fsync comes before Return.
\* Not claimed once an operation has failed with its guard open (the pages it
\* left in the overlay are published by the next, unrelated commit), once an ACID
\* commit has overlapped another operation on its table (RedoCoversAcked), nor once
\* power failed while unsynced entries lay over older ones: open() neither cuts
\* nor syncs a log whose count is 0, and read_entries does not compare the
\* sequence numbers, so an older entry in a counted slot is replayed.
AckedSurvives ==
    phase = "up" /\ errors = 0 /\ ~damaged /\ ~raced => \A p \in TablePages : View(p) >= acked[p]

\* While the handle is open, what read_page returns for a page never goes back
\* to an older image: a reader filling a cache slot from disk cannot undo a
\* commit published in between (read_page's double check).
ViewNeverRegresses ==
    [][phase = "up" /\ phase' = "up" => \A p \in Page : View(p)' >= View(p)]_vars

\* A page number handed out by allocate_page is nobody else's: until Release it
\* lies past num_pages and within the overlay's count, the file holds no image
\* for it and no other commit is logging it.  The overlay and its count stay in
\* step also when an operation fails and leaves them to the next guard.
FreshPagesAreFree ==
    \A p \in dirty : p >= numPages =>
        file[p] = 0 /\ p < numPages + newPages /\ \A t \in Threads : p \notin todo[t]
                                                     \/ holder = t

\* Every WAL entry an operation on a table appends is a page of that table's
\* own trees (append_page_image is given the table's id).
AppendsOwnPages ==
    \A t \in Threads : op[t] \in Tables => \A p \in todo[t] : owner[p] = op[t]

\* No operation waits for ever on the table lock, the write mutex or the WAL
\* mutex: each one returns, unless the handle goes away under it.
OperationsReturn == \A t \in Threads : pc[t] # "idle" ~> pc[t] = "idle"

\* A closed or crashed database, once opened, ends up open or reported corrupt,
\* however often recovery itself is interrupted (crashes being finite).
RecoveryTerminates == phase = "down" ~> phase \in {"up", "failed"}

\* A commit survives a crash with all of its pages or with none.
CommitsAreAtomic ==
    phase = "up" => \A c \in 2 .. commits :
        (\E p \in writes[c] : View(p) = c) => \A q \in writes[c] : View(q) >= c

=============================================================================
