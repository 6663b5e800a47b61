------------------------------ MODULE SubRepo ------------------------------
(***************************************************************************)
(* A subscriber's repository (SubRepo::Impl and its base class             *)
(* Repository::Impl): product information and data segments arrive in any  *)
(* order from the multicast and the peers, a complete product is renamed   *)
(* into the product directory and queued for local processing, and a       *)
(* product that is too old is deleted.  The process may end at any time    *)
(* and be started again.                                                   *)
(*                                                                         *)
(* A step is what happens while the repository's mutex is held, or one     *)
(* access of the processing thread to the product it was given.  What a    *)
(* function throws is left to its caller: that the node stops is a Crash.  *)
(* The clocks of publisher and subscriber agree.  A product of size 0 has  *)
(* no segments.                                                            *)
(***************************************************************************)
EXTENDS Naturals, Sequences, FiniteSets, Functions

CONSTANTS
    Prod,        \* products, by name (a ProdId is a hash of it)
    NumSegs,     \* number of data segments of each product
    CreateTime,  \* when each product was created
    Nested,      \* products whose names are in the same subdirectory
    KeepTime,    \* RunPar::prodKeepTime
    MaxOpen,     \* RunPar::maxOpenProds
    MaxTime,     \* bound: the last time
    MaxStarts,   \* bound: restarts of the process
    NoProd

ASSUME ProdAssumption == Nested \subseteq Prod /\ NoProd \notin Prod
ASSUME DataAssumption ==
    NumSegs \in [Prod -> Nat] /\ CreateTime \in [Prod -> Nat]
ASSUME SizeAssumption ==
    /\ KeepTime \in Nat \ {0} /\ MaxOpen \in Nat \ {0}
    /\ MaxTime \in Nat /\ MaxStarts \in Nat

VARIABLES
    now,           \* the clock
    disk,          \* where each product's file is
    have,          \* the data segments in it
    lastReceived,  \* the time that lastReceivedTime holds
    up,            \* the process runs
    starts,        \* number of times it was started again
    prodEntries,   \* products with an entry
    prodInfo,      \* those whose prodInfo is valid
    scanned,       \* those found by scanRepo(): their segments can't be saved
    deleteQueue,   \* pairs of a time and a product
    procQueue,     \* pairs of a time and a product, at most one for each time
    openProds,     \* products in the queue of open products, LRU first
    open,          \* products whose entry's file is open and mapped
    deleter,       \* the thread that runs deleteProds()
    threadEx,      \* an exception of that thread is waiting to be thrown
    using,         \* the product last returned by getNextProd()
    reader,        \* what the processing thread does with it
    detached       \* whether its entry was erased, and the state of its file

fileVars == <<disk, have, lastReceived>>
procVars == <<up, starts>>
baseVars == <<prodEntries, prodInfo, scanned, deleteQueue>>
openVars == <<openProds, open>>
delVars  == <<deleter, threadEx>>
useVars  == <<using, reader, detached>>
vars == <<now, fileVars, procVars, baseVars, procQueue, openVars, delVars,
          useVars>>

Time     == 0 .. MaxTime
Location == {"none", "incomplete", "products"}
Reader   == {"idle", "given", "reading", "ended"}
Detached == {"no", "open", "closed"}

Segs(p) == 1 .. NumSegs[p]

-----------------------------------------------------------------------------
(* Open files *)

\* HashSetQueue::erase()
Without(s, p) ==
    IF p \in Range(s)
    THEN LET k == CHOOSE i \in DOMAIN s : s[i] = p
         IN  SubSeq(s, 1, k - 1) \o SubSeq(s, k + 1, Len(s))
    ELSE s

\* ProdFile::Impl::ensureAccess(): a file of size 0 can't be mapped
CanOpen(p) == p \in open \/ (NumSegs[p] > 0 /\ disk[p] # "none")

\* Mutant of TooManyOpen
OneMoreOpen(s) == Len(s) > MaxOpen + 1

TooManyOpen(s) == Len(s) > MaxOpen

\* Repository::Impl::activate() (a queue that is too long is so by one)
Activated(p) ==
    LET s == Append(Without(openProds, p), p)
    IN  IF TooManyOpen(s)
        THEN [queue |-> Tail(s), files |-> (open \cup {p}) \ {Head(s)}]
        ELSE [queue |-> s, files |-> open \cup {p}]

-----------------------------------------------------------------------------
(* Saving what is received *)

\* std::map::emplace() does nothing if there is a product with the same time
Enqueued(p) ==
    IF \E q \in Prod : <<CreateTime[p], q>> \in procQueue
    THEN procQueue
    ELSE procQueue \cup {<<CreateTime[p], p>>}

\* Mutants of IsWhole: the last segment isn't waited for; the information that
\* is being saved isn't seen
IsNearlyWhole(p, info, segs) == p \in info /\ Cardinality(segs) + 1 >= NumSegs[p]
WasKnownAndIsWhole(p, info, segs) == p \in prodInfo /\ segs = Segs(p)

\* tryFinish(): the information is valid and segCount = numSegs
IsWhole(p, info, segs) == p \in info /\ segs = Segs(p)

\* activate() and tryFinish().  The latter throws at setModTime() if deleteProds()
\* has removed the file.
FinishOrActivate(p, where, info, segs) ==
    IF IsWhole(p, info, segs) /\ where = "incomplete"
    THEN /\ disk' = [disk EXCEPT ![p] = "products"]
         /\ lastReceived' = CreateTime[p]
         /\ procQueue' = Enqueued(p)
         /\ openProds' = Without(Activated(p).queue, p)
         /\ open' = Activated(p).files \ {p}
    ELSE /\ disk' = [disk EXCEPT ![p] = where]
         /\ openProds' = Activated(p).queue
         /\ open' = Activated(p).files
         /\ UNCHANGED <<lastReceived, procQueue>>

\* Bound: what is received can be deleted before the last time
Receives(p) ==
    up /\ ~threadEx /\ CreateTime[p] <= now /\ now + KeepTime <= MaxTime

\* Mutant of DeleteTime
DeleteTimeTooSoon(time) == time

DeleteTime(time) == time + KeepTime

\* add(): the entry, and when to delete it
Add(p, info, time) ==
    /\ prodEntries' = prodEntries \cup {p}
    /\ prodInfo' = info
    /\ deleteQueue' = deleteQueue \cup {<<DeleteTime(time), p>>}
    /\ UNCHANGED scanned

\* save(ProdInfo) of a product that has no entry
SaveInfoFirst(p) ==
    /\ Receives(p) /\ p \notin prodEntries /\ NumSegs[p] > 0
    /\ Add(p, prodInfo \cup {p}, CreateTime[p])
    /\ have' = [have EXCEPT ![p] = {}]
    /\ FinishOrActivate(p, "incomplete", prodInfo \cup {p}, {})
    /\ UNCHANGED <<now, procVars, delVars, useVars>>

\* The same of an empty product: activate() throws when the entry was added
SaveEmpty(p) ==
    /\ Receives(p) /\ p \notin prodEntries /\ NumSegs[p] = 0
    /\ Add(p, prodInfo \cup {p}, CreateTime[p])
    /\ disk' = [disk EXCEPT ![p] = "incomplete"]
    /\ have' = [have EXCEPT ![p] = {}]
    /\ UNCHANGED <<now, lastReceived, procVars, procQueue, openVars, delVars,
                   useVars>>

\* save(ProdInfo) of a product of which data segments were received
SaveInfoLater(p) ==
    /\ Receives(p) /\ p \in prodEntries \ prodInfo /\ CanOpen(p)
    /\ prodInfo' = prodInfo \cup {p}
    /\ FinishOrActivate(p, disk[p], prodInfo \cup {p}, have[p])
    /\ UNCHANGED <<now, have, procVars, prodEntries, scanned, deleteQueue,
                   delVars, useVars>>

\* save(DataSeg) of a product that has no entry
SaveSegFirst(p, i) ==
    /\ Receives(p) /\ p \notin prodEntries /\ i \in Segs(p)
    /\ Add(p, prodInfo, now)
    /\ have' = [have EXCEPT ![p] = {i}]
    /\ disk' = [disk EXCEPT ![p] = "incomplete"]
    /\ openProds' = Activated(p).queue
    /\ open' = Activated(p).files
    /\ UNCHANGED <<now, lastReceived, procVars, procQueue, delVars, useVars>>

\* save(DataSeg) of a product that has one.  A segment of a scanned product is
\* refused with a LogicError.
SaveSegLater(p, i) ==
    /\ Receives(p) /\ p \in prodEntries \ scanned /\ CanOpen(p)
    /\ i \in Segs(p) \ have[p]
    /\ have' = [have EXCEPT ![p] = @ \cup {i}]
    /\ FinishOrActivate(p, disk[p], prodInfo, have[p] \cup {i})
    /\ UNCHANGED <<now, procVars, baseVars, delVars, useVars>>

\* getProdInfo(), getDataSeg(), exists(), and the saving of what was saved
Access(p) ==
    /\ up /\ ~threadEx /\ p \in prodEntries /\ CanOpen(p)
    /\ openProds' = Activated(p).queue
    /\ open' = Activated(p).files
    /\ UNCHANGED <<now, fileVars, procVars, baseVars, procQueue, delVars, useVars>>

\* threadEx.throwIfSet() at the start of these functions, or in getNextProd(),
\* which ends the processing thread
Rethrow ==
    /\ up /\ threadEx
    /\ threadEx' = FALSE
    /\ \/ UNCHANGED reader
       \/ reader = "idle" /\ reader' = "ended"
    /\ UNCHANGED <<now, fileVars, procVars, baseVars, procQueue, openVars, deleter,
                   using, detached>>

-----------------------------------------------------------------------------
(* deleteProds() *)

\* removeFileAndPrune() comes to the root of the product directory.  It throws
\* if rmdir() fails, as it does for a directory that isn't empty: its result
\* isn't an error number.  An incomplete file isn't below that root at all.
Prunes(p) ==
    /\ disk[p] = "products"
    /\ p \in Nested => \A q \in Nested \ {p} : disk[q] # "products"

\* An entry whose time has come.  (A product without an entry would keep the
\* thread in its loop, and the mutex locked.)
Due(e) ==
    /\ up /\ deleter = "running" /\ e \in deleteQueue /\ e[1] <= now
    /\ \A f \in deleteQueue : e[1] <= f[1]

\* Mutant of Popped
NotPopped(e) == deleteQueue

Popped(e) == deleteQueue \ {e}

\* Mutant of Forgotten: the product stays in the queue of open products
ForgottenButOpen(p) == openProds

Forgotten(p) == Without(openProds, p)

Delete(e) ==
    LET p == e[2]
    IN  /\ Due(e) /\ p \in prodEntries /\ Prunes(p)
        /\ disk' = [disk EXCEPT ![p] = "none"]
        /\ openProds' = Forgotten(p)
        /\ open' = open \ {p}
        /\ prodEntries' = prodEntries \ {p}
        /\ prodInfo' = prodInfo \ {p}
        /\ scanned' = scanned \ {p}
        /\ deleteQueue' = Popped(e)
        /\ detached' = IF using = p /\ detached = "no"
                       THEN IF p \in open THEN "open" ELSE "closed"
                       ELSE detached
        /\ UNCHANGED <<now, have, lastReceived, procVars, procQueue, delVars,
                       using, reader>>

\* The file is gone, but not the empty directories above it
DeleteThrows(e) ==
    /\ Due(e) /\ e[2] \in prodEntries /\ ~Prunes(e[2])
    /\ disk' = [disk EXCEPT ![e[2]] = "none"]
    /\ deleter' = "dead"
    /\ threadEx' = TRUE
    /\ UNCHANGED <<now, have, lastReceived, procVars, baseVars, procQueue, openVars,
                   useVars>>

-----------------------------------------------------------------------------
(* The processing thread: getNextProd() and runDisposer() *)

\* procQueue.begin()
First(e) ==
    /\ up /\ ~threadEx /\ reader = "idle" /\ e \in procQueue
    /\ \A f \in procQueue : e[1] <= f[1]

Dequeued(e) == procQueue \ {e}

SkipDeleted(e) ==
    /\ First(e) /\ e[2] \notin prodEntries
    /\ procQueue' = Dequeued(e)
    /\ UNCHANGED <<now, fileVars, procVars, baseVars, openVars, delVars, useVars>>

\* A product without information tests false, which ends the loop
TakeNext(e) ==
    LET p == e[2]
    IN  /\ First(e) /\ p \in prodEntries /\ CanOpen(p)
        /\ procQueue' = Dequeued(e)
        /\ openProds' = Without(Activated(p).queue, p)
        /\ open' = Activated(p).files
        /\ IF p \in prodInfo THEN using' = p /\ reader' = "given"
                             ELSE reader' = "ended" /\ UNCHANGED using
        /\ UNCHANGED <<now, fileVars, procVars, baseVars, delVars, detached>>

NextThrows(e) ==
    /\ First(e) /\ e[2] \in prodEntries /\ ~CanOpen(e[2])
    /\ reader' = "ended"
    /\ UNCHANGED <<now, fileVars, procVars, baseVars, procQueue, openVars, delVars,
                   using, detached>>

\* ProdEntry::getData() opens the file if it was closed meanwhile
GetData ==
    /\ up /\ reader = "given"
    /\ \/ /\ detached = "no" /\ CanOpen(using)
          /\ open' = open \cup {using}
          /\ reader' = "reading"
          /\ UNCHANGED detached
       \/ /\ detached = "open" \/ (detached = "closed" /\ disk[using] = "products")
          /\ detached' = "open"
          /\ reader' = "reading"
          /\ UNCHANGED open
       \/ /\ \/ detached = "no" /\ ~CanOpen(using)
             \/ detached = "closed" /\ disk[using] # "products"
          /\ reader' = "ended"
          /\ UNCHANGED <<open, detached>>
    /\ UNCHANGED <<now, fileVars, procVars, baseVars, procQueue, openProds, delVars,
                   using>>

\* Disposer::dispose() returned
Processed ==
    /\ up /\ reader = "reading"
    /\ reader' = "idle" /\ using' = NoProd /\ detached' = "no"
    /\ UNCHANGED <<now, fileVars, procVars, baseVars, procQueue, openVars, delVars>>

-----------------------------------------------------------------------------
(* The process *)

Tick ==
    /\ now < MaxTime
    /\ now' = now + 1
    /\ UNCHANGED <<fileVars, procVars, baseVars, procQueue, openVars, delVars,
                   useVars>>

Idle ==
    /\ procQueue' = {} /\ openProds' = <<>> /\ open' = {}
    /\ deleter' = "running" /\ threadEx' = FALSE
    /\ using' = NoProd /\ reader' = "idle" /\ detached' = "no"

\* A crash within tryFinish() differs in lastReceived only
Crash ==
    /\ up
    /\ up' = FALSE
    /\ prodEntries' = {} /\ prodInfo' = {} /\ scanned' = {} /\ deleteQueue' = {}
    /\ Idle
    /\ UNCHANGED <<now, fileVars, starts>>

\* tryAddFile(): a file that scanRepo() deletes
TooOld(p) == disk[p] = "products" /\ DeleteTime(CreateTime[p]) < now

\* LastProdImpl(): opening the file truncates it, which sets its time
Truncated == now

\* The LastProd is created and what it recalls is what its creation has set;
\* incomplete products are deleted; the others are scanned.  None of them is
\* queued: their modification-times aren't later than what recall() returns.
Start ==
    /\ ~up /\ starts < MaxStarts
    /\ \A p \in Prod : TooOld(p) => Prunes(p)
    /\ up' = TRUE
    /\ starts' = starts + 1
    /\ lastReceived' = Truncated
    /\ LET kept == {p \in Prod : disk[p] = "products" /\ ~TooOld(p)}
       IN  /\ disk' = [p \in Prod |-> IF p \in kept THEN disk[p] ELSE "none"]
           /\ prodEntries' = kept /\ prodInfo' = kept /\ scanned' = kept
           /\ deleteQueue' = {<<DeleteTime(CreateTime[p]), p>> : p \in kept}
    /\ Idle
    /\ UNCHANGED <<now, have>>

\* The constructor throws when a file was deleted but not its directory.  Other
\* old files may have been deleted by then.
StartFails(p) ==
    /\ ~up /\ starts < MaxStarts
    /\ TooOld(p) /\ ~Prunes(p)
    /\ starts' = starts + 1
    /\ lastReceived' = Truncated
    /\ \E gone \in SUBSET {q \in Prod : TooOld(q) /\ Prunes(q)} :
          disk' = [q \in Prod |-> IF q \in gone \cup {p} \/ disk[q] = "incomplete"
                                 THEN "none" ELSE disk[q]]
    /\ UNCHANGED <<now, have, up, baseVars, procQueue, openVars, delVars, useVars>>

Init ==
    /\ now = 0
    /\ disk = [p \in Prod |-> "none"] /\ have = [p \in Prod |-> {}]
    /\ lastReceived = 0
    /\ up = TRUE /\ starts = 0
    /\ prodEntries = {} /\ prodInfo = {} /\ scanned = {} /\ deleteQueue = {}
    /\ procQueue = {} /\ openProds = <<>> /\ open = {}
    /\ deleter = "running" /\ threadEx = FALSE
    /\ using = NoProd /\ reader = "idle" /\ detached = "no"

Deletion == \E e \in deleteQueue : Delete(e) \/ DeleteThrows(e)

Next ==
    \/ \E p \in Prod : \/ SaveInfoFirst(p) \/ SaveEmpty(p) \/ SaveInfoLater(p)
                       \/ \E i \in Segs(p) : SaveSegFirst(p, i) \/ SaveSegLater(p, i)
                       \/ Access(p) \/ StartFails(p)
    \/ \E e \in procQueue : SkipDeleted(e) \/ TakeNext(e) \/ NextThrows(e)
    \/ Deletion \/ Rethrow \/ GetData \/ Processed
    \/ Tick \/ Crash \/ Start

Spec == Init /\ [][Next]_vars

\* The clock goes on, and the deleter acts at the times of its queue
FairSpec == Spec /\ WF_vars(Tick) /\ WF_vars(Deletion)

=============================================================================
