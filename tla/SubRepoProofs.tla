--------------------------- MODULE SubRepoProofs ---------------------------
(***************************************************************************)
(* The safety of a subscriber's repository, for any products, sizes,       *)
(* limits and times, and any number of crashes.  The invariants that TLC   *)
(* checks need three facts besides themselves: the times in the two queues *)
(* are those of their products (DeleteTimesOK, ProcTimesOK), a process     *)
(* that is down has nothing in its queues (DownIsEmpty), and the product   *)
(* given to the processing thread has an entry until that is deleted       *)
(* (UsingIsKnown).                                                         *)
(***************************************************************************)
EXTENDS SubRepoProps, SeqLemmas

DownIsEmpty ==
    ~up => prodEntries = {} /\ deleteQueue = {} /\ procQueue = {}

UsingIsKnown ==
    reader \in {"given", "reading"} /\ detached = "no" => using \in prodEntries

\* The entries and the queue of deletions have their types
EntriesOK == /\ prodEntries \subseteq Prod
             /\ prodInfo \subseteq prodEntries /\ scanned \subseteq prodInfo
             /\ deleteQueue \subseteq Nat \X Prod

\* The files and the queue of products to be processed have theirs
FilesOK == /\ disk \in [Prod -> Location] /\ lastReceived \in Nat
           /\ procQueue \subseteq Nat \X Prod

\* The queue of open products is within its limit, and its products are open
OpenOK == /\ openProds \in Seq(Prod)
          /\ IsInjective(openProds)
          /\ Len(openProds) <= MaxOpen
          /\ Range(openProds) \subseteq open

\* The rest of what TypeOK says
RestOK == /\ now \in Time
          /\ have \in [Prod -> SUBSET Nat]
          /\ up \in BOOLEAN /\ starts \in 0 .. MaxStarts
          /\ open \subseteq prodEntries
          /\ deleter \in {"running", "dead"} /\ threadEx \in BOOLEAN
          /\ using \in Prod \cup {NoProd}
          /\ reader \in Reader /\ detached \in Detached

\* The times in the queues are those of their products
DeleteTimesOK == \A e \in deleteQueue : e[1] >= CreateTime[e[2]] + KeepTime
ProcTimesOK   == \A e \in procQueue : e[1] = CreateTime[e[2]]

IInv == /\ EntriesOK /\ FilesOK /\ OpenOK /\ RestOK
        /\ DeletedOnce /\ CompleteIsFinished /\ FilesAreWhole /\ QueuedIsComplete
        /\ DeleteTimesOK /\ ProcTimesOK /\ DownIsEmpty /\ UsingIsKnown

-----------------------------------------------------------------------------
(* The queue of open products *)

(* What erasing a product from the queue leaves. *)
LEMMA WithoutLeaves ==
    ASSUME NEW S, NEW s \in Seq(S), IsInjective(s), NEW p
    PROVE  /\ Without(s, p) \in Seq(S)
           /\ Len(Without(s, p)) <= Len(s)
           /\ IsInjective(Without(s, p))
           /\ Range(Without(s, p)) = Range(s) \ {p}
<1>1. CASE p \in Range(s)
    <2> DEFINE k == CHOOSE i \in DOMAIN s : s[i] = p
    <2>1. k \in 1 .. Len(s) /\ s[k] = p
        BY <1>1 DEF Range
    <2>2. Without(s, p) = SubSeq(s, 1, k - 1) \o SubSeq(s, k + 1, Len(s))
        BY <1>1 DEF Without
    <2>. HIDE DEF k
    <2>3. /\ Without(s, p) \in Seq(S)
          /\ Len(Without(s, p)) = Len(s) - 1
          /\ IsInjective(Without(s, p))
          /\ Range(Without(s, p)) = Range(s) \ {s[k]}
        BY <2>1, <2>2, WithoutElement
    <2>4. Len(Without(s, p)) <= Len(s)
        <3>1. Len(s) \in Nat
            OBVIOUS
        <3>. QED BY <2>3, <3>1
    <2>. QED BY <2>1, <2>3, <2>4
<1>2. CASE p \notin Range(s)
    <2>1. Without(s, p) = s
        BY <1>2 DEF Without
    <2>2. Len(s) <= Len(s)
        OBVIOUS
    <2>. QED BY <1>2, <2>1, <2>2
<1>. QED BY <1>1, <1>2

(* activate() keeps the queue within its limit and every product in it     *)
(* open, and opens only the product that it is for.                        *)
LEMMA ActivatedOK ==
    ASSUME OpenOK, NEW p \in Prod
    PROVE  LET q == Activated(p).queue
           IN  /\ q \in Seq(Prod) /\ IsInjective(q) /\ Len(q) <= MaxOpen
               /\ Range(q) \subseteq Activated(p).files
               /\ Range(q) \subseteq Range(openProds) \cup {p}
               /\ Activated(p).files \subseteq open \cup {p}
<1> DEFINE w == Without(openProds, p)
           s == Append(w, p)
<1>1. /\ w \in Seq(Prod) /\ Len(w) <= MaxOpen /\ IsInjective(w)
      /\ Range(w) = Range(openProds) \ {p}
    <2>1. /\ w \in Seq(Prod) /\ Len(w) <= Len(openProds) /\ IsInjective(w)
          /\ Range(w) = Range(openProds) \ {p}
        BY WithoutLeaves DEF OpenOK
    <2>2. Len(w) \in Nat /\ Len(openProds) \in Nat /\ MaxOpen \in Nat
        BY <2>1, SizeAssumption DEF OpenOK
    <2>3. Len(w) <= MaxOpen
        <3>. HIDE DEF w
        <3>. QED BY <2>1, <2>2 DEF OpenOK
    <2>. QED BY <2>1, <2>3
<1>. HIDE DEF w
<1>2. /\ s \in Seq(Prod) /\ s # <<>> /\ IsInjective(s)
      /\ Range(s) = Range(openProds) \cup {p}
      /\ Len(s) = Len(w) + 1
    <2>1. Len(s) = Len(w) + 1
        BY <1>1
    <2>. QED BY <1>1, <2>1, AppendNew
<1>. HIDE DEF s
<1>3. CASE TooManyOpen(s)
    <2>1. Activated(p) = [queue |-> Tail(s), files |-> (open \cup {p}) \ {Head(s)}]
        BY <1>3 DEF Activated, s, w
    <2>2. /\ Tail(s) \in Seq(Prod) /\ IsInjective(Tail(s))
          /\ Range(Tail(s)) = Range(s) \ {Head(s)}
        BY <1>2, TailWithout
    <2>3. Len(Tail(s)) <= MaxOpen
        <3>1. Len(Tail(s)) = Len(s) - 1
            BY <1>2
        <3>2. Len(w) \in Nat /\ MaxOpen \in Nat
            BY <1>1, SizeAssumption
        <3>. QED BY <1>1, <1>2, <3>1, <3>2
    <2>. QED BY <1>2, <2>1, <2>2, <2>3 DEF OpenOK
<1>4. CASE ~TooManyOpen(s)
    <2>1. Activated(p) = [queue |-> s, files |-> open \cup {p}]
        BY <1>4 DEF Activated, s, w
    <2>2. Len(s) <= MaxOpen
        <3>1. Len(s) \in Nat /\ MaxOpen \in Nat
            BY <1>2, SizeAssumption
        <3>. QED BY <1>4, <3>1 DEF TooManyOpen
    <2>. QED BY <1>2, <2>1, <2>2 DEF OpenOK
<1>. QED BY <1>3, <1>4

(* A product leaves the queue. *)
LEMMA ForgottenOK ==
    ASSUME NEW q \in Seq(Prod), IsInjective(q), Len(q) <= MaxOpen, NEW p
    PROVE  /\ Without(q, p) \in Seq(Prod)
           /\ IsInjective(Without(q, p))
           /\ Len(Without(q, p)) <= MaxOpen
           /\ Range(Without(q, p)) = Range(q) \ {p}
<1> DEFINE w == Without(q, p)
<1>1. /\ w \in Seq(Prod) /\ IsInjective(w) /\ Range(w) = Range(q) \ {p}
      /\ Len(w) <= Len(q)
    BY WithoutLeaves
<1>2. Len(w) \in Nat /\ Len(q) \in Nat /\ MaxOpen \in Nat
    BY <1>1, SizeAssumption
<1>. HIDE DEF w
<1>3. Len(w) <= MaxOpen
    BY <1>1, <1>2
<1>. QED BY <1>1, <1>3 DEF w

(* The queue of open products after save(), whether or not it has finished *)
(* the product.                                                            *)
LEMMA FinishOpens ==
    ASSUME OpenOK, NEW p \in Prod, NEW where, NEW info, NEW segs,
           FinishOrActivate(p, where, info, segs)
    PROVE  /\ OpenOK'
           /\ Range(openProds') \subseteq Range(openProds) \cup {p}
           /\ open' \subseteq open \cup {p}
<1> DEFINE q == Activated(p).queue
           f == Activated(p).files
<1>1. /\ q \in Seq(Prod) /\ IsInjective(q) /\ Len(q) <= MaxOpen
      /\ Range(q) \subseteq f
      /\ Range(q) \subseteq Range(openProds) \cup {p}
      /\ f \subseteq open \cup {p}
    BY ActivatedOK
<1>2. \/ openProds' = Without(q, p) /\ open' = f \ {p}
      \/ openProds' = q /\ open' = f
    BY DEF FinishOrActivate
<1>. HIDE DEF q, f
<1>3. CASE openProds' = Without(q, p) /\ open' = f \ {p}
    BY <1>1, <1>3, ForgottenOK DEF OpenOK
<1>4. CASE openProds' = q /\ open' = f
    BY <1>1, <1>4 DEF OpenOK
<1>. QED BY <1>2, <1>3, <1>4

-----------------------------------------------------------------------------
(* What the parts of a save() do *)

(* add() puts a product that has no entry into the queue of deletions. *)
LEMMA AddOK ==
    ASSUME EntriesOK, DeletedOnce, DeleteTimesOK,
           NEW p \in Prod, p \notin prodEntries,
           NEW info, prodInfo \subseteq info, info \subseteq prodInfo \cup {p},
           NEW t \in Nat, t >= CreateTime[p],
           Add(p, info, t)
    PROVE  EntriesOK' /\ DeletedOnce' /\ DeleteTimesOK'
<1> DEFINE d == <<t + KeepTime, p>>
<1>1. /\ prodEntries' = prodEntries \cup {p}
      /\ prodInfo' = info /\ scanned' = scanned
      /\ deleteQueue' = deleteQueue \cup {d}
    BY DEF Add, DeleteTime
<1>2. d \in Nat \X Prod /\ d[1] = t + KeepTime /\ d[2] = p
    BY SizeAssumption
<1>. HIDE DEF d
<1>3. EntriesOK'
    BY <1>1, <1>2 DEF EntriesOK
<1>4. \A e \in deleteQueue : e[2] # p
    BY DEF DeletedOnce
<1>5. \A e \in deleteQueue' : e[2] \in prodEntries'
    BY <1>1, <1>2 DEF DeletedOnce
<1>6. \A q \in prodEntries' : \E e \in deleteQueue' : e[2] = q
    BY <1>1, <1>2 DEF DeletedOnce
<1>7. \A e, f \in deleteQueue' : e[2] = f[2] => e = f
    BY <1>1, <1>2, <1>4 DEF DeletedOnce
<1>8. d[1] >= CreateTime[d[2]] + KeepTime
    BY <1>2, SizeAssumption, DataAssumption
<1>9. DeleteTimesOK'
    BY <1>1, <1>8 DEF DeleteTimesOK
<1>. QED BY <1>3, <1>5, <1>6, <1>7, <1>9 DEF DeletedOnce

(* tryFinish() moves a file, and queues its product, only if it is whole. *)
LEMMA FinishOK ==
    ASSUME FilesOK, ProcTimesOK, NEW p \in Prod, NEW where \in Location,
           NEW info, NEW segs, FinishOrActivate(p, where, info, segs)
    PROVE  /\ FilesOK' /\ ProcTimesOK'
           /\ \A q \in Prod \ {p} : disk'[q] = disk[q]
           /\ disk'[p] = IF IsWhole(p, info, segs) /\ where = "incomplete"
                         THEN "products" ELSE where
           /\ \A e \in procQueue' :
                 e \in procQueue \/ (e[2] = p /\ disk'[p] = "products" /\ p \in info)
<1>1. CASE IsWhole(p, info, segs) /\ where = "incomplete"
    <2> DEFINE d == <<CreateTime[p], p>>
    <2>1. /\ disk' = [disk EXCEPT ![p] = "products"]
          /\ lastReceived' = CreateTime[p]
          /\ procQueue' \subseteq procQueue \cup {d}
        BY <1>1 DEF FinishOrActivate, Enqueued
    <2>2. d \in Nat \X Prod /\ d[1] = CreateTime[p] /\ d[2] = p
        BY DataAssumption
    <2>. HIDE DEF d
    <2>3. FilesOK'
        BY <2>1, <2>2, DataAssumption DEF FilesOK, Location
    <2>4. ProcTimesOK'
        BY <2>1, <2>2 DEF ProcTimesOK
    <2>5. /\ \A q \in Prod \ {p} : disk'[q] = disk[q]
          /\ disk'[p] = "products"
        BY <2>1 DEF FilesOK
    <2>6. p \in info
        BY <1>1 DEF IsWhole
    <2>. QED BY <1>1, <2>1, <2>2, <2>3, <2>4, <2>5, <2>6
<1>2. CASE ~(IsWhole(p, info, segs) /\ where = "incomplete")
    <2>1. /\ disk' = [disk EXCEPT ![p] = where]
          /\ lastReceived' = lastReceived /\ procQueue' = procQueue
        BY <1>2 DEF FinishOrActivate
    <2>2. FilesOK'
        BY <2>1 DEF FilesOK
    <2>3. ProcTimesOK'
        BY <2>1 DEF ProcTimesOK
    <2>. QED BY <1>2, <2>1, <2>2, <2>3 DEF FilesOK
<1>. QED BY <1>1, <1>2

-----------------------------------------------------------------------------
(* The steps *)

(* The steps that save what is received: the entry is there afterwards,    *)
(* and the product is finished if that made it complete.                   *)
LEMMA SaveStep ==
    ASSUME IInv, NEW p \in Prod,
           \/ SaveInfoFirst(p) \/ SaveEmpty(p) \/ SaveInfoLater(p)
           \/ \E i \in Segs(p) : SaveSegFirst(p, i) \/ SaveSegLater(p, i)
    PROVE  IInv'
<1>. USE DataAssumption, SizeAssumption
<1>1. /\ EntriesOK /\ FilesOK /\ DeleteTimesOK /\ ProcTimesOK /\ OpenOK /\ RestOK
      /\ DeletedOnce /\ CompleteIsFinished /\ FilesAreWhole /\ QueuedIsComplete
      /\ DownIsEmpty /\ UsingIsKnown
    BY DEF IInv
<1>2. CASE SaveInfoFirst(p)
    <2>. USE <1>1, <1>2 DEF SaveInfoFirst
    <2>1. /\ EntriesOK' /\ DeletedOnce' /\ DeleteTimesOK'
        BY AddOK
    <2>2. /\ OpenOK'
          /\ Range(openProds') \subseteq Range(openProds) \cup {p}
          /\ open' \subseteq open \cup {p}
        BY FinishOpens
    <2>3. "incomplete" \in Location /\ ~IsWhole(p, prodInfo \cup {p}, {})
        BY DEF Location, IsWhole, Segs
    <2>4. /\ FilesOK' /\ ProcTimesOK'
          /\ disk' = [disk EXCEPT ![p] = "incomplete"]
          /\ UNCHANGED <<lastReceived, procQueue>>
        BY <2>3, FinishOK DEF FinishOrActivate
    <2>5. RestOK'
        BY <2>2 DEF RestOK, Add, procVars, delVars, useVars
    <2>6. CompleteIsFinished' /\ FilesAreWhole'
        BY <2>4 DEF CompleteIsFinished, FilesAreWhole, RestOK, FilesOK, EntriesOK, Segs, Add
    <2>7. QueuedIsComplete'
        BY <2>4 DEF QueuedIsComplete, FilesOK, EntriesOK, Add
    <2>8. DownIsEmpty' /\ UsingIsKnown'
        BY DEF DownIsEmpty, UsingIsKnown, procVars, useVars, Add, Receives
    <2>. QED BY <2>1, <2>2, <2>4, <2>5, <2>6, <2>7, <2>8 DEF IInv
<1>3. CASE SaveEmpty(p)
    <2>. USE <1>1, <1>3 DEF SaveEmpty
    <2>1. /\ EntriesOK' /\ DeletedOnce' /\ DeleteTimesOK'
        BY AddOK
    <2>2. FilesOK' /\ ProcTimesOK' /\ OpenOK'
        BY DEF FilesOK, ProcTimesOK, OpenOK, Location, openVars
    <2>3. RestOK'
        BY DEF RestOK, Add, procVars, delVars, useVars, openVars
    <2>4. CompleteIsFinished' /\ FilesAreWhole'
        BY DEF CompleteIsFinished, FilesAreWhole, RestOK, FilesOK, EntriesOK, Segs, Add
    <2>5. QueuedIsComplete'
        BY DEF QueuedIsComplete, FilesOK, EntriesOK, Add
    <2>6. DownIsEmpty' /\ UsingIsKnown'
        BY DEF DownIsEmpty, UsingIsKnown, procVars, useVars, Add, Receives
    <2>. QED BY <2>1, <2>2, <2>3, <2>4, <2>5, <2>6 DEF IInv
<1>4. CASE SaveInfoLater(p)
    <2>. USE <1>1, <1>4 DEF SaveInfoLater
    <2> DEFINE info == prodInfo \cup {p}
               whole == IsWhole(p, info, have[p]) /\ disk[p] = "incomplete"
    <2>1. disk[p] \in Location /\ FinishOrActivate(p, disk[p], info, have[p])
        BY DEF FilesOK
    <2>2. /\ OpenOK'
          /\ Range(openProds') \subseteq Range(openProds) \cup {p}
          /\ open' \subseteq open \cup {p}
        BY <2>1, FinishOpens
    <2>3. /\ FilesOK' /\ ProcTimesOK'
          /\ \A q \in Prod \ {p} : disk'[q] = disk[q]
          /\ disk'[p] = IF whole THEN "products" ELSE disk[p]
          /\ \A e \in procQueue' :
                e \in procQueue \/ (e[2] = p /\ disk'[p] = "products" /\ p \in info)
        BY <2>1, FinishOK
    <2>4. EntriesOK' /\ DeletedOnce' /\ DeleteTimesOK'
        BY DEF EntriesOK, DeletedOnce, DeleteTimesOK
    <2>5. RestOK'
        BY <2>2 DEF RestOK, OpenOK, procVars, delVars, useVars
    <2>6. CompleteIsFinished' /\ FilesAreWhole'
        BY <2>3 DEF CompleteIsFinished, FilesAreWhole, EntriesOK, Segs, IsWhole
    <2>7. QueuedIsComplete'
        BY <2>3 DEF QueuedIsComplete, FilesOK, EntriesOK
    <2>8. DownIsEmpty' /\ UsingIsKnown'
        BY DEF DownIsEmpty, UsingIsKnown, procVars, useVars, Receives
    <2>. QED BY <2>2, <2>3, <2>4, <2>5, <2>6, <2>7, <2>8 DEF IInv
<1>5. ASSUME NEW i \in Segs(p), SaveSegFirst(p, i)
      PROVE  IInv'
    <2>. USE <1>1, <1>5 DEF SaveSegFirst
    <2>1. /\ EntriesOK' /\ DeletedOnce' /\ DeleteTimesOK'
        <3>1. now \in Nat /\ now >= CreateTime[p]
            BY DEF RestOK, Time, Receives
        <3>. QED BY <3>1, AddOK
    <2>2. /\ OpenOK'
          /\ Range(openProds') \subseteq Range(openProds) \cup {p}
          /\ open' \subseteq open \cup {p}
        BY ActivatedOK DEF OpenOK
    <2>3. FilesOK' /\ ProcTimesOK'
        BY DEF FilesOK, ProcTimesOK, Location
    <2>4. RestOK'
        BY <2>2 DEF RestOK, OpenOK, Add, Segs, procVars, delVars, useVars
    <2>5. CompleteIsFinished' /\ FilesAreWhole'
        BY DEF CompleteIsFinished, FilesAreWhole, RestOK, FilesOK, EntriesOK, Segs, Add
    <2>6. QueuedIsComplete'
        BY DEF QueuedIsComplete, FilesOK, EntriesOK, Add
    <2>7. DownIsEmpty' /\ UsingIsKnown'
        BY DEF DownIsEmpty, UsingIsKnown, procVars, useVars, Add, Receives
    <2>. QED BY <2>1, <2>2, <2>3, <2>4, <2>5, <2>6, <2>7 DEF IInv
<1>6. ASSUME NEW i \in Segs(p), SaveSegLater(p, i)
      PROVE  IInv'
    <2>. USE <1>1, <1>6 DEF SaveSegLater
    <2> DEFINE segs == have[p] \cup {i}
               whole == IsWhole(p, prodInfo, segs) /\ disk[p] = "incomplete"
    <2>1. disk[p] \in Location /\ FinishOrActivate(p, disk[p], prodInfo, segs)
        BY DEF FilesOK
    <2>2. /\ OpenOK'
          /\ Range(openProds') \subseteq Range(openProds) \cup {p}
          /\ open' \subseteq open \cup {p}
        BY <2>1, FinishOpens
    <2>3. /\ FilesOK' /\ ProcTimesOK'
          /\ \A q \in Prod \ {p} : disk'[q] = disk[q]
          /\ disk'[p] = IF whole THEN "products" ELSE disk[p]
          /\ \A e \in procQueue' :
                e \in procQueue \/ (e[2] = p /\ disk'[p] = "products" /\ p \in prodInfo)
        BY <2>1, FinishOK
    <2>4. have' = [have EXCEPT ![p] = segs] /\ segs \subseteq Nat
        BY DEF RestOK, Segs
    <2>5. EntriesOK' /\ DeletedOnce' /\ DeleteTimesOK'
        BY DEF EntriesOK, DeletedOnce, DeleteTimesOK, baseVars
    <2>6. RestOK'
        BY <2>2, <2>4 DEF RestOK, OpenOK, procVars, delVars, useVars, baseVars
    <2>7. disk[p] # "products"
        BY DEF FilesAreWhole
    <2>8. CompleteIsFinished' /\ FilesAreWhole'
        BY <2>3, <2>4, <2>7
        DEF CompleteIsFinished, FilesAreWhole, RestOK, EntriesOK, Segs, IsWhole, baseVars
    <2>9. QueuedIsComplete'
        BY <2>3 DEF QueuedIsComplete, FilesOK, EntriesOK, baseVars
    <2>10. DownIsEmpty' /\ UsingIsKnown'
        BY DEF DownIsEmpty, UsingIsKnown, procVars, useVars, Receives, baseVars
    <2>. QED BY <2>2, <2>3, <2>5, <2>6, <2>8, <2>9, <2>10 DEF IInv
<1>. QED BY <1>2, <1>3, <1>4, <1>5, <1>6

(* The steps that give or refuse access to a product, or tell the time:    *)
(* they open and close files and take products from the queue of those to  *)
(* be processed.                                                           *)
LEMMA QuietStep ==
    ASSUME IInv,
           \/ \E p \in Prod : Access(p)
           \/ \E e \in procQueue : SkipDeleted(e) \/ TakeNext(e) \/ NextThrows(e)
           \/ Rethrow \/ GetData \/ Processed \/ Tick
    PROVE  IInv'
<1>. USE DEF IInv
<1>1. CASE \E p \in Prod : Access(p)
    <2>1. PICK p \in Prod : Access(p)
        BY <1>1
    <2>. USE <2>1 DEF Access
    <2>2. /\ OpenOK'
          /\ open' \subseteq open \cup {p}
        BY ActivatedOK DEF OpenOK
    <2>3. EntriesOK' /\ FilesOK' /\ RestOK'
        BY <2>2 DEF EntriesOK, FilesOK, RestOK, fileVars, procVars, baseVars, delVars, useVars
    <2>4. DeletedOnce' /\ CompleteIsFinished' /\ FilesAreWhole' /\ QueuedIsComplete'
        BY DEF DeletedOnce, CompleteIsFinished, FilesAreWhole, QueuedIsComplete,
               fileVars, baseVars
    <2>5. DeleteTimesOK' /\ ProcTimesOK' /\ DownIsEmpty' /\ UsingIsKnown'
        BY DEF DeleteTimesOK, ProcTimesOK, DownIsEmpty, UsingIsKnown,
               procVars, baseVars, useVars
    <2>. QED BY <2>2, <2>3, <2>4, <2>5
<1>2. ASSUME NEW e \in procQueue, SkipDeleted(e)
      PROVE  IInv'
    <2>. USE <1>2 DEF SkipDeleted, Dequeued
    <2>1. EntriesOK' /\ FilesOK' /\ OpenOK' /\ RestOK'
        BY DEF EntriesOK, FilesOK, OpenOK, RestOK,
               fileVars, procVars, baseVars, openVars, delVars, useVars
    <2>2. DeletedOnce' /\ CompleteIsFinished' /\ FilesAreWhole' /\ QueuedIsComplete'
        BY DEF DeletedOnce, CompleteIsFinished, FilesAreWhole, QueuedIsComplete,
               fileVars, baseVars
    <2>3. DeleteTimesOK' /\ ProcTimesOK' /\ DownIsEmpty' /\ UsingIsKnown'
        BY DEF DeleteTimesOK, ProcTimesOK, DownIsEmpty, UsingIsKnown,
               procVars, baseVars, useVars
    <2>. QED BY <2>1, <2>2, <2>3
<1>3. ASSUME NEW e \in procQueue, TakeNext(e)
      PROVE  IInv'
    <2> DEFINE p == e[2]
    <2>1. p \in Prod
        BY DEF FilesOK
    <2>2. /\ procQueue' = procQueue \ {e}
          /\ openProds' = Without(Activated(p).queue, p)
          /\ open' = Activated(p).files
          /\ p \in prodEntries
          /\ reader' \in {"given", "ended"}
          /\ \/ using' = p
             \/ using' = using /\ reader' = "ended"
          /\ UNCHANGED <<now, fileVars, procVars, baseVars, delVars, detached>>
        BY <1>3 DEF TakeNext, Dequeued
    <2>. HIDE DEF p
    <2>3. /\ OpenOK'
          /\ open' \subseteq open \cup {p}
        <3> DEFINE q == Activated(p).queue
        <3>1. /\ q \in Seq(Prod) /\ IsInjective(q) /\ Len(q) <= MaxOpen
              /\ Range(q) \subseteq open' /\ open' \subseteq open \cup {p}
            BY <2>1, <2>2, ActivatedOK
        <3>. HIDE DEF q
        <3>2. openProds' = Without(q, p)
            BY <2>2 DEF q
        <3>. QED BY <3>1, <3>2, ForgottenOK DEF OpenOK
    <2>4. EntriesOK' /\ FilesOK' /\ RestOK'
        BY <2>1, <2>2, <2>3
        DEF EntriesOK, FilesOK, RestOK, Reader, fileVars, procVars, baseVars, delVars
    <2>5. DeletedOnce' /\ CompleteIsFinished' /\ FilesAreWhole' /\ QueuedIsComplete'
        BY <2>2 DEF DeletedOnce, CompleteIsFinished, FilesAreWhole, QueuedIsComplete,
                    fileVars, baseVars
    <2>6. DeleteTimesOK' /\ ProcTimesOK' /\ DownIsEmpty' /\ UsingIsKnown'
        BY <2>2 DEF DeleteTimesOK, ProcTimesOK, DownIsEmpty, UsingIsKnown,
                    procVars, baseVars
    <2>. QED BY <2>3, <2>4, <2>5, <2>6
<1>4. CASE Rethrow \/ \E e \in procQueue : NextThrows(e)
    <2>. USE <1>4 DEF Rethrow, NextThrows
    <2>1. EntriesOK' /\ FilesOK' /\ OpenOK' /\ RestOK'
        BY DEF EntriesOK, FilesOK, OpenOK, RestOK, Reader,
               fileVars, procVars, baseVars, openVars, delVars
    <2>2. DeletedOnce' /\ CompleteIsFinished' /\ FilesAreWhole' /\ QueuedIsComplete'
        BY DEF DeletedOnce, CompleteIsFinished, FilesAreWhole, QueuedIsComplete,
               fileVars, baseVars
    <2>3. DeleteTimesOK' /\ ProcTimesOK' /\ DownIsEmpty' /\ UsingIsKnown'
        BY DEF DeleteTimesOK, ProcTimesOK, DownIsEmpty, UsingIsKnown, procVars, baseVars
    <2>. QED BY <2>1, <2>2, <2>3
<1>5. CASE GetData
    <2>. USE <1>5 DEF GetData
    <2>1. /\ open \subseteq open' /\ open' \subseteq prodEntries
          /\ UNCHANGED openProds
        BY DEF UsingIsKnown, RestOK
    <2>2. EntriesOK' /\ FilesOK' /\ OpenOK'
        BY <2>1 DEF EntriesOK, FilesOK, OpenOK, fileVars, baseVars
    <2>3. RestOK'
        BY <2>1 DEF RestOK, Reader, Detached, fileVars, procVars, baseVars, delVars
    <2>4. DeletedOnce' /\ CompleteIsFinished' /\ FilesAreWhole' /\ QueuedIsComplete'
        BY DEF DeletedOnce, CompleteIsFinished, FilesAreWhole, QueuedIsComplete,
               fileVars, baseVars
    <2>5. DeleteTimesOK' /\ ProcTimesOK' /\ DownIsEmpty' /\ UsingIsKnown'
        BY DEF DeleteTimesOK, ProcTimesOK, DownIsEmpty, UsingIsKnown, procVars, baseVars
    <2>. QED BY <2>2, <2>3, <2>4, <2>5
<1>6. CASE Processed
    <2>. USE <1>6 DEF Processed
    <2>1. EntriesOK' /\ FilesOK' /\ OpenOK' /\ RestOK'
        BY DEF EntriesOK, FilesOK, OpenOK, RestOK, Reader, Detached,
               fileVars, procVars, baseVars, openVars, delVars
    <2>2. DeletedOnce' /\ CompleteIsFinished' /\ FilesAreWhole' /\ QueuedIsComplete'
        BY DEF DeletedOnce, CompleteIsFinished, FilesAreWhole, QueuedIsComplete,
               fileVars, baseVars
    <2>3. DeleteTimesOK' /\ ProcTimesOK' /\ DownIsEmpty' /\ UsingIsKnown'
        BY DEF DeleteTimesOK, ProcTimesOK, DownIsEmpty, UsingIsKnown, procVars, baseVars
    <2>. QED BY <2>1, <2>2, <2>3
<1>7. CASE Tick
    <2>. USE <1>7, SizeAssumption, DataAssumption DEF Tick
    <2>1. EntriesOK' /\ FilesOK' /\ OpenOK' /\ RestOK'
        BY DEF EntriesOK, FilesOK, OpenOK, RestOK, Time,
               fileVars, procVars, baseVars, openVars, delVars, useVars
    <2>2. DeletedOnce' /\ CompleteIsFinished' /\ FilesAreWhole'
        BY DEF DeletedOnce, CompleteIsFinished, FilesAreWhole, fileVars, baseVars
    <2>3. QueuedIsComplete'
        BY DEF QueuedIsComplete, FilesOK, RestOK, Time, fileVars, baseVars
    <2>4. DeleteTimesOK' /\ ProcTimesOK' /\ DownIsEmpty' /\ UsingIsKnown'
        BY DEF DeleteTimesOK, ProcTimesOK, DownIsEmpty, UsingIsKnown,
               procVars, baseVars, useVars
    <2>. QED BY <2>1, <2>2, <2>3, <2>4
<1>. QED BY <1>1, <1>2, <1>3, <1>4, <1>5, <1>6, <1>7

(* A deletion takes away the entry, its place in every queue, and the      *)
(* file; one that throws takes away the file only.  What is due was kept   *)
(* for its time, which is why a product that waits to be processed may be  *)
(* deleted under QueuedIsComplete.                                         *)
LEMMA DeletionStep ==
    ASSUME IInv, Deletion
    PROVE  IInv'
<1>. USE DataAssumption, SizeAssumption DEF IInv
<1>1. PICK e \in deleteQueue : Delete(e) \/ DeleteThrows(e)
    BY DEF Deletion
<1> DEFINE p == e[2]
<1>2. p \in Prod /\ e[1] >= CreateTime[p] + KeepTime /\ e[1] <= now /\ e[1] \in Nat
    BY <1>1 DEF Delete, DeleteThrows, Due, EntriesOK, DeleteTimesOK
<1>3. \A f \in procQueue : f[2] = p => f[1] + KeepTime <= now
    BY <1>2 DEF ProcTimesOK, RestOK, Time
<1>4. CASE Delete(e)
    <2>1. /\ disk' = [disk EXCEPT ![p] = "none"]
          /\ openProds' = Without(openProds, p)
          /\ open' = open \ {p}
          /\ prodEntries' = prodEntries \ {p}
          /\ prodInfo' = prodInfo \ {p}
          /\ scanned' = scanned \ {p}
          /\ deleteQueue' = deleteQueue \ {e}
          /\ detached' \in {"open", "closed", detached}
          /\ using = p => detached' # "no"
          /\ UNCHANGED <<now, have, lastReceived, procVars, procQueue, delVars,
                         using, reader>>
        BY <1>4 DEF Delete, Forgotten, Popped
    <2>. HIDE DEF p
    <2>2. OpenOK'
        BY <2>1, ForgottenOK DEF OpenOK
    <2>3. EntriesOK' /\ FilesOK' /\ RestOK'
        BY <2>1 DEF EntriesOK, FilesOK, RestOK, Location, Detached, procVars, delVars
    <2>4. DeletedOnce'
        BY <2>1 DEF DeletedOnce, p
    <2>5. CompleteIsFinished' /\ FilesAreWhole'
        BY <1>2, <2>1 DEF CompleteIsFinished, FilesAreWhole, FilesOK, EntriesOK, Segs
    <2>6. QueuedIsComplete'
        BY <1>2, <1>3, <2>1 DEF QueuedIsComplete, FilesOK
    <2>7. DeleteTimesOK' /\ ProcTimesOK' /\ DownIsEmpty' /\ UsingIsKnown'
        BY <2>1 DEF DeleteTimesOK, ProcTimesOK, DownIsEmpty, UsingIsKnown, procVars
    <2>. QED BY <2>2, <2>3, <2>4, <2>5, <2>6, <2>7
<1>5. CASE DeleteThrows(e)
    <2>1. /\ disk' = [disk EXCEPT ![p] = "none"]
          /\ deleter' = "dead" /\ threadEx' = TRUE
          /\ UNCHANGED <<now, have, lastReceived, procVars, baseVars, procQueue,
                         openVars, useVars>>
        BY <1>5 DEF DeleteThrows
    <2>. HIDE DEF p
    <2>2. EntriesOK' /\ FilesOK' /\ OpenOK' /\ RestOK'
        BY <2>1 DEF EntriesOK, FilesOK, OpenOK, RestOK, Location,
                    procVars, baseVars, openVars, useVars
    <2>3. DeletedOnce' /\ CompleteIsFinished' /\ FilesAreWhole'
        BY <1>2, <2>1
        DEF DeletedOnce, CompleteIsFinished, FilesAreWhole, FilesOK, EntriesOK, Segs, baseVars
    <2>4. QueuedIsComplete'
        BY <1>2, <1>3, <2>1 DEF QueuedIsComplete, FilesOK, baseVars
    <2>5. DeleteTimesOK' /\ ProcTimesOK' /\ DownIsEmpty' /\ UsingIsKnown'
        BY <2>1 DEF DeleteTimesOK, ProcTimesOK, DownIsEmpty, UsingIsKnown,
                    procVars, baseVars, useVars
    <2>. QED BY <2>2, <2>3, <2>4, <2>5
<1>. QED BY <1>1, <1>4, <1>5

(* The process ends, or starts, and what it keeps is what the disk keeps.  *)
LEMMA ProcessStep ==
    ASSUME IInv, Crash \/ Start \/ \E p \in Prod : StartFails(p)
    PROVE  IInv'
<1>. USE DataAssumption, SizeAssumption, ProdAssumption DEF IInv
<1>1. ASSUME Idle
      PROVE  OpenOK'
    <2> DEFINE s == <<>>
    <2>1. s \in Seq(Prod) /\ Len(s) = 0 /\ DOMAIN s = {}
        OBVIOUS
    <2>. HIDE DEF s
    <2>2. IsInjective(s) /\ Range(s) = {}
        BY <2>1 DEF IsInjective, Range
    <2>3. 0 <= MaxOpen
        OBVIOUS
    <2>4. openProds' = s /\ open' = {}
        BY <1>1 DEF Idle, s
    <2>. QED BY <2>1, <2>2, <2>3, <2>4 DEF OpenOK
<1>2. CASE Crash
    <2>. USE <1>2 DEF Crash, Idle
    <2>1. EntriesOK' /\ FilesOK' /\ OpenOK' /\ RestOK'
        BY <1>1 DEF EntriesOK, FilesOK, RestOK, Reader, Detached, fileVars
    <2>2. DeletedOnce' /\ CompleteIsFinished' /\ FilesAreWhole' /\ QueuedIsComplete'
        BY DEF DeletedOnce, CompleteIsFinished, FilesAreWhole, QueuedIsComplete, fileVars
    <2>3. DeleteTimesOK' /\ ProcTimesOK' /\ DownIsEmpty' /\ UsingIsKnown'
        BY DEF DeleteTimesOK, ProcTimesOK, DownIsEmpty, UsingIsKnown
    <2>. QED BY <2>1, <2>2, <2>3
<1>3. CASE Start
    <2> DEFINE kept == {p \in Prod : disk[p] = "products" /\ ~TooOld(p)}
               d(p) == <<CreateTime[p] + KeepTime, p>>
    <2>1. /\ starts < MaxStarts /\ up' = TRUE /\ starts' = starts + 1
          /\ lastReceived' = now
          /\ disk' = [p \in Prod |-> IF p \in kept THEN disk[p] ELSE "none"]
          /\ prodEntries' = kept /\ prodInfo' = kept /\ scanned' = kept
          /\ deleteQueue' = {d(p) : p \in kept}
          /\ Idle /\ UNCHANGED <<now, have>>
        BY <1>3 DEF Start, DeleteTime, Truncated
    <2>2. kept \subseteq Prod /\ \A p \in kept : disk[p] = "products"
        OBVIOUS
    <2>3. \A p \in Prod : d(p) \in Nat \X Prod /\ d(p)[1] = CreateTime[p] + KeepTime
                            /\ d(p)[2] = p
        OBVIOUS
    <2>. HIDE DEF kept, d
    <2>4. EntriesOK' /\ DeleteTimesOK'
        BY <2>1, <2>2, <2>3 DEF EntriesOK, DeleteTimesOK
    <2>5. OpenOK' /\ FilesOK' /\ RestOK'
        <3>1. now \in Nat
            BY DEF RestOK, Time
        <3>2. disk' \in [Prod -> Location] /\ lastReceived' \in Nat
            BY <2>1, <2>2, <3>1 DEF Location
        <3>3. FilesOK'
            BY <2>1, <3>2 DEF FilesOK, Idle
        <3>4. starts' \in 0 .. MaxStarts
            BY <2>1 DEF RestOK
        <3>5. RestOK'
            BY <2>1, <3>4 DEF RestOK, Reader, Detached, Idle
        <3>. QED BY <1>1, <2>1, <3>3, <3>5
    <2>6. DeletedOnce'
        BY <2>1, <2>2, <2>3 DEF DeletedOnce
    <2>7. CompleteIsFinished' /\ FilesAreWhole' /\ QueuedIsComplete'
        BY <2>1, <2>2 DEF CompleteIsFinished, FilesAreWhole, QueuedIsComplete, Segs, Idle
    <2>8. ProcTimesOK' /\ DownIsEmpty' /\ UsingIsKnown'
        BY <2>1 DEF ProcTimesOK, DownIsEmpty, UsingIsKnown, Idle
    <2>. QED BY <2>4, <2>5, <2>6, <2>7, <2>8
<1>4. CASE \E p \in Prod : StartFails(p)
    <2>1. /\ ~up /\ starts < MaxStarts /\ starts' = starts + 1
          /\ lastReceived' = now
          /\ disk' \in [Prod -> Location]
          /\ \A q \in Prod : disk'[q] \in {"none", disk[q]}
          /\ UNCHANGED <<now, have, up, baseVars, procQueue, openVars, delVars, useVars>>
        BY <1>4 DEF StartFails, Truncated, FilesOK, Location
    <2>2. EntriesOK' /\ FilesOK' /\ OpenOK' /\ RestOK'
        BY <2>1 DEF EntriesOK, FilesOK, OpenOK, RestOK, Time, baseVars, openVars,
                    delVars, useVars
    <2>3. DeletedOnce' /\ CompleteIsFinished' /\ FilesAreWhole' /\ QueuedIsComplete'
        BY <2>1 DEF DeletedOnce, CompleteIsFinished, FilesAreWhole, QueuedIsComplete,
                    DownIsEmpty, EntriesOK, Segs, baseVars
    <2>4. DeleteTimesOK' /\ ProcTimesOK' /\ DownIsEmpty' /\ UsingIsKnown'
        BY <2>1 DEF DeleteTimesOK, ProcTimesOK, DownIsEmpty, UsingIsKnown,
                    baseVars, useVars
    <2>. QED BY <2>2, <2>3, <2>4
<1>. QED BY <1>2, <1>3, <1>4
-----------------------------------------------------------------------------
(* The theorems *)

LEMMA InitIInv == Init => IInv
<1>. SUFFICES ASSUME Init PROVE IInv
    OBVIOUS
<1>. USE DataAssumption, SizeAssumption DEF Init
<1>1. OpenOK
    <2> DEFINE s == <<>>
    <2>1. s \in Seq(Prod) /\ Len(s) = 0 /\ DOMAIN s = {}
        OBVIOUS
    <2>. HIDE DEF s
    <2>2. IsInjective(s) /\ Range(s) = {}
        BY <2>1 DEF IsInjective, Range
    <2>3. openProds = s
        BY DEF s
    <2>4. 0 <= MaxOpen
        OBVIOUS
    <2>. QED BY <2>1, <2>2, <2>3, <2>4 DEF OpenOK
<1>2. EntriesOK /\ FilesOK
    BY DEF EntriesOK, FilesOK, Location
<1>3. RestOK
    <2>1. now \in Time /\ starts \in 0 .. MaxStarts
        BY DEF Time
    <2>. QED BY <2>1 DEF RestOK, Reader, Detached
<1>4. DeletedOnce /\ CompleteIsFinished /\ FilesAreWhole /\ QueuedIsComplete
    BY DEF DeletedOnce, CompleteIsFinished, FilesAreWhole, QueuedIsComplete
<1>5. DeleteTimesOK /\ ProcTimesOK /\ DownIsEmpty /\ UsingIsKnown
    BY DEF DeleteTimesOK, ProcTimesOK, DownIsEmpty, UsingIsKnown
<1>. QED BY <1>1, <1>2, <1>3, <1>4, <1>5 DEF IInv

LEMMA NextIInv == IInv /\ [Next]_vars => IInv'
<1>. SUFFICES ASSUME IInv, [Next]_vars PROVE IInv'
    OBVIOUS
<1>1. ASSUME NEW p \in Prod,
             \/ SaveInfoFirst(p) \/ SaveEmpty(p) \/ SaveInfoLater(p)
             \/ \E i \in Segs(p) : SaveSegFirst(p, i) \/ SaveSegLater(p, i)
      PROVE  IInv'
    BY <1>1, SaveStep
<1>2. ASSUME \/ \E p \in Prod : Access(p)
             \/ \E e \in procQueue : SkipDeleted(e) \/ TakeNext(e) \/ NextThrows(e)
             \/ Rethrow \/ GetData \/ Processed \/ Tick
      PROVE  IInv'
    BY <1>2, QuietStep
<1>3. CASE Deletion
    BY <1>3, DeletionStep
<1>4. ASSUME Crash \/ Start \/ \E p \in Prod : StartFails(p)
      PROVE  IInv'
    BY <1>4, ProcessStep
<1>5. CASE UNCHANGED vars
    <2>. USE <1>5 DEF vars, fileVars, procVars, baseVars, openVars, delVars, useVars, IInv
    <2>1. EntriesOK' /\ FilesOK' /\ OpenOK' /\ RestOK'
        BY DEF EntriesOK, FilesOK, OpenOK, RestOK
    <2>2. DeletedOnce' /\ CompleteIsFinished' /\ FilesAreWhole' /\ QueuedIsComplete'
        BY DEF DeletedOnce, CompleteIsFinished, FilesAreWhole, QueuedIsComplete
    <2>3. DeleteTimesOK' /\ ProcTimesOK' /\ DownIsEmpty' /\ UsingIsKnown'
        BY DEF DeleteTimesOK, ProcTimesOK, DownIsEmpty, UsingIsKnown
    <2>. QED BY <2>1, <2>2, <2>3
<1>. QED BY <1>1, <1>2, <1>3, <1>4, <1>5 DEF Next

(* The invariant holds in every state that the repository can reach.       *)
THEOREM RepoInvariantHolds == Spec => []IInv
<1>. QED BY InitIInv, NextIInv, PTL DEF Spec

(* The variables have their types, and the queue of open products is       *)
(* never longer than the limit nor has a product twice (activate()).       *)
THEOREM RepoTypeCorrect == Spec => []TypeOK
<1>1. IInv => TypeOK
    BY DEF IInv, EntriesOK, FilesOK, OpenOK, RestOK, TypeOK
<1>. QED BY <1>1, RepoInvariantHolds, PTL

(* activate() never meets a product in the queue of open products that     *)
(* deleteProds() has taken away or whose file is closed.                   *)
THEOREM OpenIsKnownHolds == Spec => []OpenIsKnown
<1>1. IInv => OpenIsKnown
    BY DEF IInv, OpenOK, RestOK, OpenIsKnown
<1>. QED BY <1>1, RepoInvariantHolds, PTL

(* Every product with an entry will be deleted, and only once: the entries *)
(* and the queue of deletions always agree (add(), deleteProds()).         *)
THEOREM DeletedOnceHolds == Spec => []DeletedOnce
<1>1. IInv => DeletedOnce
    BY DEF IInv
<1>. QED BY <1>1, RepoInvariantHolds, PTL

(* In whatever order its information and its segments come, a product is   *)
(* finished by the save() that makes it complete.                          *)
THEOREM CompleteIsFinishedHolds == Spec => []CompleteIsFinished
<1>1. IInv => CompleteIsFinished
    BY DEF IInv
<1>. QED BY <1>1, RepoInvariantHolds, PTL

(* The product directory has whole files only, so that a restart may take  *)
(* them for complete products, however often the process crashes.          *)
THEOREM FilesAreWholeHolds == Spec => []FilesAreWhole
<1>1. IInv => FilesAreWhole
    BY DEF IInv
<1>. QED BY <1>1, RepoInvariantHolds, PTL

(* The queues of open products and of deletions agree with the entries     *)
(* (activate(), deleteProds()).                                            *)
THEOREM QueuesAgreeHolds == Spec => []QueuesAgree
<1>1. IInv => QueuesAgree
    BY DEF IInv, OpenOK, RestOK, OpenIsKnown, QueuesAgree
<1>. QED BY <1>1, RepoInvariantHolds, PTL

(* A product with data is in the product directory exactly when it is      *)
(* whole (save(), tryFinish(), scanRepo()).                                *)
THEOREM ProductIffWholeHolds == Spec => []ProductIffWhole
<1>1. IInv => ProductIffWhole
    BY DEF IInv, ProductIffWhole
<1>. QED BY <1>1, RepoInvariantHolds, PTL

(* What getNextProd() takes from its queue is complete, unless its time in *)
(* the repository has passed.                                              *)
THEOREM QueuedIsCompleteHolds == Spec => []QueuedIsComplete
<1>1. IInv => QueuedIsComplete
    BY DEF IInv
<1>. QED BY <1>1, RepoInvariantHolds, PTL

=============================================================================
