--------------------------- MODULE PubRepoProofs ---------------------------
(***************************************************************************)
(* The safety of a publisher's repository, for any product-files, times,   *)
(* and bounds.  That no product is sent more often than it was put into    *)
(* the repository isn't inductive: two threads find products, several      *)
(* events tell of the same one, the queue of those to be sent has one for  *)
(* each time, and the deleter forgets them meanwhile.  What is left to be  *)
(* sent must be counted too (NotOwed): what is queued, and what may yet be *)
(* queued because it is new and has no entry.                              *)
(***************************************************************************)
EXTENDS PubRepo, FunctionTheorems, FiniteSetTheorems, SequenceTheorems, TLAPS

Kind   == {"create", "moved", "close", "delete", "ignored"}
Events == [wd : DOMAIN wds, kind : Kind, name : File \cup {Sub, NoName}]
Frames == [dir : {Root, Sub}, step : Step, wd : 0 .. Len(wds), left : SUBSET (File \cup {Sub})]

\* The disk
DiskOK ==
    /\ now \in Start .. MaxTime
    /\ file \in [File -> FileState] /\ mtime \in [File -> 0 .. MaxTime]
    /\ writes \in [File -> 0 .. MaxWrites]
    /\ sub \in BOOLEAN /\ made \in 0 .. MaxDirs

\* Watch descriptors in events, in the watcher and in the scans are those that the
\* kernel gave out
WatchOK ==
    /\ wds \in Seq(0 .. MaxDirs) /\ active \subseteq DOMAIN wds
    /\ queue \in Seq(Events) /\ buf \in Seq(Events)
    /\ DOMAIN wdToDirs \subseteq DOMAIN wds /\ watchedDirs \subseteq {Root, Sub}

ScansOK == scan \in [Scanner -> Seq(Frames)]

ThreadsOK ==
    /\ main \in {"scan", "stop", "done"}
    /\ watcher \in {"up", "failed", "cancelled"} /\ deleter \in {"up", "failed"}
    /\ threadEx \in BOOLEAN /\ sender \in {"up", "failed", "ended"}

\* Exactly the products with an entry are to be deleted, each of them once
DeletionsOf(f) == {d \in deleteQueue : d[2] = f}

EntriesOK ==
    /\ entry \in [File -> Size]
    /\ deleteQueue \subseteq (0 .. MaxTime + KeepTime) \X File
    /\ \A f \in File : IF entry[f] = "none"
                       THEN DeletionsOf(f) = {}
                       ELSE \E d \in deleteQueue : DeletionsOf(f) = {d}

\* How often a product was sent, is queued, and may yet be queued
PendingOf(f) == {e \in procQueue : e[2] = f}
IsOwed(f)    == file[f] # "none" /\ mtime[f] >= Start /\ entry[f] = "none"
Owed(f)      == IF IsOwed(f) THEN 1 ELSE 0

SendsOK ==
    /\ procQueue \subseteq (0 .. MaxTime) \X File /\ IsFiniteSet(procQueue)
    /\ sent \in [File -> Nat]

NotOwed == \A f \in File : sent[f] + Cardinality(PendingOf(f)) + Owed(f) <= writes[f]

IInv == DiskOK /\ WatchOK /\ ScansOK /\ ThreadsOK /\ EntriesOK /\ SendsOK /\ NotOwed

-----------------------------------------------------------------------------
(* The kernel's queue *)

(* A finite set as a sequence is one of its elements.                       *)
LEMMA SetToSeqType ==
    ASSUME NEW S, IsFiniteSet(S)
    PROVE  SetToSeq(S) \in Seq(S)
<1>1. PICK n \in Nat : ExistsBijection(1 .. n, S)
    BY FS_NatBijection
<1>2. Cardinality(S) = n
    BY <1>1, FS_CountingElements
<1>3. \E f \in [1 .. n -> S] : IsInjective(f)
    BY <1>1 DEF ExistsBijection, Bijection, Injection
<1>4. SetToSeq(S) \in [1 .. n -> S]
    BY <1>2, <1>3 DEF SetToSeq
<1>. QED BY <1>4

LEMMA ActiveIsFinite == WatchOK => IsFiniteSet(active)
<1> SUFFICES ASSUME WatchOK PROVE IsFiniteSet(active)
    OBVIOUS
<1>1. DOMAIN wds = 1 .. Len(wds) /\ Len(wds) \in Nat
    BY DEF WatchOK
<1>2. IsFiniteSet(DOMAIN wds)
    BY <1>1, FS_Interval
<1>. QED BY <1>2, FS_Subset DEF WatchOK

(* Events of watch descriptors that are in use can be queued.               *)
LEMMA Queued ==
    ASSUME WatchOK, NEW q \in Seq(Events), NEW W \in SUBSET active,
           NEW kind \in Kind, NEW name \in File \cup {Sub, NoName}
    PROVE  q \o SetToSeq({Event(wd, kind, name) : wd \in W}) \in Seq(Events)
<1> DEFINE new == {Event(wd, kind, name) : wd \in W}
<1>1. IsFiniteSet(W)
    BY ActiveIsFinite, FS_Subset
<1>2. IsFiniteSet(new)
    <2> DEFINE event == [wd \in W |-> Event(wd, kind, name)]
    <2>1. event \in Surjection(W, new)
        BY Fun_IsSurj
    <2>. QED BY <1>1, <2>1, FS_Surjection
<1>3. new \subseteq Events
    BY DEF WatchOK, Event, Events
<1>. HIDE DEF new
<1>4. SetToSeq(new) \in Seq(Events)
    BY <1>2, <1>3, SetToSeqType
<1>5. q \o SetToSeq(new) \in Seq(Events)
    BY <1>4
<1>. QED BY <1>5 DEF new

LEMMA PostKeeps ==
    ASSUME WatchOK, NEW q \in Seq(Events), NEW d, NEW kind \in Kind,
           NEW name \in File \cup {Sub, NoName}
    PROVE  Post(q, d, kind, name) \in Seq(Events)
<1>1. WatchOf(d) \in SUBSET active
    BY DEF WatchOf
<1>2. q \o SetToSeq({Event(wd, kind, name) : wd \in WatchOf(d)}) \in Seq(Events)
    BY <1>1, Queued
<1>. QED BY <1>2 DEF Post

LEMMA RemoveAndPruneKeeps ==
    ASSUME DiskOK, WatchOK, NEW f \in File, RemoveAndPrune(f)
    PROVE  /\ file' = [file EXCEPT ![f] = "none"] /\ mtime' = [mtime EXCEPT ![f] = 0]
           /\ writes' = writes /\ sub' \in BOOLEAN /\ made' = made
           /\ queue' \in Seq(Events) /\ active' \subseteq active /\ wds' = wds
<1> DEFINE deleted == Post(queue, DirOf(f), "delete", f)
           pruned  == Post(deleted, Root, "delete", Sub)
           removed == Post(pruned, Sub, "ignored", NoName)
<1>1. queue \in Seq(Events) /\ "delete" \in Kind /\ "ignored" \in Kind
    BY DEF WatchOK, Kind
<1>2. deleted \in Seq(Events)
    BY <1>1, PostKeeps
<1>. HIDE DEF deleted
<1>3. pruned \in Seq(Events)
    BY <1>1, <1>2, PostKeeps
<1>. HIDE DEF pruned
<1>4. removed \in Seq(Events)
    BY <1>1, <1>3, PostKeeps
<1>. HIDE DEF removed
<1>5. queue' = deleted \/ queue' = removed
    BY DEF RemoveAndPrune, deleted, pruned, removed
<1>6. /\ file' = [file EXCEPT ![f] = "none"] /\ mtime' = [mtime EXCEPT ![f] = 0]
      /\ writes' = writes /\ made' = made /\ wds' = wds
      /\ active' = active \/ active' = active \ WatchOf(Sub)
      /\ sub' = (sub /\ ~Prunes(f))
    BY DEF RemoveAndPrune
<1>. QED BY <1>2, <1>4, <1>5, <1>6

-----------------------------------------------------------------------------
(* What a step does to the disk and to the products *)

LEMMA TryAddFileIs ==
    ASSUME NEW t \in Scanner, NEW f \in File, NEW rest, TryAddFile(t, f, rest)
    PROVE  /\ \/ Add(f) /\ UNCHANGED <<diskVars, kernVars>>
              \/ RemoveAndPrune(f) /\ UNCHANGED repoVars
           /\ \/ scan' = [scan EXCEPT ![t] = rest] /\ UNCHANGED exVars
              \/ /\ scan' = [scan EXCEPT !["ctor"] = <<>>] \/ scan' = [scan EXCEPT !["watcher"] = <<>>]
                 /\ UNCHANGED deleter
                 /\ \/ watcher' = "failed" /\ threadEx' = TRUE /\ UNCHANGED main
                    \/ main' = "stop" /\ UNCHANGED <<watcher, threadEx>>
BY DEF TryAddFile, Throws, CtorThrows, WatcherThrows, exVars

Found(f) ==
    /\ file[f] # "none"
    /\ \/ Add(f) /\ UNCHANGED <<diskVars, kernVars>>
       \/ RemoveAndPrune(f) /\ UNCHANGED repoVars

(* A step changes the disk and the products as follows.                     *)
LEMMA StepEffects ==
    ASSUME Next
    PROVE  \/ UNCHANGED <<now, diskVars, repoVars>>
           \/ MakeDir \/ Tick \/ DeleteProd \/ GetNextProd
           \/ \E f \in File, state \in FileState \ {"none"}, kind \in Kind : Appears(f, state, kind)
           \/ \E f \in File : CloseFile(f)
           \/ \E f \in File : Found(f) /\ UNCHANGED now
<1>1. CASE \E f \in File : Create(f) \/ MoveIn(f) \/ Link(f) \/ CloseFile(f)
    BY <1>1 DEF Create, MoveIn, Link, FileState, Kind
<1>2. CASE MakeDir \/ Tick \/ DeleteProd \/ GetNextProd
    BY <1>2
<1>3. CASE \E t \in Scanner : Scan(t)
    <2>1. PICK t \in Scanner : Scan(t)
        BY <1>3
    <2>2. CASE OpenDir(t) \/ ListDir(t) \/ EndDir(t)
        BY <2>2 DEF OpenDir, ListDir, EndDir
    <2>3. CASE \E c \in File \cup {Sub} : ReadEntry(t, c)
        <3>1. PICK c \in File \cup {Sub} : ReadEntry(t, c)
            BY <2>3
        <3>2. \/ UNCHANGED <<now, diskVars, repoVars>>
              \/ /\ c # Sub /\ file[c] # "none" /\ UNCHANGED now
                 /\ \E rest : TryAddFile(t, c, rest)
            BY <3>1 DEF ReadEntry
        <3>. QED BY <3>2, TryAddFileIs DEF Found
    <2>. QED BY <2>1, <2>2, <2>3 DEF Scan
<1>4. CASE ProcessEvent
    <2> DEFINE e == Head(buf)
    <2>1. now' = now
        BY <1>4 DEF ProcessEvent
    <2>2. \/ ProcessThrows(e) \/ DirAdded(e) \/ DirDeleted(e) \/ Unrecognized(e)
          \/ ~Throwing(e) /\ FileAdded(e)
        BY <1>4 DEF ProcessEvent
    <2>3. CASE ProcessThrows(e) \/ DirAdded(e) \/ DirDeleted(e) \/ Unrecognized(e)
        BY <2>1, <2>3 DEF ProcessThrows, DirAdded, DirDeleted, Unrecognized
    <2>4. CASE ~Throwing(e) /\ FileAdded(e)
        <3>1. /\ e.name \in File /\ e.name # NoName /\ file[e.name] # "none"
              /\ TryAddFile("watcher", e.name, <<>>)
            BY <2>4, NameAssumption DEF FileAdded, Throwing, MayThrow
        <3>2. "watcher" \in Scanner
            BY DEF Scanner
        <3>. QED BY <2>1, <3>1, <3>2, TryAddFileIs DEF Found
    <2>. QED BY <2>2, <2>3, <2>4
<1>5. CASE PeerAsks \/ Halt \/ Scanned \/ StopWatcher \/ ReadEvents \/ SenderThrows
    BY <1>5 DEF PeerAsks, Halt, Scanned, StopWatcher, ReadEvents, SenderThrows
<1>. QED BY <1>1, <1>2, <1>3, <1>4, <1>5
     DEF Next, Outside, Constructor, WatcherThread, Sender, Scanner

(* What a step leaves alone or changes keeps the types of the disk.         *)
LEMMA DiskStep ==
    ASSUME DiskOK, WatchOK, Next
    PROVE  DiskOK'
<1>. USE DEF DiskOK
<1>1. CASE UNCHANGED <<now, diskVars, repoVars>> \/ GetNextProd
    BY <1>1 DEF GetNextProd, diskVars
<1>2. CASE MakeDir
    BY <1>2, BoundAssumption DEF MakeDir
<1>3. CASE Tick
    BY <1>3, BoundAssumption DEF Tick, diskVars
<1>4. CASE \E f \in File, state \in FileState \ {"none"}, kind \in Kind : Appears(f, state, kind)
    <2>1. PICK f \in File, state \in FileState, kind \in Kind : Appears(f, state, kind)
        BY <1>4
    <2>2. now \in 0 .. MaxTime /\ writes[f] + 1 \in 0 .. MaxWrites
        BY <2>1, BoundAssumption DEF Appears
    <2>. QED BY <2>1, <2>2 DEF Appears
<1>5. CASE \E f \in File : CloseFile(f)
    BY <1>5 DEF CloseFile, FileState
<1>6. CASE \E f \in File : RemoveAndPrune(f) /\ UNCHANGED now
    <2>1. PICK f \in File : RemoveAndPrune(f) /\ UNCHANGED now
        BY <1>6
    <2>2. "none" \in FileState /\ 0 \in 0 .. MaxTime
        BY BoundAssumption DEF FileState
    <2>. QED BY <2>1, <2>2, RemoveAndPruneKeeps
<1>7. CASE \E f \in File : Found(f) /\ UNCHANGED now
    <2>1. PICK f \in File : Found(f) /\ UNCHANGED now
        BY <1>7
    <2>. QED BY <1>6, <2>1 DEF Found, diskVars
<1>8. CASE DeleteProd
    <2>1. PICK d \in deleteQueue : /\ now' = now
                                   /\ IF file[d[2]] = "none"
                                      THEN UNCHANGED diskVars
                                      ELSE RemoveAndPrune(d[2])
        BY <1>8 DEF DeleteProd
    <2>2. CASE UNCHANGED diskVars
        BY <2>1, <2>2 DEF diskVars
    <2>3. CASE d[2] \in File /\ RemoveAndPrune(d[2])
        BY <1>6, <2>1, <2>3
    <2>4. CASE d[2] \notin File /\ RemoveAndPrune(d[2])
        BY <2>1, <2>4, BoundAssumption DEF RemoveAndPrune
    <2>. QED BY <2>1, <2>2, <2>3, <2>4
<1>. QED BY <1>1, <1>2, <1>3, <1>4, <1>5, <1>7, <1>8, StepEffects

-----------------------------------------------------------------------------
(* Entries and deletions *)

(* A new product has an entry and one deletion, and nothing else changes.   *)
LEMMA AddKeepsEntries ==
    ASSUME DiskOK, EntriesOK, NEW f \in File, Add(f)
    PROVE  EntriesOK'
<1> DEFINE d == <<mtime[f] + KeepTime, f>>
<1>1. CASE ~IsNew(f)
    BY <1>1 DEF Add, repoVars, EntriesOK, DeletionsOf
<1>2. CASE IsNew(f)
    <2>1. PICK size \in Sizes(f) : entry' = [entry EXCEPT ![f] = size]
        BY <1>2 DEF Add
    <2>2. size \in Size /\ size # "none"
        BY DEF Sizes, Size
    <2>3. deleteQueue' = deleteQueue \cup {d}
        BY <1>2 DEF Add
    <2>4. d \in (0 .. MaxTime + KeepTime) \X File
        BY BoundAssumption DEF DiskOK
    <2>5. d[2] = f
        OBVIOUS
    <2>. HIDE DEF d
    <2>6. DeletionsOf(f) = {}
        BY <1>2 DEF IsNew, EntriesOK
    <2>7. DeletionsOf(f)' = {d}
        BY <2>3, <2>5, <2>6 DEF DeletionsOf
    <2>8. \A g \in File \ {f} : DeletionsOf(g)' = DeletionsOf(g) /\ entry'[g] = entry[g]
        BY <2>1, <2>3, <2>5 DEF DeletionsOf, EntriesOK
    <2>9. entry' \in [File -> Size] /\ entry'[f] # "none"
        BY <2>1, <2>2 DEF EntriesOK
    <2>10. deleteQueue' \subseteq (0 .. MaxTime + KeepTime) \X File
        BY <2>3, <2>4 DEF EntriesOK
    <2>11. ASSUME NEW g \in File
           PROVE  IF entry'[g] = "none"
                  THEN DeletionsOf(g)' = {}
                  ELSE \E e \in deleteQueue' : DeletionsOf(g)' = {e}
        <3>1. CASE g = f
            BY <2>3, <2>7, <2>9, <3>1
        <3>2. CASE g # f
            BY <2>3, <2>8, <3>2 DEF EntriesOK
        <3>. QED BY <3>1, <3>2
    <2>. QED BY <2>9, <2>10, <2>11 DEF EntriesOK, DeletionsOf
<1>. QED BY <1>1, <1>2

LEMMA EntriesStep ==
    ASSUME DiskOK, EntriesOK, Next
    PROVE  EntriesOK'
<1>1. CASE UNCHANGED <<entry, deleteQueue>>
    BY <1>1 DEF EntriesOK, DeletionsOf
<1>2. CASE \E f \in File : Found(f) /\ UNCHANGED now
    BY <1>1, <1>2, AddKeepsEntries DEF Found, repoVars
<1>3. CASE DeleteProd
    <2>1. PICK d \in deleteQueue : \/ UNCHANGED <<entry, deleteQueue>>
                                   \/ /\ entry' = [entry EXCEPT ![d[2]] = "none"]
                                      /\ deleteQueue' = deleteQueue \ {d}
        BY <1>3 DEF DeleteProd, Popped, repoVars
    <2>2. CASE UNCHANGED <<entry, deleteQueue>>
        BY <1>1, <2>2
    <2>3. CASE /\ entry' = [entry EXCEPT ![d[2]] = "none"]
               /\ deleteQueue' = deleteQueue \ {d}
        <3>1. d[2] \in File /\ d \in DeletionsOf(d[2])
            BY DEF EntriesOK, DeletionsOf
        <3>2. DeletionsOf(d[2]) = {d}
            BY <3>1 DEF EntriesOK
        <3>3. DeletionsOf(d[2])' = {}
            BY <2>3, <3>2 DEF DeletionsOf
        <3>4. \A g \in File \ {d[2]} : DeletionsOf(g)' = DeletionsOf(g) /\ entry'[g] = entry[g]
            BY <2>3 DEF DeletionsOf, EntriesOK
        <3>5. entry' \in [File -> Size] /\ entry'[d[2]] = "none"
            BY <2>3, <3>1 DEF EntriesOK, Size
        <3>6. ASSUME NEW g \in File
              PROVE  IF entry'[g] = "none"
                     THEN DeletionsOf(g)' = {}
                     ELSE \E e \in deleteQueue' : DeletionsOf(g)' = {e}
            <4>1. CASE g = d[2]
                BY <3>3, <3>5, <4>1
            <4>2. CASE g # d[2]
                <5>1. CASE entry[g] = "none"
                    BY <3>4, <4>2, <5>1 DEF EntriesOK
                <5>2. CASE entry[g] # "none"
                    <6>1. PICK e \in deleteQueue : DeletionsOf(g) = {e}
                        BY <5>2 DEF EntriesOK
                    <6>2. e[2] = g
                        BY <6>1 DEF DeletionsOf
                    <6>3. e \in deleteQueue'
                        BY <2>3, <4>2, <6>2
                    <6>. QED BY <3>4, <4>2, <5>2, <6>1, <6>3
                <5>. QED BY <5>1, <5>2
            <4>. QED BY <4>1, <4>2
        <3>7. deleteQueue' \subseteq (0 .. MaxTime + KeepTime) \X File
            BY <2>3 DEF EntriesOK
        <3>. QED BY <3>5, <3>6, <3>7 DEF EntriesOK, DeletionsOf
    <2>. QED BY <2>1, <2>2, <2>3
<1>4. CASE UNCHANGED <<now, diskVars, repoVars>> \/ MakeDir \/ Tick \/ GetNextProd
    BY <1>1, <1>4 DEF MakeDir, Tick, GetNextProd, repoVars
<1>5. CASE \E f \in File, state \in FileState \ {"none"}, kind \in Kind : Appears(f, state, kind)
    BY <1>1, <1>5 DEF Appears, repoVars
<1>6. CASE \E f \in File : CloseFile(f)
    BY <1>1, <1>6 DEF CloseFile, repoVars
<1>. QED BY <1>2, <1>3, <1>4, <1>5, <1>6, StepEffects

-----------------------------------------------------------------------------
(* What was sent, and what is left to be sent *)

LEMMA PendingIsFinite ==
    ASSUME SendsOK, NEW f
    PROVE  IsFiniteSet(PendingOf(f)) /\ Cardinality(PendingOf(f)) \in Nat
<1>1. PendingOf(f) \subseteq procQueue
    BY DEF PendingOf
<1>2. IsFiniteSet(PendingOf(f))
    BY <1>1, FS_Subset DEF SendsOK
<1>. QED BY <1>2, FS_CardinalityType

LEMMA OwedIs ==
    ASSUME NEW f
    PROVE  /\ Owed(f) \in {0, 1} /\ (Owed(f) = 1 <=> IsOwed(f))
           /\ Owed(f)' \in {0, 1} /\ (Owed(f)' = 1 <=> IsOwed(f)')
BY DEF Owed

(* If nothing is queued or sent, then no more may be owed than was put into *)
(* the repository.                                                          *)
LEMMA NothingSent ==
    ASSUME SendsOK, NotOwed, writes \in [File -> Nat], writes' \in [File -> Nat],
           UNCHANGED <<procQueue, sent>>,
           \A f \in File : \/ writes'[f] = writes[f] /\ (IsOwed(f)' => IsOwed(f))
                           \/ writes'[f] = writes[f] + 1 /\ ~IsOwed(f)
    PROVE  SendsOK' /\ NotOwed'
<1>1. \A f : PendingOf(f)' = PendingOf(f)
    BY DEF PendingOf
<1>2. SendsOK'
    BY DEF SendsOK
<1>3. ASSUME NEW f \in File
      PROVE  sent'[f] + Cardinality(PendingOf(f)') + Owed(f)' <= writes'[f]
    <2> DEFINE n == Cardinality(PendingOf(f))
    <2>1. n \in Nat /\ sent[f] \in Nat /\ writes[f] \in Nat /\ writes'[f] \in Nat
        BY PendingIsFinite DEF SendsOK
    <2>2. sent[f] + n + Owed(f) <= writes[f]
        BY DEF NotOwed
    <2>3. sent'[f] = sent[f] /\ Cardinality(PendingOf(f)') = n
        BY <1>1
    <2>. HIDE DEF n
    <2>4. \/ writes'[f] = writes[f] /\ Owed(f)' <= Owed(f)
          \/ writes'[f] = writes[f] + 1 /\ Owed(f)' <= Owed(f) + 1
        BY OwedIs
    <2>5. Owed(f) \in Nat /\ Owed(f)' \in Nat
        BY OwedIs
    <2>6. sent[f] + n + Owed(f)' <= writes'[f]
        BY <2>1, <2>2, <2>4, <2>5
    <2>. QED BY <2>3, <2>6
<1>4. NotOwed'
    BY <1>3 DEF NotOwed, PendingOf
<1>. QED BY <1>2, <1>4

(* A new product is no longer owed when it is queued.                       *)
LEMMA AddKeepsSends ==
    ASSUME DiskOK, EntriesOK, SendsOK, NotOwed, NEW f \in File, file[f] # "none", Add(f),
           UNCHANGED diskVars
    PROVE  SendsOK' /\ NotOwed'
<1> USE DEF diskVars
<1>1. writes \in [File -> Nat] /\ writes' = writes
    BY DEF DiskOK
<1>2. CASE ~IsNew(f)
    BY <1>1, <1>2, NothingSent DEF Add, repoVars, IsOwed
<1>3. CASE IsNew(f)
    <2> DEFINE e == <<mtime[f], f>>
    <2>1. /\ entry'[f] # "none" /\ \A g \in File \ {f} : entry'[g] = entry[g]
          /\ sent' = sent
        BY <1>3 DEF Add, EntriesOK, Sizes
    <2>2. ~IsOwed(f)' /\ \A g \in File \ {f} : IsOwed(g)' <=> IsOwed(g)
        BY <2>1 DEF IsOwed
    <2>3. CASE ~Queues(f)
        <3>1. procQueue' = procQueue
            BY <1>3, <2>3 DEF Add
        <3>2. \A g \in File : IsOwed(g)' => IsOwed(g)
            BY <2>2
        <3>. QED BY <1>1, <2>1, <3>1, <3>2, NothingSent
    <2>4. CASE Queues(f)
        <3>1. procQueue' = procQueue \cup {e} /\ e[2] = f
            BY <1>3, <2>4 DEF Add
        <3>2. IsOwed(f)
            BY <1>3, <2>4 DEF IsOwed, Queues, IsNew
        <3>3. e \in (0 .. MaxTime) \X File
            BY DEF DiskOK
        <3>. HIDE DEF e
        <3>4. SendsOK'
            BY <2>1, <3>1, <3>3, FS_AddElement DEF SendsOK
        <3>5. \A g \in File \ {f} : PendingOf(g)' = PendingOf(g)
            BY <3>1 DEF PendingOf
        <3>6. PendingOf(f)' = PendingOf(f) \cup {e}
            BY <3>1 DEF PendingOf
        <3>7. ASSUME NEW g \in File
              PROVE  sent'[g] + Cardinality(PendingOf(g)') + Owed(g)' <= writes'[g]
            <4> DEFINE n == Cardinality(PendingOf(g))
                       m == Cardinality(PendingOf(g)')
            <4>1. n \in Nat /\ sent[g] \in Nat /\ writes[g] \in Nat
                BY <1>1, PendingIsFinite DEF SendsOK
            <4>2. sent[g] + n + Owed(g) <= writes[g]
                BY DEF NotOwed
            <4>3. CASE g = f
                <5>1. m = n \/ m = n + 1
                    BY <3>6, <4>3, PendingIsFinite, FS_AddElement
                <5>. HIDE DEF n, m
                <5>2. Owed(g) = 1 /\ Owed(g)' = 0
                    BY <2>2, <3>2, <4>3, OwedIs
                <5>3. sent[g] + m + Owed(g)' <= writes[g]
                    BY <4>1, <4>2, <5>1, <5>2
                <5>. QED BY <1>1, <2>1, <5>3 DEF m
            <4>4. CASE g # f
                <5>1. m = n /\ Owed(g)' = Owed(g)
                    BY <2>2, <3>5, <4>4 DEF Owed
                <5>. QED BY <1>1, <2>1, <4>2, <5>1
            <4>. QED BY <4>3, <4>4
        <3>8. NotOwed'
            BY <3>7 DEF NotOwed, PendingOf
        <3>. QED BY <3>4, <3>8
    <2>. QED BY <2>3, <2>4
<1>. QED BY <1>2, <1>3

(* What is sent was queued.                                                 *)
LEMMA GetNextProdKeepsSends ==
    ASSUME DiskOK, SendsOK, NotOwed, GetNextProd
    PROVE  SendsOK' /\ NotOwed'
<1>1. writes \in [File -> Nat] /\ writes' = writes
    BY DEF DiskOK, GetNextProd, diskVars
<1>2. PICK e \in procQueue :
         /\ UNCHANGED <<entry, diskVars>>
         /\ \/ UNCHANGED <<procQueue, sent>>
            \/ /\ procQueue' = procQueue \ {e}
               /\ sent' = [sent EXCEPT ![e[2]] = @ + IF entry[e[2]] # "none" THEN 1 ELSE 0]
    BY DEF GetNextProd, repoVars
<1>3. \A g : IsOwed(g)' <=> IsOwed(g)
    BY <1>2 DEF IsOwed, diskVars
<1>4. CASE UNCHANGED <<procQueue, sent>>
    BY <1>1, <1>3, <1>4, NothingSent
<1>5. CASE /\ procQueue' = procQueue \ {e}
           /\ sent' = [sent EXCEPT ![e[2]] = @ + IF entry[e[2]] # "none" THEN 1 ELSE 0]
    <2>1. e[2] \in File /\ e \in PendingOf(e[2])
        BY DEF SendsOK, PendingOf
    <2>2. /\ sent' \in [File -> Nat]
          /\ sent'[e[2]] = sent[e[2]] \/ sent'[e[2]] = sent[e[2]] + 1
          /\ \A g \in File \ {e[2]} : sent'[g] = sent[g]
        BY <1>5, <2>1 DEF SendsOK
    <2>3. SendsOK'
        BY <1>5, <2>2, FS_RemoveElement DEF SendsOK
    <2>4. \A g \in File \ {e[2]} : PendingOf(g)' = PendingOf(g)
        BY <1>5 DEF PendingOf
    <2>5. PendingOf(e[2])' = PendingOf(e[2]) \ {e}
        BY <1>5 DEF PendingOf
    <2>6. ASSUME NEW g \in File
          PROVE  sent'[g] + Cardinality(PendingOf(g)') + Owed(g)' <= writes'[g]
        <3> DEFINE n == Cardinality(PendingOf(g))
                   m == Cardinality(PendingOf(g)')
        <3>1. n \in Nat /\ sent[g] \in Nat /\ writes[g] \in Nat /\ Owed(g) \in Nat
            BY <1>1, PendingIsFinite, OwedIs DEF SendsOK
        <3>2. sent[g] + n + Owed(g) <= writes[g] /\ Owed(g)' = Owed(g)
            BY <1>3 DEF NotOwed, Owed
        <3>3. CASE g = e[2]
            <4>1. m = n - 1
                BY <2>1, <2>5, <3>3, PendingIsFinite, FS_RemoveElement
            <4>2. sent'[g] = sent[g] \/ sent'[g] = sent[g] + 1
                BY <2>2, <3>3
            <4>. HIDE DEF n, m
            <4>3. sent'[g] + m + Owed(g) <= writes[g]
                BY <3>1, <3>2, <4>1, <4>2
            <4>. QED BY <1>1, <3>2, <4>3 DEF m
        <3>4. CASE g # e[2]
            BY <1>1, <2>2, <2>4, <3>2, <3>4
        <3>. QED BY <3>3, <3>4
    <2>7. NotOwed'
        BY <2>6 DEF NotOwed, PendingOf
    <2>. QED BY <2>3, <2>7
<1>. QED BY <1>2, <1>4, <1>5

LEMMA SendsStep ==
    ASSUME DiskOK, DiskOK', EntriesOK, SendsOK, NotOwed, Next
    PROVE  SendsOK' /\ NotOwed'
<1>1. writes \in [File -> Nat] /\ writes' \in [File -> Nat]
    BY DEF DiskOK
<1>2. CASE UNCHANGED <<file, mtime, writes, repoVars>>
    BY <1>1, <1>2, NothingSent DEF repoVars, IsOwed
<1>3. ASSUME NEW f \in File, RemoveAndPrune(f), UNCHANGED <<procQueue, sent>>,
             \A g \in File \ {f} : entry'[g] = entry[g]
      PROVE  SendsOK' /\ NotOwed'
    <2>1. writes' = writes /\ file'[f] = "none"
        BY <1>3 DEF RemoveAndPrune, DiskOK
    <2>2. \A g \in File \ {f} : file'[g] = file[g] /\ mtime'[g] = mtime[g]
        BY <1>3 DEF RemoveAndPrune, DiskOK
    <2>3. \A g \in File : IsOwed(g)' => IsOwed(g)
        BY <1>3, <2>1, <2>2 DEF IsOwed
    <2>. QED BY <1>1, <1>3, <2>1, <2>3, NothingSent
<1>4. CASE \E f \in File : Found(f) /\ UNCHANGED now
    BY <1>3, <1>4, AddKeepsSends DEF Found, repoVars
<1>5. CASE DeleteProd
    <2>1. PICK d \in deleteQueue :
             \/ UNCHANGED <<file, mtime, writes, repoVars>>
             \/ RemoveAndPrune(d[2]) /\ UNCHANGED <<procQueue, sent>>
                /\ (UNCHANGED entry \/ entry' = [entry EXCEPT ![d[2]] = "none"])
        BY <1>5 DEF DeleteProd, repoVars, diskVars
    <2>2. d[2] \in File
        BY DEF EntriesOK
    <2>. QED BY <1>2, <1>3, <2>1, <2>2 DEF EntriesOK
<1>6. CASE \E f \in File, state \in FileState \ {"none"}, kind \in Kind : Appears(f, state, kind)
    <2>1. PICK f \in File, state \in FileState, kind \in Kind : Appears(f, state, kind)
        BY <1>6
    <2>2. /\ writes'[f] = writes[f] + 1 /\ ~IsOwed(f)
          /\ UNCHANGED <<entry, procQueue, sent>>
        BY <2>1 DEF Appears, DiskOK, IsOwed, repoVars
    <2>3. \A g \in File \ {f} : /\ writes'[g] = writes[g]
                                /\ file'[g] = file[g] /\ mtime'[g] = mtime[g]
        BY <2>1 DEF Appears, DiskOK
    <2>4. \A g \in File \ {f} : writes'[g] = writes[g] /\ (IsOwed(g)' => IsOwed(g))
        BY <2>2, <2>3 DEF IsOwed
    <2>. QED BY <1>1, <2>2, <2>4, NothingSent
<1>7. CASE \E f \in File : CloseFile(f)
    <2>1. PICK f \in File : CloseFile(f)
        BY <1>7
    <2>2. /\ writes' = writes /\ mtime' = mtime /\ UNCHANGED <<entry, procQueue, sent>>
          /\ \A g \in File : file'[g] # "none" => file[g] # "none"
        BY <2>1 DEF CloseFile, DiskOK, repoVars
    <2>3. \A g \in File : IsOwed(g)' => IsOwed(g)
        BY <2>2 DEF IsOwed
    <2>. QED BY <1>1, <2>2, <2>3, NothingSent
<1>8. CASE UNCHANGED <<now, diskVars, repoVars>> \/ MakeDir \/ Tick
    BY <1>2, <1>8 DEF MakeDir, Tick, diskVars
<1>. QED BY <1>4, <1>5, <1>6, <1>7, <1>8, GetNextProdKeepsSends, StepEffects

-----------------------------------------------------------------------------
(* The watcher and the scans *)

(* When no watch descriptor is new, those that are known stay so.           *)
LEMMA WatchKept ==
    ASSUME WatchOK, ScansOK, wds' = wds, active' \subseteq active,
           queue' \in Seq(Events), buf' \in Seq(Events),
           DOMAIN wdToDirs' \subseteq DOMAIN wds, watchedDirs' \subseteq {Root, Sub},
           scan' \in [Scanner -> Seq(Frames)]
    PROVE  WatchOK' /\ ScansOK'
<1>1. Events' = Events /\ Frames' = Frames
    BY DEF Events, Frames
<1>. QED BY <1>1 DEF WatchOK, ScansOK

LEMMA ScanKept ==
    ASSUME ScansOK, NEW t \in Scanner, NEW s \in Seq(Frames), scan' = [scan EXCEPT ![t] = s]
    PROVE  scan' \in [Scanner -> Seq(Frames)]
BY DEF ScansOK

LEMMA ScanEnded ==
    ASSUME ScansOK, \E u \in Scanner : scan' = [scan EXCEPT ![u] = <<>>]
    PROVE  scan' \in [Scanner -> Seq(Frames)]
<1>1. <<>> \in Seq(Frames)
    OBVIOUS
<1>2. PICK u \in Scanner : scan' = [scan EXCEPT ![u] = <<>>]
    OBVIOUS
<1>. QED BY <1>1, <1>2, ScanKept

(* The frame of a thread that scans.                                        *)
LEMMA TopFrame ==
    ASSUME ScansOK, NEW t \in Scanner, scan[t] # <<>>
    PROVE  /\ scan[t] \in Seq(Frames) /\ Tail(scan[t]) \in Seq(Frames)
           /\ Head(scan[t]) \in Frames
           /\ \A x \in Frames : <<x>> \o Tail(scan[t]) \in Seq(Frames)
<1>1. scan[t] \in Seq(Frames)
    BY DEF ScansOK
<1>2. Tail(scan[t]) \in Seq(Frames) /\ Head(scan[t]) \in Frames
    BY <1>1
<1>3. \A x \in Frames : <<x>> \o Tail(scan[t]) \in Seq(Frames)
    BY <1>2
<1>. QED BY <1>1, <1>2, <1>3

LEMMA OpeningIsFrame ==
    ASSUME WatchOK, NEW d \in {Root, Sub}
    PROVE  Opening(d) \in Frames
BY DEF WatchOK, Opening, Frame, Frames, Step

LEMMA OpenDirKeeps ==
    ASSUME DiskOK, WatchOK, ScansOK, NEW t \in Scanner, OpenDir(t)
    PROVE  WatchOK' /\ ScansOK'
<1> DEFINE d   == Head(scan[t]).dir
           new == Len(wds) + 1
<1>1. scan[t] # <<>> /\ Head(scan[t]) \in Frames /\ d \in {Root, Sub}
    BY TopFrame DEF OpenDir, At, Frames
<1>2. UNCHANGED <<wdToDirs, watchedDirs, buf>>
    BY DEF OpenDir, watchVars
<1>3. DOMAIN wds = 1 .. Len(wds) /\ Len(wds) \in Nat
    BY DEF WatchOK
<1>4. CASE Throws(t) /\ UNCHANGED kernVars
    <2>1. \E u \in Scanner : scan' = [scan EXCEPT ![u] = <<>>]
        BY <1>4 DEF Throws, CtorThrows, WatcherThrows, Scanner
    <2>2. scan' \in [Scanner -> Seq(Frames)]
        BY <2>1, ScanEnded
    <2>. QED BY <1>2, <1>4, <2>2, WatchKept DEF kernVars, WatchOK
<1>5. ASSUME NEW wd \in 0 .. Len(wds), Become(t, Frame(d, "watched", wd, {})), UNCHANGED kernVars
      PROVE  WatchOK' /\ ScansOK'
    <2>1. Frame(d, "watched", wd, {}) \in Frames
        BY <1>1, <1>5 DEF Frame, Frames, Step
    <2>2. scan' \in [Scanner -> Seq(Frames)]
        BY <1>1, <1>5, <2>1, TopFrame, ScanKept DEF Become
    <2>. QED BY <1>2, <1>5, <2>2, WatchKept DEF kernVars, WatchOK
<1>6. CASE /\ Become(t, Frame(d, "watched", new, {}))
           /\ wds' = Append(wds, InodeOf(d))
           /\ active' = active \cup {new}
           /\ queue' = queue
    <2>1. InodeOf(d) \in 0 .. MaxDirs
        BY BoundAssumption DEF InodeOf, RootInode, DiskOK
    <2>2. wds' \in Seq(0 .. MaxDirs) /\ Len(wds') = new /\ DOMAIN wds' = 1 .. new
        BY <1>3, <1>6, <2>1 DEF WatchOK
    <2>3. DOMAIN wds \subseteq DOMAIN wds' /\ new \in DOMAIN wds'
        BY <1>3, <2>2
    <2>4. Events \subseteq Events' /\ Frames \subseteq Frames'
        BY <1>3, <2>2, <2>3 DEF Events, Frames
    <2>5. Seq(Events) \subseteq Seq(Events') /\ Seq(Frames) \subseteq Seq(Frames')
        BY <2>4, SeqDef
    <2>6. Frame(d, "watched", new, {}) \in Frames'
        BY <1>1, <1>3, <2>2 DEF Frame, Frames, Step
    <2>7. scan[t] \in Seq(Frames') /\ Tail(scan[t]) \in Seq(Frames')
        BY <1>1, <2>5, TopFrame
    <2>8. <<Frame(d, "watched", new, {})>> \o Tail(scan[t]) \in Seq(Frames')
        BY <2>6, <2>7
    <2>9. scan' \in [Scanner -> Seq(Frames')]
        BY <1>6, <2>5, <2>8 DEF Become, ScansOK
    <2>10. /\ queue' \in Seq(Events') /\ buf' \in Seq(Events')
           /\ active' \subseteq DOMAIN wds' /\ DOMAIN wdToDirs' \subseteq DOMAIN wds'
           /\ watchedDirs' \subseteq {Root, Sub}
        BY <1>2, <1>6, <2>3, <2>5 DEF WatchOK
    <2>. QED BY <2>2, <2>9, <2>10 DEF WatchOK, ScansOK
<1>7. \/ Throws(t) /\ UNCHANGED kernVars
      \/ \E wd \in {0} \cup WatchOf(d) : Become(t, Frame(d, "watched", wd, {})) /\ UNCHANGED kernVars
      \/ /\ Become(t, Frame(d, "watched", new, {}))
         /\ wds' = Append(wds, InodeOf(d))
         /\ active' = active \cup {new}
         /\ queue' = queue
    BY DEF OpenDir
<1>8. {0} \cup WatchOf(d) \subseteq 0 .. Len(wds)
    BY <1>3 DEF WatchOf, WatchOK
<1>. QED BY <1>4, <1>5, <1>6, <1>7, <1>8

LEMMA ListDirKeeps ==
    ASSUME WatchOK, ScansOK, NEW t \in Scanner, ListDir(t)
    PROVE  WatchOK' /\ ScansOK'
<1> DEFINE top  == Head(scan[t])
           next == Frame(top.dir, "read", 0, Entries(top.dir))
           new  == {wd \in {top.wd} : wd # 0}
<1>1. scan[t] # <<>> /\ top \in Frames
    BY TopFrame DEF ListDir, At
<1>2. DOMAIN wds = 1 .. Len(wds) /\ Len(wds) \in Nat
    BY DEF WatchOK
<1>3. next \in Frames
    BY <1>1, <1>2 DEF Frame, Frames, Step, Entries
<1>4. scan' \in [Scanner -> Seq(Frames)]
    BY <1>1, <1>3, TopFrame, ScanKept DEF ListDir, Become
<1>5. DOMAIN wdToDirs' \subseteq DOMAIN wds
    <2>1. new \subseteq DOMAIN wds
        BY <1>1, <1>2 DEF Frames
    <2>2. DOMAIN wdToDirs' = DOMAIN wdToDirs \cup new
        BY DEF ListDir
    <2>. QED BY <2>1, <2>2 DEF WatchOK
<1>6. watchedDirs' \subseteq {Root, Sub}
    BY <1>1 DEF ListDir, Frames, WatchOK
<1>. QED BY <1>4, <1>5, <1>6, WatchKept DEF ListDir, kernVars, WatchOK

LEMMA TryAddFileKeeps ==
    ASSUME DiskOK, WatchOK, ScansOK, NEW t \in Scanner, NEW f \in File,
           NEW rest \in Seq(Frames), TryAddFile(t, f, rest), UNCHANGED <<wdToDirs, watchedDirs>>,
           buf' \in Seq(Events)
    PROVE  WatchOK' /\ ScansOK'
<1>1. /\ "ctor" \in Scanner /\ "watcher" \in Scanner /\ <<>> \in Seq(Frames)
    BY DEF Scanner
<1>2. scan' \in [Scanner -> Seq(Frames)]
    BY <1>1, TryAddFileIs, ScanKept
<1>3. queue' \in Seq(Events) /\ active' \subseteq active /\ wds' = wds
    <2>1. CASE UNCHANGED kernVars
        BY <2>1 DEF kernVars, WatchOK
    <2>2. CASE RemoveAndPrune(f)
        BY <2>2, RemoveAndPruneKeeps
    <2>. QED BY <2>1, <2>2, TryAddFileIs
<1>. QED BY <1>2, <1>3, WatchKept DEF WatchOK

LEMMA ReadEntryKeeps ==
    ASSUME DiskOK, WatchOK, ScansOK, NEW t \in Scanner, NEW c \in File \cup {Sub}, ReadEntry(t, c)
    PROVE  WatchOK' /\ ScansOK'
<1> DEFINE top  == Head(scan[t])
           left == [top EXCEPT !.left = @ \ {c}]
           rest == <<left>> \o Tail(scan[t])
<1>1. scan[t] # <<>> /\ top \in Frames
    BY TopFrame DEF ReadEntry, At
<1>2. left \in Frames
    BY <1>1 DEF Frames
<1>3. rest \in Seq(Frames)
    BY <1>1, <1>2, TopFrame
<1>4. UNCHANGED <<wdToDirs, watchedDirs, buf>> /\ buf' \in Seq(Events)
    BY DEF ReadEntry, watchVars, WatchOK
<1>5. \/ scan' = [scan EXCEPT ![t] = <<Opening(Sub)>> \o rest] /\ UNCHANGED kernVars
      \/ c \in File /\ TryAddFile(t, c, rest)
      \/ Throws(t) /\ UNCHANGED kernVars
    BY DEF ReadEntry
<1>. HIDE DEF rest
<1>6. CASE scan' = [scan EXCEPT ![t] = <<Opening(Sub)>> \o rest] /\ UNCHANGED kernVars
    <2>1. <<Opening(Sub)>> \o rest \in Seq(Frames)
        BY <1>3, OpeningIsFrame
    <2>2. scan' \in [Scanner -> Seq(Frames)]
        BY <1>6, <2>1, ScanKept
    <2>. QED BY <1>4, <1>6, <2>2, WatchKept DEF kernVars, WatchOK
<1>7. CASE c \in File /\ TryAddFile(t, c, rest)
    BY <1>3, <1>4, <1>7, TryAddFileKeeps
<1>8. CASE Throws(t) /\ UNCHANGED kernVars
    <2>1. \E u \in Scanner : scan' = [scan EXCEPT ![u] = <<>>]
        BY <1>8 DEF Throws, CtorThrows, WatcherThrows, Scanner
    <2>2. scan' \in [Scanner -> Seq(Frames)]
        BY <2>1, ScanEnded
    <2>. QED BY <1>4, <1>8, <2>2, WatchKept DEF kernVars, WatchOK
<1>. QED BY <1>5, <1>6, <1>7, <1>8

LEMMA ProcessEventKeeps ==
    ASSUME DiskOK, WatchOK, ScansOK, ProcessEvent
    PROVE  WatchOK' /\ ScansOK'
<1> DEFINE e == Head(buf)
<1>1. buf # <<>> /\ buf \in Seq(Events) /\ Tail(buf) \in Seq(Events)
    BY DEF ProcessEvent, WatchOK
<1>2. buf' \in Seq(Events) /\ "watcher" \in Scanner /\ <<>> \in Seq(Frames)
    BY <1>1 DEF ProcessEvent, Scanner
<1>3. CASE ProcessThrows(e)
    <2>1. /\ scan' = [scan EXCEPT !["watcher"] = <<>>]
          /\ queue' = <<>> /\ UNCHANGED <<wds, active, wdToDirs, watchedDirs>>
        BY <1>3 DEF ProcessThrows, WatcherThrows
    <2>2. scan' \in [Scanner -> Seq(Frames)]
        BY <1>2, <2>1, ScanEnded
    <2>3. queue' \in Seq(Events)
        BY <2>1
    <2>. QED BY <1>2, <2>1, <2>2, <2>3, WatchKept DEF WatchOK
<1>4. CASE DirAdded(e)
    <2>1. /\ scan' = [scan EXCEPT !["watcher"] = <<Opening(Sub)>>]
          /\ UNCHANGED <<kernVars, wdToDirs, watchedDirs>>
        BY <1>4 DEF DirAdded
    <2>2. <<Opening(Sub)>> \in Seq(Frames)
        BY OpeningIsFrame
    <2>3. scan' \in [Scanner -> Seq(Frames)]
        BY <1>2, <2>1, <2>2, ScanKept
    <2>. QED BY <1>2, <2>1, <2>3, WatchKept DEF WatchOK, kernVars
<1>5. CASE DirDeleted(e)
    <2>1. /\ DOMAIN wdToDirs' = DOMAIN wdToDirs \ {e.wd}
          /\ watchedDirs' = watchedDirs \ {Sub} /\ active' = active \ {e.wd}
          /\ queue' = queue \o SetToSeq({Event(wd, "ignored", NoName) : wd \in active \cap {e.wd}})
          /\ UNCHANGED <<wds, scan>>
        BY <1>5 DEF DirDeleted
    <2>2. active \cap {e.wd} \in SUBSET active /\ "ignored" \in Kind /\ queue \in Seq(Events)
        BY DEF Kind, WatchOK
    <2>3. queue' \in Seq(Events)
        BY <2>1, <2>2, Queued
    <2>. QED BY <1>2, <2>1, <2>3, WatchKept DEF WatchOK, ScansOK
<1>6. CASE FileAdded(e)
    BY <1>2, <1>6, TryAddFileKeeps DEF FileAdded
<1>7. CASE Unrecognized(e)
    BY <1>2, <1>7, WatchKept DEF Unrecognized, kernVars, WatchOK, ScansOK
<1>. QED BY <1>3, <1>4, <1>5, <1>6, <1>7 DEF ProcessEvent

LEMMA WatchStep ==
    ASSUME DiskOK, WatchOK, ScansOK, EntriesOK, Next
    PROVE  WatchOK' /\ ScansOK'
<1>1. queue \in Seq(Events) /\ buf \in Seq(Events) /\ <<>> \in Seq(Events)
    BY DEF WatchOK
<1>2. ASSUME queue' \in Seq(Events), UNCHANGED <<wds, active, watchVars, scan>>
      PROVE  WatchOK' /\ ScansOK'
    BY <1>2, WatchKept DEF watchVars, WatchOK, ScansOK
<1>3. CASE \E f \in File : Create(f) \/ MoveIn(f) \/ Link(f) \/ CloseFile(f)
    <2>1. PICK f \in File, kind \in Kind :
             /\ queue' = Post(queue, DirOf(f), kind, f)
             /\ UNCHANGED <<wds, active, watchVars, scan>>
        BY <1>3 DEF Create, MoveIn, Link, Appears, CloseFile, Kind
    <2>2. queue' \in Seq(Events)
        BY <1>1, <2>1, PostKeeps
    <2>. QED BY <1>2, <2>1, <2>2
<1>4. CASE MakeDir
    <2>1. /\ queue' = Post(queue, Root, "create", Sub) /\ "create" \in Kind
          /\ UNCHANGED <<wds, active, watchVars, scan>>
        BY <1>4 DEF MakeDir, Kind
    <2>2. queue' \in Seq(Events)
        BY <1>1, <2>1, PostKeeps
    <2>. QED BY <1>2, <2>1, <2>2
<1>5. CASE DeleteProd
    <2>1. PICK d \in deleteQueue : /\ UNCHANGED <<watchVars, scan>>
                                   /\ UNCHANGED kernVars \/ RemoveAndPrune(d[2])
        BY <1>5 DEF DeleteProd
    <2>2. CASE UNCHANGED kernVars
        BY <1>1, <1>2, <2>1, <2>2 DEF kernVars
    <2>3. CASE RemoveAndPrune(d[2])
        <3>1. queue' \in Seq(Events) /\ active' \subseteq active /\ wds' = wds
            BY <2>3, RemoveAndPruneKeeps DEF EntriesOK
        <3>. QED BY <1>1, <2>1, <3>1, WatchKept DEF watchVars, WatchOK, ScansOK
    <2>. QED BY <2>1, <2>2, <2>3
<1>6. CASE \E t \in Scanner : Scan(t)
    <2>1. PICK t \in Scanner : Scan(t)
        BY <1>6
    <2>2. CASE EndDir(t)
        <3>1. scan' \in [Scanner -> Seq(Frames)]
            BY <2>2, TopFrame, ScanKept DEF EndDir, At
        <3>. QED BY <2>2, <3>1, WatchKept DEF EndDir, kernVars, watchVars, WatchOK
    <2>. QED BY <2>1, <2>2, OpenDirKeeps, ListDirKeeps, ReadEntryKeeps DEF Scan
<1>7. CASE StopWatcher
    <2>1. "watcher" \in Scanner /\ <<>> \in Seq(Frames)
        BY DEF Scanner
    <2>2. scan' \in [Scanner -> Seq(Frames)]
        BY <1>7, <2>1, ScanKept DEF StopWatcher
    <2>. QED BY <1>1, <1>7, <2>2, WatchKept DEF StopWatcher, WatchOK
<1>8. CASE ReadEvents
    BY <1>1, <1>8, WatchKept DEF ReadEvents, WatchOK, ScansOK
<1>9. CASE Tick \/ PeerAsks \/ Halt \/ Scanned \/ GetNextProd \/ SenderThrows
    BY <1>1, <1>2, <1>9 DEF Tick, PeerAsks, Halt, Scanned, GetNextProd, SenderThrows, kernVars
<1>. QED BY <1>3, <1>4, <1>5, <1>6, <1>7, <1>8, <1>9, ProcessEventKeeps
     DEF Next, Outside, Constructor, WatcherThread, Sender, Scanner

-----------------------------------------------------------------------------
(* The threads *)

LEMMA ThreadsStep ==
    ASSUME ThreadsOK, Next
    PROVE  ThreadsOK'
<1>. USE DEF ThreadsOK, exVars
<1>1. CASE \E f \in File : Create(f) \/ MoveIn(f) \/ Link(f) \/ CloseFile(f)
    BY <1>1 DEF Create, MoveIn, Link, Appears, CloseFile
<1>2. CASE MakeDir \/ Tick \/ PeerAsks \/ Halt \/ Scanned \/ StopWatcher \/ ReadEvents
    BY <1>2 DEF MakeDir, Tick, PeerAsks, Halt, Scanned, StopWatcher, ReadEvents
<1>3. CASE DeleteProd \/ GetNextProd \/ SenderThrows
    BY <1>3 DEF DeleteProd, GetNextProd, SenderThrows
<1>4. CASE \E t \in Scanner : Scan(t)
    <2>1. PICK t \in Scanner : Scan(t)
        BY <1>4
    <2>2. CASE OpenDir(t) \/ ListDir(t) \/ EndDir(t)
        BY <2>2 DEF OpenDir, ListDir, EndDir, Throws, CtorThrows, WatcherThrows
    <2>3. CASE \E c \in File \cup {Sub} : ReadEntry(t, c)
        <3>1. PICK c \in File \cup {Sub} : ReadEntry(t, c)
            BY <2>3
        <3>2. /\ UNCHANGED sender
              /\ \/ UNCHANGED exVars
                 \/ Throws(t)
                 \/ \E rest : c \in File /\ TryAddFile(t, c, rest)
            BY <3>1 DEF ReadEntry
        <3>. QED BY <3>2, TryAddFileIs DEF Throws, CtorThrows, WatcherThrows
    <2>. QED BY <2>1, <2>2, <2>3 DEF Scan
<1>5. CASE ProcessEvent
    <2> DEFINE e == Head(buf)
    <2>1. UNCHANGED sender
        BY <1>5 DEF ProcessEvent
    <2>2. CASE ProcessThrows(e)
        BY <2>1, <2>2 DEF ProcessThrows, WatcherThrows
    <2>3. CASE DirAdded(e) \/ DirDeleted(e) \/ Unrecognized(e)
        BY <2>1, <2>3 DEF DirAdded, DirDeleted, Unrecognized
    <2>4. CASE FileAdded(e)
        <3>1. TryAddFile("watcher", e.name, <<>>) /\ e.name \in File /\ "watcher" \in Scanner
            BY <2>4 DEF FileAdded, Scanner
        <3>. QED BY <2>1, <3>1, TryAddFileIs
    <2>. QED BY <1>5, <2>2, <2>3, <2>4 DEF ProcessEvent
<1>. QED BY <1>1, <1>2, <1>3, <1>4, <1>5
     DEF Next, Outside, Constructor, WatcherThread, Sender, Scanner

-----------------------------------------------------------------------------
(* The invariant *)

THEOREM InitIInv == Init => IInv
<1> SUFFICES ASSUME Init PROVE IInv
    OBVIOUS
<1>1. DiskOK
    <2>1. PICK found \in [File -> {<<"none", 0>>, <<"whole", 0>>, <<"whole", Start - 1>>}] :
             /\ file = [f \in File |-> found[f][1]]
             /\ mtime = [f \in File |-> found[f][2]]
        BY DEF Init
    <2>2. \A f \in File : found[f][1] \in FileState /\ found[f][2] \in 0 .. MaxTime
        BY BoundAssumption DEF FileState
    <2>. QED BY <2>1, <2>2, BoundAssumption DEF Init, DiskOK
<1>2. WatchOK
    BY DEF Init, WatchOK
<1>3. ScansOK
    <2>1. Opening(Root) \in Frames
        BY <1>2, OpeningIsFrame
    <2>2. <<Opening(Root)>> \in Seq(Frames) /\ <<>> \in Seq(Frames)
        BY <2>1
    <2>. QED BY <2>2 DEF Init, ScansOK
<1>4. ThreadsOK /\ EntriesOK
    BY DEF Init, ThreadsOK, EntriesOK, DeletionsOf, Size
<1>5. SendsOK
    BY FS_EmptySet DEF Init, SendsOK
<1>6. NotOwed
    <2>1. \A f : Cardinality(PendingOf(f)) = 0
        <3>1. \A f : PendingOf(f) = {}
            BY DEF Init, PendingOf
        <3>. QED BY <3>1, FS_EmptySet
    <2>2. \A f \in File : ~IsOwed(f)
        BY BoundAssumption DEF Init, IsOwed
    <2>. QED BY <2>1, <2>2 DEF Init, NotOwed, Owed
<1>. QED BY <1>1, <1>2, <1>3, <1>4, <1>5, <1>6 DEF IInv

THEOREM StepIInv == IInv /\ [Next]_vars => IInv'
<1> SUFFICES ASSUME IInv, [Next]_vars PROVE IInv'
    OBVIOUS
<1>. USE DEF IInv
<1>1. CASE Next
    <2>1. DiskOK'
        BY <1>1, DiskStep
    <2>2. WatchOK' /\ ScansOK' /\ ThreadsOK'
        BY <1>1, WatchStep, ThreadsStep
    <2>3. EntriesOK' /\ SendsOK' /\ NotOwed'
        BY <1>1, <2>1, EntriesStep, SendsStep
    <2>. QED BY <2>1, <2>2, <2>3
<1>2. CASE UNCHANGED vars
    <2>. USE <1>2 DEF vars, diskVars, kernVars, watchVars, repoVars, exVars
    <2>1. DiskOK' /\ ThreadsOK' /\ EntriesOK'
        BY DEF DiskOK, ThreadsOK, EntriesOK, DeletionsOf
    <2>2. WatchOK' /\ ScansOK'
        BY DEF WatchOK, ScansOK, Events, Frames
    <2>3. SendsOK' /\ NotOwed'
        BY DEF SendsOK, NotOwed, PendingOf, Owed, IsOwed
    <2>. QED BY <2>1, <2>2, <2>3
<1>. QED BY <1>1, <1>2

(* The invariant that the following theorems rest on.                       *)
THEOREM InvariantHolds == Spec => []IInv
<1>1. Init => IInv
    BY InitIInv
<1>2. IInv /\ [Next]_vars => IInv'
    BY StepIInv
<1>. QED BY <1>1, <1>2, PTL DEF Spec

(* Every variable keeps its type: every event and every scan has a watch    *)
(* descriptor that the kernel gave out, and exactly the products that have  *)
(* an entry are in the queue of those to be deleted, once.                  *)
THEOREM TypeCorrect == Spec => []TypeOK
<1>1. IInv => TypeOK
    <2> SUFFICES ASSUME IInv PROVE TypeOK
        OBVIOUS
    <2>. USE DEF IInv
    <2>1. \A q \in {queue, buf} : \A i \in DOMAIN q :
             q[i].wd \in DOMAIN wds /\ q[i].name \in File \cup {Sub, NoName}
        <3> SUFFICES ASSUME NEW q \in {queue, buf}, NEW i \in DOMAIN q
                     PROVE  q[i].wd \in DOMAIN wds /\ q[i].name \in File \cup {Sub, NoName}
            OBVIOUS
        <3>1. q \in Seq(Events)
            BY DEF WatchOK
        <3>2. q[i] \in Events
            BY <3>1
        <3>. QED BY <3>2 DEF Events
    <2>2. \A t \in Scanner : \A i \in DOMAIN scan[t] :
             scan[t][i].step \in Step /\ scan[t][i].dir \in {Root, Sub}
        <3> SUFFICES ASSUME NEW t \in Scanner, NEW i \in DOMAIN scan[t]
                     PROVE  scan[t][i].step \in Step /\ scan[t][i].dir \in {Root, Sub}
            OBVIOUS
        <3>1. scan[t] \in Seq(Frames)
            BY DEF ScansOK
        <3>2. scan[t][i] \in Frames
            BY <3>1
        <3>. QED BY <3>2 DEF Frames
    <2>3. ASSUME NEW f \in File
          PROVE  Cardinality({d \in deleteQueue : d[2] = f}) = IF entry[f] = "none" THEN 0 ELSE 1
        <3>1. CASE entry[f] = "none"
            BY <3>1, FS_EmptySet DEF EntriesOK, DeletionsOf
        <3>2. CASE entry[f] # "none"
            BY <3>2, FS_Singleton DEF EntriesOK, DeletionsOf
        <3>. QED BY <3>1, <3>2
    <2>4. /\ now \in Start .. MaxTime
          /\ file \in [File -> FileState] /\ mtime \in [File -> 0 .. MaxTime]
          /\ writes \in [File -> 0 .. MaxWrites]
          /\ sub \in BOOLEAN /\ made \in 0 .. MaxDirs
        BY DEF DiskOK
    <2>. QED BY <2>1, <2>2, <2>3, <2>4 DEF TypeOK, WatchOK, ThreadsOK, EntriesOK, SendsOK
<1>. QED BY <1>1, InvariantHolds, PTL

(* No product is sent more often than it was put into the repository while  *)
(* the publisher runs, whoever finds it: tryAddFile() queues a product only *)
(* with its entry, and getNextProd() takes it from the queue.               *)
THEOREM SentOnceHolds == Spec => []SentOnce
<1>1. IInv => SentOnce
    <2> SUFFICES ASSUME IInv, NEW f \in File PROVE sent[f] <= writes[f]
        BY DEF SentOnce
    <2> DEFINE n == Cardinality(PendingOf(f))
    <2>1. n \in Nat /\ sent[f] \in Nat /\ writes[f] \in Nat /\ Owed(f) \in Nat
        BY PendingIsFinite, OwedIs DEF IInv, SendsOK, DiskOK
    <2>2. sent[f] + n + Owed(f) <= writes[f]
        BY DEF IInv, NotOwed
    <2>. HIDE DEF n
    <2>. QED BY <2>1, <2>2
<1>. QED BY <1>1, InvariantHolds, PTL

=============================================================================
