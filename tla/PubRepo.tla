------------------------------ MODULE PubRepo ------------------------------
(***************************************************************************)
(* A publisher's repository (PubRepo::Impl and Repository::Impl), its      *)
(* Watcher and the thread that sends what it finds (PubNodeImpl).  Others  *)
(* write files into the repository's root directory and into one           *)
(* subdirectory of it while the constructor's thread scans both, the       *)
(* watcher's thread handles inotify(7) events and the deleter's thread     *)
(* removes products that are too old.  The kernel's part is external: its  *)
(* directories, watches and queue of events.                               *)
(*                                                                         *)
(* A step is one system call or what happens while the repository's mutex  *)
(* is held.  wdToDirs and watchedDirs are changed by two threads without a *)
(* common mutex; each of their accesses is taken to be atomic.             *)
(***************************************************************************)
EXTENDS Naturals, Sequences, FiniteSets, SequencesExt

CONSTANTS
    File,        \* names of product-files
    Nested,      \* those in the subdirectory
    KeepTime,    \* RunPar::prodKeepTime
    Start,       \* when the publisher starts
    MaxTime,     \* bound: the last time
    MaxWrites,   \* bound: how often each file is put into the repository
    MaxDirs,     \* bound: how often the subdirectory is made
    Root, Sub,   \* the directories
    NoName

ASSUME NestedAssumption == Nested \subseteq File
ASSUME NameAssumption ==
    /\ Root # Sub
    /\ File \cap {Root, Sub, NoName} = {} /\ NoName \notin {Root, Sub}
ASSUME BoundAssumption ==
    /\ KeepTime \in Nat \ {0} /\ Start \in Nat \ {0} /\ MaxTime \in Nat
    /\ MaxWrites \in Nat /\ MaxDirs \in Nat \ {0} /\ Start <= MaxTime

VARIABLES
    now,          \* the clock
    file,         \* state of each file
    mtime,        \* its modification time
    writes,       \* how often it was put into the repository
    sub,          \* whether the subdirectory exists
    made,         \* how often it was made: its inode
    wds,          \* inode of each watch descriptor
    active,       \* watch descriptors in use
    queue,        \* the kernel's queue of events
    wdToDirs,     \* Watcher: directories of watch descriptors
    watchedDirs,  \* Watcher: directories that are watched
    buf,          \* Watcher: events that were read
    scan,         \* stack of scanRepo() of each scanning thread
    main,         \* the constructor: "scan", "stop" or "done"
    watcher,      \* the watcher's thread
    entry,        \* size with which a product is in prodEntries
    deleteQueue,  \* pairs of a time and a product
    procQueue,    \* pairs of a time and a product, at most one for each time
    deleter,      \* the deleter's thread
    threadEx,     \* an exception of these threads is waiting to be thrown
    sender,       \* PubNodeImpl::runSender()
    sent          \* how often each product was sent

diskVars  == <<file, mtime, writes, sub, made>>
kernVars  == <<wds, active, queue>>
watchVars == <<wdToDirs, watchedDirs, buf>>
repoVars  == <<entry, deleteQueue, procQueue, sent>>
exVars    == <<watcher, deleter, threadEx, main>>
vars == <<now, diskVars, kernVars, watchVars, scan, repoVars, sender, exVars>>

Scanner == {"ctor", "watcher"}
FileState == {"none", "open", "whole", "link", "moved"}
Size == {"none", "empty", "part", "all"}
Step == {"open", "watched", "read"}

-----------------------------------------------------------------------------
(* The kernel *)

RootInode == 0
InodeOf(d) == IF d = Root THEN RootInode ELSE made
DirOf(f)   == IF f \in Nested THEN Sub ELSE Root
Exists(d)  == d = Root \/ sub

Event(wd, kind, name) == [wd |-> wd, kind |-> kind, name |-> name]

WatchOf(d) == {wd \in active : wds[wd] = InodeOf(d)}

\* The queue after an event of a directory, which is kept if that is watched and
\* somebody will read it
Post(q, d, kind, name) ==
    IF watcher = "up"
    THEN q \o SetToSeq({Event(wd, kind, name) : wd \in WatchOf(d)})
    ELSE <<>>

-----------------------------------------------------------------------------
(* Who puts files into the repository.  Bound: a file is closed before it   *)
(* is too old.                                                              *)

Appears(f, state, kind) ==
    /\ file[f] = "none" /\ writes[f] < MaxWrites /\ Exists(DirOf(f))
    /\ file' = [file EXCEPT ![f] = state]
    /\ mtime' = [mtime EXCEPT ![f] = now]
    /\ writes' = [writes EXCEPT ![f] = @ + 1]
    /\ queue' = Post(queue, DirOf(f), kind, f)
    /\ UNCHANGED <<now, sub, made, wds, active, watchVars, scan, repoVars,
                   sender, exVars>>

Create(f) == Appears(f, "open", "create")
MoveIn(f) == Appears(f, "moved", "moved")

\* PubRepo::Impl::link(), or another program: a symbolic link, whose own time counts
Link(f) == Appears(f, "link", "create")

CloseFile(f) ==
    /\ file[f] = "open"
    /\ file' = [file EXCEPT ![f] = "whole"]
    /\ queue' = Post(queue, DirOf(f), "close", f)
    /\ UNCHANGED <<now, mtime, writes, sub, made, wds, active, watchVars, scan,
                   repoVars, sender, exVars>>

MakeDir ==
    /\ ~sub /\ made < MaxDirs
    /\ sub' = TRUE
    /\ made' = made + 1
    /\ queue' = Post(queue, Root, "create", Sub)
    /\ UNCHANGED <<now, file, mtime, writes, wds, active, watchVars, scan,
                   repoVars, sender, exVars>>

Tick ==
    /\ now < MaxTime
    /\ \A f \in File : file[f] # "open"
    /\ now' = now + 1
    /\ UNCHANGED <<diskVars, kernVars, watchVars, scan, repoVars, sender,
                   exVars>>

-----------------------------------------------------------------------------
(* Adding and removing files *)

\* FileUtil::removeFileAndPrune(): the file is removed, and then its directory;
\* pruneEmptyDirPath() throws if there are other files in it because it looks for
\* the reason in rmdir()'s return value
PruneFails(f) == \E g \in Nested \ {f} : f \in Nested /\ file[g] # "none"
Prunes(f)     == f \in Nested /\ ~PruneFails(f)

RemoveAndPrune(f) ==
    LET deleted == Post(queue, DirOf(f), "delete", f)
        removed == Post(Post(deleted, Root, "delete", Sub), Sub, "ignored", NoName)
    IN  /\ file' = [file EXCEPT ![f] = "none"]
        /\ sub' = (sub /\ ~Prunes(f))
        /\ queue' = IF Prunes(f) THEN removed ELSE deleted
        /\ active' = IF Prunes(f) THEN active \ WatchOf(Sub) ELSE active
        /\ mtime' = [mtime EXCEPT ![f] = 0]
        /\ UNCHANGED <<writes, made, wds>>

\* Its size depends on what was written
Sizes(f) == IF file[f] = "open" THEN {"empty", "part"} ELSE {"all"}

TooOld(f) == mtime[f] + KeepTime < now

\* Mutant of IsNew
IsNewOrSent(f) == entry[f] = "none" \/ sent[f] > 0

\* prodEntries.emplace().second
IsNew(f) == entry[f] = "none"

\* Newer than lastTransmittedTime, which LastProd's constructor sets to the time
\* just before the start; std::map::emplace() does nothing if the queue has the time
Queues(f) == mtime[f] >= Start /\ \A e \in procQueue : e[1] # mtime[f]

\* Repository::Impl::tryAddFile() of a file that exists and isn't too old
Add(f) ==
    IF IsNew(f)
    THEN /\ \E size \in Sizes(f) : entry' = [entry EXCEPT ![f] = size]
         /\ deleteQueue' = deleteQueue \cup {<<mtime[f] + KeepTime, f>>}
         /\ procQueue' = IF Queues(f) THEN procQueue \cup {<<mtime[f], f>>}
                                      ELSE procQueue
         /\ sent' = sent
    ELSE UNCHANGED repoVars

-----------------------------------------------------------------------------
(* What a thread throws *)

WatcherThrows ==
    /\ watcher' = "failed"
    /\ threadEx' = TRUE
    /\ scan' = [scan EXCEPT !["watcher"] = <<>>]
    /\ UNCHANGED <<deleter, main>>

\* The constructor catches the exception and stops the watcher
CtorThrows ==
    /\ main' = "stop"
    /\ scan' = [scan EXCEPT !["ctor"] = <<>>]
    /\ UNCHANGED <<watcher, deleter, threadEx>>

Throws(t) == IF t = "ctor" THEN CtorThrows ELSE WatcherThrows

\* Repository::Impl::tryAddFile()
TryAddFile(t, f, rest) ==
    IF ~TooOld(f)
    THEN /\ Add(f)
         /\ scan' = [scan EXCEPT ![t] = rest]
         /\ UNCHANGED <<diskVars, kernVars, exVars>>
    ELSE /\ RemoveAndPrune(f)
         /\ IF PruneFails(f)
            THEN Throws(t)
            ELSE scan' = [scan EXCEPT ![t] = rest] /\ UNCHANGED exVars
         /\ UNCHANGED repoVars

-----------------------------------------------------------------------------
(* scanRepo(), by the constructor and by the watcher's thread *)

Frame(d, step, wd, left) == [dir |-> d, step |-> step, wd |-> wd, left |-> left]
Opening(d) == Frame(d, "open", 0, {})

At(t, step)  == scan[t] # <<>> /\ Head(scan[t]).step = step
Become(t, f) == scan' = [scan EXCEPT ![t] = <<f>> \o Tail(@)]

MutexIsFree(t) == \A u \in Scanner \ {t} : ~At(u, "watched")

\* opendir() and Watcher::Impl::tryAdd(), until the kernel watches the directory;
\* a wd of 0 means that it did already, as far as the watcher knows
OpenDir(t) ==
    LET d   == Head(scan[t]).dir
        new == Len(wds) + 1
        Watched(wd) == Become(t, Frame(d, "watched", wd, {}))
    IN  /\ At(t, "open") /\ MutexIsFree(t)
        /\ \/ ~Exists(d) /\ Throws(t) /\ UNCHANGED kernVars
           \/ /\ Exists(d) /\ d \in watchedDirs
              /\ Watched(0) /\ UNCHANGED <<kernVars, exVars>>
           \/ /\ Exists(d) /\ d \notin watchedDirs
              /\ IF WatchOf(d) # {}
                 THEN (\E wd \in WatchOf(d) : Watched(wd)) /\ UNCHANGED kernVars
                 ELSE /\ Watched(new)
                      /\ wds' = Append(wds, InodeOf(d))
                      /\ active' = active \cup {new}
                      /\ queue' = queue
              /\ UNCHANGED exVars
        /\ UNCHANGED <<now, diskVars, watchVars, repoVars, sender>>

\* What readdir() will return: the entries at its first call
Entries(d) ==
    {f \in File : DirOf(f) = d /\ file[f] # "none"}
      \cup {c \in {Sub} : d = Root /\ sub}

\* The rest of tryAdd(): the watch descriptor becomes known
ListDir(t) ==
    LET top == Head(scan[t])
        new == {wd \in {top.wd} : wd # 0}
    IN  /\ At(t, "watched")
        /\ wdToDirs' = [wd \in DOMAIN wdToDirs \cup new |->
                          IF wd \in new THEN top.dir ELSE wdToDirs[wd]]
        /\ watchedDirs' = watchedDirs \cup {top.dir}
        /\ Become(t, Frame(top.dir, "read", 0, Entries(top.dir)))
        /\ UNCHANGED <<now, diskVars, kernVars, buf, repoVars, sender, exVars>>

ReadEntry(t, c) ==
    LET top  == Head(scan[t])
        rest == <<[top EXCEPT !.left = @ \ {c}]>> \o Tail(scan[t])
    IN  /\ At(t, "read") /\ c \in top.left
        /\ \/ /\ c = Sub /\ sub
              /\ scan' = [scan EXCEPT ![t] = <<Opening(Sub)>> \o rest]
              /\ UNCHANGED <<diskVars, kernVars, repoVars, exVars>>
           \/ c # Sub /\ file[c] # "none" /\ TryAddFile(t, c, rest)
           \/ /\ IF c = Sub THEN ~sub ELSE file[c] = "none"
              /\ Throws(t) /\ UNCHANGED <<diskVars, kernVars, repoVars>>
        /\ UNCHANGED <<now, watchVars, sender>>

EndDir(t) ==
    /\ At(t, "read") /\ Head(scan[t]).left = {}
    /\ scan' = [scan EXCEPT ![t] = Tail(@)]
    /\ UNCHANGED <<now, diskVars, kernVars, watchVars, repoVars, sender, exVars>>

Scan(t) ==
    \/ OpenDir(t)
    \/ ListDir(t)
    \/ \E c \in File \cup {Sub} : ReadEntry(t, c)
    \/ EndDir(t)

-----------------------------------------------------------------------------
(* The constructor and the watcher's thread *)

Scanned ==
    /\ main = "scan" /\ scan["ctor"] = <<>>
    /\ main' = "done"
    /\ UNCHANGED <<now, diskVars, kernVars, watchVars, scan, repoVars, sender,
                   watcher, deleter, threadEx>>

StopWatcher ==
    /\ main = "stop"
    /\ main' = "done"
    /\ watcher' = IF watcher = "up" THEN "cancelled" ELSE watcher
    /\ scan' = [scan EXCEPT !["watcher"] = <<>>]
    /\ queue' = <<>> /\ buf' = <<>>
    /\ UNCHANGED <<now, diskVars, wds, active, wdToDirs, watchedDirs, repoVars,
                   sender, deleter, threadEx>>

Idle == watcher = "up" /\ scan["watcher"] = <<>>

ReadEvents ==
    /\ Idle /\ buf = <<>> /\ queue # <<>>
    /\ buf' = queue
    /\ queue' = <<>>
    /\ UNCHANGED <<now, diskVars, wds, active, wdToDirs, watchedDirs, scan,
                   repoVars, sender, exVars>>


\* The mask of a link and of a regular file
Wanted(e) == e.kind = IF file[e.name] = "link" THEN "create" ELSE "close"

\* Events of which processEvent() throws: their watch descriptor is unknown (at())
\* or their file is gone (lstat()).  Without a name lstat() is given the directory
\* and what follows in the buffer.
MayThrow(e) ==
    \/ e.wd \notin DOMAIN wdToDirs
    \/ e.name \in File /\ file[e.name] = "none"
    \/ e.name = NoName
Throwing(e) == MayThrow(e) /\ ~(e.wd \in DOMAIN wdToDirs /\ e.name = NoName)

ProcessThrows(e) ==
    /\ MayThrow(e)
    /\ WatcherThrows
    /\ queue' = <<>>
    /\ UNCHANGED <<diskVars, wds, active, wdToDirs, watchedDirs, repoVars>>

DirAdded(e) ==
    /\ e.name = Sub /\ e.kind = "create"
    /\ scan' = [scan EXCEPT !["watcher"] = <<Opening(Sub)>>]
    /\ UNCHANGED <<diskVars, kernVars, wdToDirs, watchedDirs, repoVars, exVars>>

\* The descriptor is that of the parent
DirDeleted(e) ==
    /\ e.name = Sub /\ e.kind = "delete"
    /\ wdToDirs' = [wd \in DOMAIN wdToDirs \ {e.wd} |-> wdToDirs[wd]]
    /\ watchedDirs' = watchedDirs \ {Sub}
    /\ active' = active \ {e.wd}
    /\ queue' = queue \o SetToSeq({Event(wd, "ignored", NoName) :
                                     wd \in active \cap {e.wd}})
    /\ UNCHANGED <<diskVars, wds, scan, repoVars, exVars>>

FileAdded(e) ==
    /\ e.name \in File /\ Wanted(e)
    /\ TryAddFile("watcher", e.name, <<>>)
    /\ UNCHANGED <<wdToDirs, watchedDirs>>

Unrecognized(e) ==
    /\ \/ e.name \in File /\ ~Wanted(e)
       \/ e.name = NoName /\ Exists(wdToDirs[e.wd])
    /\ UNCHANGED <<diskVars, kernVars, wdToDirs, watchedDirs, scan, repoVars,
                   exVars>>

ProcessEvent ==
    /\ Idle /\ buf # <<>>
    /\ LET e == Head(buf)
       IN  \/ ProcessThrows(e)
           \/ /\ ~Throwing(e)
              /\ DirAdded(e) \/ DirDeleted(e) \/ FileAdded(e) \/ Unrecognized(e)
    /\ buf' = IF watcher' = "up" THEN Tail(buf) ELSE <<>>
    /\ UNCHANGED <<now, sender>>

-----------------------------------------------------------------------------
(* The deleter *)

\* Mutant of Popped
NotPopped(d) == deleteQueue

Popped(d) == deleteQueue \ {d}

\* Repository::Impl::deleteProds(): every entry of the queue has a product.  If
\* the file can't be removed or its directory pruned, then the entry stays.
DeleteProd ==
    \E d \in deleteQueue :
      LET f == d[2]
      IN  /\ deleter = "up" /\ d[1] <= now /\ \A e \in deleteQueue : d[1] <= e[1]
          /\ IF file[f] = "none"
             THEN UNCHANGED <<diskVars, kernVars>>
             ELSE RemoveAndPrune(f)
          /\ IF file[f] = "none" \/ PruneFails(f)
             THEN /\ deleter' = "failed" /\ threadEx' = TRUE
                  /\ UNCHANGED repoVars
             ELSE /\ entry' = [entry EXCEPT ![f] = "none"]
                  /\ deleteQueue' = Popped(d)
                  /\ UNCHANGED <<procQueue, sent, deleter, threadEx>>
          /\ UNCHANGED <<now, watchVars, scan, sender, watcher, main>>

-----------------------------------------------------------------------------
(* The sender and the peers *)

Running == main = "done"

\* Repository::Impl::getNextProd() and runSender(): the file must be there and not
\* have been empty when it was added, or it can't be mapped
GetNextProd ==
    \E e \in procQueue :
      LET f == e[2]
      IN  /\ Running /\ ~threadEx /\ \A d \in procQueue : e[1] <= d[1]
          /\ IF entry[f] = "empty" \/ (entry[f] # "none" /\ file[f] = "none")
             THEN sender' = "failed" /\ UNCHANGED repoVars
             ELSE /\ procQueue' = procQueue \ {e}
                  /\ sent' = [sent EXCEPT ![f] = @ + IF entry[f] # "none" THEN 1 ELSE 0]
                  /\ UNCHANGED <<entry, deleteQueue, sender>>
          /\ UNCHANGED <<now, diskVars, kernVars, watchVars, scan, exVars>>

SenderThrows ==
    /\ Running /\ threadEx
    /\ sender' = "failed"
    /\ threadEx' = FALSE
    /\ UNCHANGED <<now, diskVars, kernVars, watchVars, scan, repoVars, watcher,
                   deleter, main>>

\* After halt() getNextProd() returns nothing
Halt ==
    /\ main = "done"
    /\ sender' = "ended"
    /\ UNCHANGED <<now, diskVars, kernVars, watchVars, scan, repoVars, exVars>>

\* getProdInfo(), getDataSeg() and link() throw and clear the exception, too
PeerAsks ==
    /\ main = "done" /\ threadEx
    /\ threadEx' = FALSE
    /\ UNCHANGED <<now, diskVars, kernVars, watchVars, scan, repoVars, watcher,
                   deleter, main, sender>>

-----------------------------------------------------------------------------
\* With what a previous use left in the repository
Init ==
    /\ now = Start
    /\ sub \in BOOLEAN
    /\ \E found \in [File -> {<<"none", 0>>, <<"whole", 0>>, <<"whole", Start - 1>>}] :
         /\ \A f \in Nested : found[f][1] # "none" => sub
         /\ file = [f \in File |-> found[f][1]]
         /\ mtime = [f \in File |-> found[f][2]]
    /\ writes = [f \in File |-> 0]
    /\ made = IF sub THEN 1 ELSE 0
    /\ wds = <<>> /\ active = {} /\ queue = <<>>
    /\ wdToDirs = <<>> /\ watchedDirs = {} /\ buf = <<>>
    /\ scan = [t \in Scanner |-> IF t = "ctor" THEN <<Opening(Root)>> ELSE <<>>]
    /\ main = "scan" /\ watcher = "up"
    /\ entry = [f \in File |-> "none"]
    /\ deleteQueue = {} /\ procQueue = {} /\ sent = [f \in File |-> 0]
    /\ deleter = "up" /\ threadEx = FALSE
    /\ sender = "up"

Outside ==
    \/ \E f \in File : Create(f) \/ MoveIn(f) \/ Link(f) \/ CloseFile(f)
    \/ MakeDir
    \/ Tick
    \/ PeerAsks
    \/ Halt

Constructor == Scan("ctor") \/ Scanned \/ StopWatcher
WatcherThread == Scan("watcher") \/ ReadEvents \/ ProcessEvent
Sender == GetNextProd \/ SenderThrows

\* When the sender ends, the publisher does
Next ==
    /\ sender = "up"
    /\ Outside \/ Constructor \/ WatcherThread \/ DeleteProd \/ Sender

\* A thread that can run, runs
Fairness ==
    WF_vars(Constructor) /\ WF_vars(WatcherThread) /\ WF_vars(Sender)

Spec == Init /\ [][Next]_vars /\ Fairness

-----------------------------------------------------------------------------
(* Properties *)

\* Types, and what deleteProds() relies on: a product is in the queue of those to be
\* deleted as long as it has an entry, and once
TypeOK ==
    /\ now \in Start .. MaxTime
    /\ file \in [File -> FileState] /\ mtime \in [File -> 0 .. MaxTime]
    /\ writes \in [File -> 0 .. MaxWrites]
    /\ sub \in BOOLEAN /\ made \in 0 .. MaxDirs
    /\ wds \in Seq(0 .. MaxDirs) /\ active \subseteq DOMAIN wds
    /\ \A q \in {queue, buf} : \A i \in DOMAIN q :
         q[i].wd \in DOMAIN wds /\ q[i].name \in File \cup {Sub, NoName}
    /\ DOMAIN wdToDirs \subseteq DOMAIN wds /\ watchedDirs \subseteq {Root, Sub}
    /\ \A t \in Scanner : \A i \in DOMAIN scan[t] :
         scan[t][i].step \in Step /\ scan[t][i].dir \in {Root, Sub}
    /\ main \in {"scan", "stop", "done"}
    /\ watcher \in {"up", "failed", "cancelled"} /\ deleter \in {"up", "failed"}
    /\ entry \in [File -> Size] /\ sent \in [File -> Nat]
    /\ deleteQueue \subseteq (0 .. MaxTime + KeepTime) \X File
    /\ \A f \in File :
         Cardinality({d \in deleteQueue : d[2] = f}) = IF entry[f] = "none" THEN 0 ELSE 1
    /\ procQueue \subseteq (0 .. MaxTime) \X File
    /\ threadEx \in BOOLEAN
    /\ sender \in {"up", "failed", "ended"}

\* A product isn't sent more often than it was put into the repository, though the
\* constructor's thread and the watcher's may both find it
SentOnce == \A f \in File : sent[f] <= writes[f]


=============================================================================
