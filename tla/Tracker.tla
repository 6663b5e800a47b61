------------------------------ MODULE Tracker ------------------------------
(***************************************************************************)
(* How a tracker orders the P2P servers that it knows of: p2p/Tracker.cpp. *)
(* Its queue is a std::set of addresses whose comparison looks up what is  *)
(* known of the two servers, so that whatever changes that has to take the *)
(* server out of the queue first. PeerPool has what the pool does with the *)
(* tracker and leaves the order out.                                       *)
(***************************************************************************)
EXTENDS Integers, Sequences, FiniteSets, SequencesExt

CONSTANTS
  Hosts,      \* Addresses of P2P servers: numbers, which order them
  Reports,    \* What is learned of a server: [tier, avail, valid], -1 if unknown
  Trackers,   \* What is read as a remote tracker: sequences of [addr, info]
  Capacity,
  Delay,      \* Before a server is available again
  MaxTime, MaxAvail, MaxDelayed  \* bounds: clock, available connections, delayed servers

TrackerAssumption ==
  /\ Capacity \in Nat /\ Delay \in Nat
  /\ \A r \in Reports : r.tier >= -1 /\ r.avail >= -1 /\ r.valid \in 0..MaxTime

VARIABLES
  srvrInfos,  \* What is known, by address
  srvrQueue,  \* Elements of the set in its order
  delayQueue, \* [addr, time], earliest first
  now,        \* SysClock::now()
  aborted     \* Did an assertion fail?

trackerVars == <<srvrInfos, srvrQueue, delayQueue, now, aborted>>

Init ==
  /\ srvrInfos = <<>> /\ srvrQueue = <<>> /\ delayQueue = <<>>
  /\ now = 0 /\ aborted = FALSE

-----------------------------------------------------------------------------
(* The set and its comparison *)

ValidMetrics(info) == info.tier >= 0 /\ info.avail >= 0

\* QueueComp: the best is least
Before(infos, addr1, addr2) ==
  LET i1 == infos[addr1]   i2 == infos[addr2]
  IN IF ValidMetrics(i1) # ValidMetrics(i2) THEN ValidMetrics(i1)
     ELSE IF i1.tier # i2.tier THEN i1.tier < i2.tier
     ELSE IF i1.avail # i2.avail THEN i1.avail > i2.avail
     ELSE IF i1.valid # i2.valid THEN i1.valid > i2.valid
     ELSE addr1 < addr2

\* Where a search under infos ends: behind all elements before addr
LowerBound(infos, queue, addr) ==
  CHOOSE k \in 1..Len(queue) + 1 :
    /\ k = Len(queue) + 1 \/ ~ Before(infos, queue[k], addr)
    /\ \A j \in 1..k - 1 : Before(infos, queue[j], addr)
Found(infos, queue, addr) ==
  LET k == LowerBound(infos, queue, addr)
  IN k <= Len(queue) /\ ~ Before(infos, addr, queue[k])
\* Mutant of Erased: nothing is
NotErased(infos, queue, addr) == queue
Erased(infos, queue, addr) ==
  IF Found(infos, queue, addr) THEN RemoveAt(queue, LowerBound(infos, queue, addr)) ELSE queue
Inserted(infos, queue, addr) ==
  IF Found(infos, queue, addr) THEN queue ELSE InsertAt(queue, LowerBound(infos, queue, addr), addr)

-----------------------------------------------------------------------------
(* What the operations do to [infos, queue] *)

With(infos, addr, info) == [a \in DOMAIN infos \cup {addr} |-> IF a = addr THEN info ELSE infos[a]]
Known == [infos |-> srvrInfos, queue |-> srvrQueue]

\* remove()
Removed(t, addr) ==
  [infos |-> [a \in DOMAIN t.infos \ {addr} |-> t.infos[a]], queue |-> Erased(t.infos, t.queue, addr)]

\* Mutant of Updated: it is enough to insert
UpdatedInPlace(t, addr, info) ==
  LET infos == With(t.infos, addr, info) IN [infos |-> infos, queue |-> Inserted(infos, t.queue, addr)]
\* update()
Updated(t, addr, info) ==
  LET infos == With(t.infos, addr, info)
      rest == IF addr \in DOMAIN t.infos THEN Erased(t.infos, t.queue, addr) ELSE t.queue
  IN [infos |-> infos, queue |-> Inserted(infos, rest, addr)]
AtCapacity(t) == Cardinality(DOMAIN t.infos) >= Capacity
\* tryAdd(): a full tracker drops the worst server; that none is queued is asserted not to happen.
Asserts(t, addr) == addr \notin DOMAIN t.infos /\ AtCapacity(t) /\ t.queue = <<>>
Added(t, addr, info) ==
  IF addr \notin DOMAIN t.infos
  THEN Updated(IF AtCapacity(t) THEN Removed(t, Last(t.queue)) ELSE t, addr, info)
  ELSE IF info.valid <= t.infos[addr].valid THEN t
  ELSE IF Found(t.infos, t.queue, addr) THEN Updated(t, addr, info)
  ELSE [t EXCEPT !.infos[addr] = info]

\* tryAdd() of each entry; nothing is added after an assertion failed.
AddedAll(t, entries) ==
  LET Try(acc, e) == IF acc.aborts \/ Asserts(acc.t, e.addr) THEN [acc EXCEPT !.aborts = TRUE]
                     ELSE [acc EXCEPT !.t = Added(acc.t, e.addr, e.info)]
  IN FoldLeft(Try, [t |-> t, aborts |-> FALSE], entries)

Becomes(t) == srvrInfos' = t.infos /\ srvrQueue' = t.queue
Abort == aborted' = TRUE /\ UNCHANGED <<srvrInfos, srvrQueue, delayQueue, now>>

-----------------------------------------------------------------------------
(* Operations. Each holds the mutex; getNextAddr() and the thread wait for *)
(* their condition.                                                        *)

Running == ~ aborted

\* insert(P2pSrvrInfo)
Insert(addr, info) ==
  /\ Running
  /\ \/ Asserts(Known, addr) /\ Abort
     \/ /\ ~ Asserts(Known, addr) /\ Becomes(Added(Known, addr, info))
        /\ UNCHANGED <<delayQueue, now, aborted>>

\* insert(Impl)
Merge(entries) ==
  /\ Running
  /\ LET after == AddedAll(Known, entries)
     IN \/ after.aborts /\ Abort
        \/ ~ after.aborts /\ Becomes(after.t) /\ UNCHANGED <<delayQueue, now, aborted>>

\* read(): what was there is dropped before anything is read. A lost connection
\* leaves the entries read by then.
Read(entries) ==
  /\ Running
  /\ \E n \in 0..Len(entries) :
       Becomes(AddedAll([infos |-> <<>>, queue |-> <<>>], SubSeq(entries, 1, n)).t)
  /\ delayQueue' = <<>>
  /\ UNCHANGED <<now, aborted>>

\* getNextAddr()
GetNextAddr ==
  /\ ~ aborted /\ srvrQueue # <<>>
  /\ srvrQueue' = Tail(srvrQueue)
  /\ UNCHANGED <<srvrInfos, delayQueue, now, aborted>>

\* erase(): the comparison asserts that the server is known.
Erase(addr) ==
  /\ Running
  /\ \/ addr \notin DOMAIN srvrInfos /\ srvrQueue # <<>> /\ Abort
     \/ /\ addr \in DOMAIN srvrInfos
        /\ Becomes(Removed(Known, addr)) /\ UNCHANGED <<delayQueue, now, aborted>>

\* disconnected()
Later(entry) == SelectSeq(delayQueue, LAMBDA e : e.time > entry.time)
NotLater(entry) == SelectSeq(delayQueue, LAMBDA e : e.time <= entry.time)
Delayed(addr) == LET entry == [addr |-> addr, time |-> now + Delay]
                 IN NotLater(entry) \o <<entry>> \o Later(entry)
MoreAvail(info) == IF ValidMetrics(info) THEN info.avail + 1 ELSE 1
Disconnected(addr, wasClient) ==
  /\ Running /\ addr \in DOMAIN srvrInfos
  /\ Len(delayQueue) < MaxDelayed /\ (wasClient => srvrInfos[addr].avail < MaxAvail)
  /\ srvrQueue' = Erased(srvrInfos, srvrQueue, addr)
  /\ srvrInfos' = [srvrInfos EXCEPT ![addr].avail = IF wasClient THEN MoreAvail(srvrInfos[addr]) ELSE @,
                                    ![addr].valid = now]
  /\ delayQueue' = Delayed(addr)
  /\ UNCHANGED <<now, aborted>>

\* runDelayQueue(): one turn of its loop
Reveal ==
  /\ ~ aborted /\ delayQueue # <<>> /\ Head(delayQueue).time <= now
  /\ LET addr == Head(delayQueue).addr
     IN srvrQueue' = IF addr \in DOMAIN srvrInfos
                     THEN Inserted(srvrInfos, Erased(srvrInfos, srvrQueue, addr), addr) ELSE srvrQueue
  /\ delayQueue' = Tail(delayQueue)
  /\ UNCHANGED <<srvrInfos, now, aborted>>

Tick == now < MaxTime /\ now' = now + 1 /\ UNCHANGED <<srvrInfos, srvrQueue, delayQueue, aborted>>

Next ==
  \/ \E addr \in Hosts : \/ \E info \in Reports : Insert(addr, info)
                         \/ Erase(addr)
                         \/ \E wasClient \in BOOLEAN : Disconnected(addr, wasClient)
  \/ \E entries \in Trackers : Merge(entries) \/ Read(entries)
  \/ GetNextAddr \/ Reveal \/ Tick
Spec == Init /\ [][Next]_trackerVars

-----------------------------------------------------------------------------

TypeOK ==
  /\ DOMAIN srvrInfos \subseteq Hosts /\ Cardinality(DOMAIN srvrInfos) <= Capacity
  /\ ToSet(srvrQueue) \subseteq DOMAIN srvrInfos
  /\ Len(delayQueue) <= MaxDelayed /\ now \in 0..MaxTime /\ aborted \in BOOLEAN

\* Whatever is learned of queued and of taken servers, in any order, the queue stays in
\* the order of what is known now: each server once, found by a search, the best first and
\* the one to be dropped last (QueueComp, tryAdd(), disconnected(), runDelayQueue()).
QueueIsOrdered == \A i, j \in DOMAIN srvrQueue : i < j => Before(srvrInfos, srvrQueue[i], srvrQueue[j])
=============================================================================
