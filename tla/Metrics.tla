------------------------------ MODULE Metrics -------------------------------
(***************************************************************************)
(* What a subscriber counts (Node.cpp: SubNodeImpl, Repository.cpp: SubRepo)*)
(* and reports at the end of a session (subscribe.cpp: printMetrics()).    *)
(* Threads that receive data by multicast or from peers save it under the  *)
(* repository's mutex, which counts what becomes complete, and count what  *)
(* they have received after that.                                          *)
(***************************************************************************)
EXTENDS Integers, FiniteSets, Functions, FiniteSetsExt

CONSTANTS
  ProdSizes, \* Sizes of products, by product: each has its information and one segment
  Threads,   \* Those that receive data: a record of each one's name and way, "mcast" or "p2p"
  Latencies, \* By how much the clock is later than a product's time of creation
  Wrap,      \* 2^64: what totalLatency wraps at
  MaxRecv    \* Bound: number of receptions

VARIABLES
  stored, \* What has been saved
  counts, \* numMcastOrig, numP2pOrig, numMcastDup, numP2pDup
  pdu,    \* What each thread has received and saved, but not counted: "none", "orig" or "dup"
  totals,  \* totalProds, totalBytes, totalLatency
  recvd,  \* History: number of receptions
  late,   \* History: latencies of complete products
  joined, \* Has run() returned?
  report  \* What is printed, as [counts, total]; {} if nothing has been

vars == <<stored, counts, pdu, totals, recvd, late, joined, report>>

Prods == DOMAIN ProdSizes
Pdus == Prods \X {"info", "seg"}
Counters == {"mcast", "p2p"} \X {"orig", "dup"}
Complete(set) == {p \in Prods : {p} \X {"info", "seg"} \subseteq set}

Init ==
  /\ stored = {} /\ counts = [c \in Counters |-> 0] /\ pdu = [t \in Threads |-> "none"]
  /\ totals = [prods |-> 0, bytes |-> 0, latency |-> 0] /\ recvd = 0 /\ late = 0
  /\ joined = FALSE /\ report = {}

\* SubRepo::Impl::tryFinish(): a signed duration is added to an unsigned number.
Finished(latency, p) ==
  /\ totals' = [prods |-> totals.prods + 1, bytes |-> totals.bytes + ProdSizes[p],
               latency |-> (totals.latency + latency) % Wrap]
  /\ late' = late + latency

\* SubRepo::Impl::save()
Save(t, x) ==
  /\ ~ joined /\ pdu[t] = "none" /\ recvd < MaxRecv
  /\ pdu' = [pdu EXCEPT ![t] = IF x \in stored THEN "dup" ELSE "orig"]
  /\ stored' = stored \cup {x} /\ recvd' = recvd + 1
  /\ IF x[1] \in Complete(stored') \ Complete(stored)
     THEN \E latency \in Latencies : Finished(latency, x[1])
     ELSE UNCHANGED <<totals, late>>
  /\ UNCHANGED <<counts, joined, report>>

\* recvMcastData(), recvP2pData()
Counter(t) == <<t.way, pdu[t]>>
Count(t) ==
  /\ pdu[t] # "none"
  /\ counts' = [counts EXCEPT ![Counter(t)] = @ + 1] /\ pdu' = [pdu EXCEPT ![t] = "none"]
  /\ UNCHANGED <<stored, totals, recvd, late, joined, report>>

\* Mutant of ThreadsEnded
NotWaited == TRUE
\* stopThreads(): all have been joined
ThreadsEnded == \A t \in Threads : pdu[t] = "none"
Join == ~ joined /\ ThreadsEnded /\ joined' = TRUE /\ UNCHANGED <<stored, counts, pdu, totals, recvd, late, report>>

\* getPduCounts(), getTotalProds(), getTotalBytes(), getTotalLatency(): the numbers are read one after
\* the other; without a product there is nothing but their number to report.
GetPduCounts == counts
GetTotal == IF totals.prods = 0 THEN [prods |-> 0] ELSE totals
PrintMetrics ==
  /\ joined /\ report = {}
  /\ report' = {[counts |-> GetPduCounts, total |-> GetTotal]}
  /\ UNCHANGED <<stored, counts, pdu, totals, recvd, late, joined>>

Next == (\E t \in Threads : Count(t) \/ \E x \in Pdus : Save(t, x)) \/ Join \/ PrintMetrics
Spec == Init /\ [][Next]_vars

-----------------------------------------------------------------------------

TypeOK ==
  /\ stored \subseteq Pdus /\ counts \in [Counters -> 0..MaxRecv]
  /\ pdu \in [Threads -> {"none", "orig", "dup"}] /\ totals.latency \in 0..Wrap - 1

Counted(r, ways, kinds) == MapThenSumSet(LAMBDA c : r.counts[c], ways \X kinds)

\* The report tells what the session was, whichever threads raced to save the same data: an
\* original for each thing saved, a duplicate for every other reception, the products that
\* are complete with their bytes, and their latency unless the sum is negative
\* (printMetrics(), SubNodeImpl: recvMcastData(), recvP2pData(), SubRepo: tryFinish()).
ReportIsTrue == \A r \in report :
  /\ Counted(r, {"mcast", "p2p"}, {"orig"}) = Cardinality(stored)
  /\ Counted(r, {"mcast", "p2p"}, {"orig", "dup"}) = recvd
  /\ r.total.prods = Cardinality(Complete(stored))
  /\ r.total.prods > 0 => r.total.bytes = MapThenSumSet(LAMBDA p : ProdSizes[p], Complete(stored))
  /\ r.total.prods > 0 /\ late >= 0 => r.total.latency = late
=============================================================================
