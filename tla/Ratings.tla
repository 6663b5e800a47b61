------------------------------ MODULE Ratings -------------------------------
(***************************************************************************)
(* How peers are rated and the worst one is replaced: PubBookkeeper, the   *)
(* ratings of SubBookkeeper (p2p/Bookkeeper.cpp) and haltWorstPeer() of    *)
(* BaseP2pMgrImpl (p2p/P2pMgr.cpp), which halts a peer when the set of     *)
(* peers was full and didn't change for some time.                         *)
(*                                                                         *)
(* A publisher counts the requests of each peer: the one that asks most is *)
(* worst. A subscriber counts the data that each peer delivered: the one   *)
(* that delivered least is worst. Peers are named by their remote socket   *)
(* addresses.                                                              *)
(***************************************************************************)
EXTENDS Naturals, FiniteSets, FiniteSetsExt

CONSTANTS
  Clients,    \* Peers that the local node connected to others, of a subscriber
  Servers,    \* Peers that the local node accepted
  Data,       \* Identifiers of data
  MaxClients, MaxServers, \* Numbers of peers that a node may have, the latter by its role
  MaxRating   \* Bound: data or requests counted for a peer in one period

VARIABLES
  role,     \* "publisher" or "subscriber"
  state,    \* BaseP2pMgrImpl::state, and "halting" after the threads were joined
  active,   \* Keys of BaseP2pMgrImpl::peerMap
  halted,   \* Active peers that were told to stop
  rating,   \* PubBookkeeper::numRequests or SubBookkeeper's ratings: by entry
  noticed,  \* Peers and the data they announced, SubBookkeeper::noticeToPeers
  changed,  \* BaseP2pMgrImpl::peersChanged
  tenured,  \* History: peers that were active when the period began
  done      \* History: data received or requests got in the period, by peer

peers == <<active, halted, noticed>>
ratings == <<role, state, peers, rating, changed, tenured, done>>

Peers == IF role = "publisher" THEN Servers ELSE Clients \cup Servers
Zero(entries) == [p \in entries |-> 0]

Init ==
  /\ role \in {"publisher", "subscriber"} /\ state = "started" /\ active = {} /\ halted = {} /\ rating = Zero({})
  /\ noticed = {} /\ changed = FALSE /\ tenured = {} /\ done = Zero(Clients \cup Servers)

-----------------------------------------------------------------------------
(* Coming and going *)

HasRoom(peer) == IF peer \in Clients THEN Cardinality(active \cap Clients) < MaxClients
                                     ELSE Cardinality(active \cap Servers) < MaxServers[role]

\* Bookkeeper's add(), of which insert() keeps an entry that exists, and erase()
Entered(peer) == [p \in DOMAIN rating \cup {peer} |-> IF p \in DOMAIN rating THEN rating[p] ELSE 0]
Struck(peer) == [p \in DOMAIN rating \ {peer} |-> rating[p]]

\* addPeer(): none is added once the manager is stopping.
Add(peer) ==
  /\ peer \in Peers \ active /\ HasRoom(peer) /\ state = "started"
  /\ active' = active \cup {peer}
  /\ rating' = Entered(peer)
  /\ changed' = TRUE
  /\ UNCHANGED <<role, state, halted, noticed, tenured, done>>

\* removePeer(): the peer was halted or its connection was lost.
Remove(peer) ==
  /\ peer \in active
  /\ active' = active \ {peer} /\ halted' = halted \ {peer}
  /\ rating' = Struck(peer)
  /\ noticed' = {n \in noticed : n[1] # peer}
  /\ changed' = TRUE
  /\ UNCHANGED <<role, state, tenured, done>>

-----------------------------------------------------------------------------
(* Performance *)

\* ++numRequests[rmtAddr], ++rating: the former makes an entry if there is none.
Counted(peer) ==
  /\ rating' = [Entered(peer) EXCEPT ![peer] = @ + 1]
  /\ done' = [done EXCEPT ![peer] = @ + 1]

\* PubP2pMgrImpl::getDatum(): a thread of a peer that was removed may still ask.
KnowsAnyPeer(peer) == TRUE
KnowsPeer(peer) == peer \in active
GetDatum(peer) ==
  /\ role = "publisher" /\ done[peer] < MaxRating
  /\ IF KnowsPeer(peer) THEN Counted(peer) ELSE UNCHANGED <<rating, done>>
  /\ UNCHANGED <<role, state, peers, changed, tenured>>

\* shouldRequest() of a datum that the remote peer announces
RecvNotice(peer, datum) ==
  /\ role = "subscriber" /\ peer \in active
  /\ noticed' = noticed \cup {<<peer, datum>>}
  /\ UNCHANGED <<role, state, active, halted, rating, changed, tenured, done>>

\* received(): counts if the peer has announced the datum
Expected(peer, datum) == <<peer, datum>> \in noticed

\* SubP2pMgrImpl::recvData(): the datum is forgotten after it was counted.
RecvData(peer, datum) ==
  /\ role = "subscriber" /\ peer \in active /\ Expected(peer, datum) /\ done[peer] < MaxRating
  /\ Counted(peer)
  /\ noticed' = {n \in noticed : n[2] # datum}
  /\ UNCHANGED <<role, state, active, halted, changed, tenured>>

-----------------------------------------------------------------------------
(* Improvement *)

IsFullPub == Cardinality(active \cap Servers) >= MaxServers[role]
IsFullSub == Cardinality(active) >= MaxServers[role] + MaxClients
IsFull == IF role = "publisher" THEN IsFullPub ELSE IsFullSub

\* PubBookkeeper::getWorstPeer(): of the peers with as many requests, any one.
WorstPub == {p \in DOMAIN rating : rating[p] > 0 /\ \A q \in DOMAIN rating : rating[q] <= rating[p]}

\* SubBookkeeper::getWorstPeer(): none if no peer of the kind delivered anything
WorstSub ==
  LET rated == DOMAIN rating \cap Clients
  IN {p \in rated : (\E q \in rated : rating[q] > 0) /\ \A q \in rated : rating[p] <= rating[q]}
Worst == IF role = "publisher" THEN WorstPub ELSE WorstSub

Period == changed' = FALSE /\ tenured' = active /\ done' = Zero(DOMAIN done)
\* PubBookkeeper::reset(), SubBookkeeper::reset()
RatingsKept == UNCHANGED rating
Reset == rating' = Zero(DOMAIN rating)

\* haltWorstPeer(): the set of peers has changed, or it hasn't for the evaluation
\* interval. The state mutex is held until it waits again.
Restart == state = "started" /\ changed /\ Reset /\ Period /\ UNCHANGED <<role, state, peers>>
HaltWorstPeer ==
  /\ state = "started" /\ ~changed
  /\ IF IsFull /\ Worst # {} THEN \E p \in Worst : halted' = halted \cup {p} ELSE UNCHANGED halted
  /\ Reset /\ Period
  /\ UNCHANGED <<role, state, active, noticed>>

-----------------------------------------------------------------------------
(* Stopping *)

\* stopThreads(): haltWorstPeer() ends and is joined, as are the threads that add peers.
StopThreads == state = "started" /\ state' = "stopping" /\ UNCHANGED <<role, peers, rating, changed, tenured, done>>
\* stopImpl(): each peer is halted once, and waited for.
HaltPeers ==
  /\ state = "stopping" /\ state' = "halting" /\ halted' = active
  /\ UNCHANGED <<role, active, noticed, rating, changed, tenured, done>>
Stopped ==
  /\ state = "halting" /\ active = {} /\ state' = "stopped"
  /\ UNCHANGED <<role, peers, rating, changed, tenured, done>>

Next ==
  \/ \E peer \in Clients \cup Servers :
       \/ Add(peer) \/ Remove(peer) \/ GetDatum(peer)
       \/ \E datum \in Data : RecvNotice(peer, datum) \/ RecvData(peer, datum)
  \/ Restart \/ HaltWorstPeer \/ StopThreads \/ HaltPeers \/ Stopped
Spec == Init /\ [][Next]_ratings

-----------------------------------------------------------------------------
(* Properties *)

TypeOK ==
  /\ role \in {"publisher", "subscriber"} /\ state \in {"started", "stopping", "halting", "stopped"}
  /\ active \subseteq Peers /\ halted \subseteq active
  /\ changed \in BOOLEAN /\ noticed \subseteq Peers \X Data
  /\ \A p \in DOMAIN rating : rating[p] \in 0..MaxRating

\* haltWorstPeer() finds the worst peer in peerMap, whose at() throws otherwise,
\* and ends no peer that came during the period, that asked for less than another
\* or delivered more than another, or that nobody outdid (p2p/P2pMgr.cpp,
\* haltWorstPeer(); Bookkeeper.cpp, getWorstPeer(), reset(), erase()).
OnlyWorstIsHalted == [][state = "started" => \A p \in halted' \ halted :
  /\ p \in active /\ p \in tenured
  /\ IF role = "publisher" THEN done[p] > 0 /\ \A q \in active : done[q] <= done[p]
     ELSE LET rivals == active \cap Clients
          IN p \in rivals /\ (\A q \in rivals : done[p] <= done[q]) /\ \E q \in rivals : done[q] > 0]_ratings

\* Halting each peer once is enough to get rid of all of them, whoever was being added, rated
\* or removed when the manager was told to stop (stopThreads(), stopImpl(), addPeer()).
AllAreHalted == state \in {"halting", "stopped"} => active = halted
=============================================================================
