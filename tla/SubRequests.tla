---------------------------- MODULE SubRequests ----------------------------
(***************************************************************************)
(* How one subscriber asks its remote peers for data.                      *)
(*                                                                         *)
(* A remote peer announces a datum (product information or a data          *)
(* segment); the first announcer is asked for it and the later ones are    *)
(* kept as alternatives by SubBookkeeper.  A peer answers its requests in  *)
(* order and says nothing about the ones it can't satisfy, so that an      *)
(* answer tells SubPeerImpl that every request before it was missed;       *)
(* SubP2pMgrImpl then asks the next alternative.  The requests of a peer   *)
(* that has stopped are reassigned the same way before it is removed.      *)
(*                                                                         *)
(* Threads: every connected peer has a notice reader (RecvNotice, Book,    *)
(* Send) and a data reader (Answer, Miss, Accept), a thread that runs it   *)
(* (EndConn, Stop, Drain, Drained, Remove), and there is one multicast     *)
(* receiver (RecvMcast).  A step is what happens between two acquisitions  *)
(* of the manager's or a peer's stateMutex.  Waiting for a mutex is left   *)
(* to module PeerLocks: it only removes behaviours.                        *)
(***************************************************************************)
EXTENDS Naturals, Sequences, Functions

CONSTANTS
    Peer,         \* socket addresses of remote peers
    Datum,        \* notices: product-IDs and data-segment IDs
    Publisher,    \* the remote peers that are the publisher's (tier 0)
    Reliable,     \* peers that have all they announce and never disconnect
    MaxConnects,  \* bound: connections made during a behaviour
    NoDatum

ASSUME PeerAssumption  == Publisher \subseteq Peer /\ Reliable \subseteq Peer
ASSUME BoundAssumption == MaxConnects \in Nat
ASSUME DatumAssumption == NoDatum \notin Datum

VARIABLES
    up,         \* the subscriber's process runs
    repo,       \* what the repository holds
    phase,      \* the stage in the life of the peer with a given address
    connects,   \* number of connections made so far
    noticed,    \* SubBookkeeper: the keys of noticeToPeers
    pset,       \* SubBookkeeper: noticeToPeers[d].set
    plist,      \* SubBookkeeper: noticeToPeers[d].list
    requested,  \* SubPeerImpl: requests sent to the remote peer, oldest first
    checking,   \* what a notice reader was told the repository doesn't have
    unsent,     \* what a notice reader has queued but not yet written
    wire,       \* requests that the remote peer will read, oldest first
    receiving   \* what a data reader is processing

bookVars == <<noticed, pset, plist>>
connVars == <<checking, unsent>>
vars == <<up, repo, phase, connects, bookVars, requested, connVars, wire,
          receiving>>

(***************************************************************************)
(* The stages of a peer: not in the manager's peerMap; connected and       *)
(* reading; its data reader threw; its connection ended and threadEx is    *)
(* set; its connection ended and threadEx is clear; run() has returned;    *)
(* its requests have been drained.                                         *)
(***************************************************************************)
Phase == {"absent", "running", "broken", "failed", "ended", "stopped",
          "drained"}

\* The keys of the manager's peerMap and of the bookkeeper's peerToInfo
Members == {p \in Peer : phase[p] # "absent"}

Holds(p, d) == d \in Range(requested[p])

-----------------------------------------------------------------------------
(* The bookkeeper *)

\* Mutants of ShouldRequest
ShouldRequestAlways(d) == TRUE
ShouldRequestKnown(d) == d \in noticed

\* SubBookkeeper::shouldRequest(): nobody has announced the datum yet
ShouldRequest(d) == d \notin noticed

\* SubBookkeeper::shouldRequest(): the peer is entered at most once
AddPeer(p, d) ==
    /\ noticed' = noticed \cup {d}
    /\ pset' = [pset EXCEPT ![d] = @ \cup {p}]
    /\ plist' = IF p \in pset[d] THEN plist
                                 ELSE [plist EXCEPT ![d] = Append(@, p)]

\* Mutants of SetWithout and ListWithout: the peer isn't erased
SetWith(p, d) == pset[d]
ListWith(p, d) == plist[d]

\* SubBookkeeper::getAltPeer(): what it leaves in the datum's set and list.
\* Only the front of the list is compared with the peer.
SetWithout(p, d) == pset[d] \ {p}
ListWithout(p, d) ==
    IF plist[d] # <<>> /\ Head(plist[d]) = p THEN Tail(plist[d]) ELSE plist[d]

\* SubBookkeeper::erase(notice) looks every listed peer up in peerToInfo
EraseThrows(d) == \E p \in Range(plist[d]) : p \notin Members

EraseNotice(d) ==
    /\ noticed' = noticed \ {d}
    /\ pset' = [pset EXCEPT ![d] = {}]
    /\ plist' = [plist EXCEPT ![d] = <<>>]

-----------------------------------------------------------------------------
(* Reassigning a request and notifying the other peers *)

\* The address getAltPeer() returns isn't in peerMap: at() throws
AltIsGone(p, d) ==
    /\ ListWithout(p, d) # <<>>
    /\ Head(ListWithout(p, d)) \notin Members

\* removeHead() of peer p followed by SubP2pMgrImpl::missed(d, p): the
\* alternative peer, if there is one, queues the request and writes it.  (The
\* manager's mutex is held from the push to the write.)
Reassign(p, d) ==
    /\ pset' = [pset EXCEPT ![d] = SetWithout(p, d)]
    /\ plist' = [plist EXCEPT ![d] = ListWithout(p, d)]
    /\ UNCHANGED noticed
    /\ IF ListWithout(p, d) = <<>> \/ AltIsGone(p, d)
       THEN /\ requested' = [requested EXCEPT ![p] = Tail(@)]
            /\ UNCHANGED wire
       ELSE LET alt == Head(ListWithout(p, d))
            IN  /\ requested' = [requested EXCEPT ![p] = Tail(@),
                                                  ![alt] = Append(@, d)]
                /\ wire' = IF phase[alt] = "running"
                           THEN [wire EXCEPT ![alt] = Append(@, d)]
                           ELSE wire

\* SubBookkeeper: the remote peer hasn't announced the datum
ShouldNotify(q, d) == q \notin pset[d]

\* Peers the manager notifies about a datum: those of subscribers
Notified(d) == {q \in Members \ Publisher : ShouldNotify(q, d)}

\* Peer q's threadEx is set, so that its addNotice() throws it, and clears it
NotifyThrows(q, d) == q \in Notified(d) /\ phase[q] = "failed"

-----------------------------------------------------------------------------
(* Connections *)

\* BaseP2pMgrImpl::add(): at most one connection per remote address
Connect(p) ==
    /\ up /\ phase[p] = "absent" /\ connects < MaxConnects
    /\ phase' = [phase EXCEPT ![p] = "running"]
    /\ connects' = connects + 1
    /\ UNCHANGED <<up, repo, bookVars, requested, connVars, wire, receiving>>

\* Mutants of ReadersIdle: one of the readers isn't joined
DataReaderIdle(p) == receiving[p] = NoDatum
NoticeReaderIdle(p) == checking[p] = NoDatum /\ unsent[p] = NoDatum

ReadersIdle(p) ==
    checking[p] = NoDatum /\ unsent[p] = NoDatum /\ receiving[p] = NoDatum

\* PeerConnImpl::run() joins the readers and rethrows, runConn() sets threadEx
EndConn(p) ==
    /\ up /\ phase[p] = "broken" /\ ReadersIdle(p)
    /\ phase' = [phase EXCEPT ![p] = "failed"]
    /\ wire' = [wire EXCEPT ![p] = <<>>]
    /\ UNCHANGED <<up, repo, connects, bookVars, requested, connVars, receiving>>

\* Peer::run() returns: after losing the connection, after halt(), or after
\* its connection failed
Stop(p) ==
    /\ up
    /\ \/ phase[p] = "running" /\ p \notin Reliable /\ ReadersIdle(p)
       \/ phase[p] \in {"failed", "ended"}
    /\ phase' = [phase EXCEPT ![p] = "stopped"]
    /\ wire' = [wire EXCEPT ![p] = <<>>]
    /\ UNCHANGED <<up, repo, connects, bookVars, requested, connVars, receiving>>

\* One turn of RequestQ::drainTo().  Nothing catches what it throws: runPeer()
\* is a thread's start routine, so the process terminates.
Drain(p) ==
    /\ up /\ phase[p] = "stopped" /\ requested[p] # <<>>
    /\ Reassign(p, Head(requested[p]))
    /\ up' = ~AltIsGone(p, Head(requested[p]))
    /\ UNCHANGED <<repo, phase, connects, connVars, receiving>>

Drained(p) ==
    /\ up /\ phase[p] = "stopped" /\ requested[p] = <<>>
    /\ phase' = [phase EXCEPT ![p] = "drained"]
    /\ UNCHANGED <<up, repo, connects, bookVars, requested, connVars, wire,
                   receiving>>

\* BaseP2pMgrImpl::removePeer().  SubBookkeeper::erase(rmtAddr) visits the
\* notices in the peer's PeerInfo, to which nothing is ever added: the peer
\* stays in the sets and lists of the data it announced.
Remove(p) ==
    /\ up /\ phase[p] = "drained"
    /\ phase' = [phase EXCEPT ![p] = "absent"]
    /\ requested' = [requested EXCEPT ![p] = <<>>]
    /\ UNCHANGED <<up, repo, connects, bookVars, connVars, wire, receiving>>

-----------------------------------------------------------------------------
(* The notice reader of a peer *)

\* SubP2pMgrImpl::recvNotice() looks in the repository without a mutex
RecvNotice(p, d) ==
    /\ up /\ phase[p] \in {"running", "broken"}
    /\ checking[p] = NoDatum /\ unsent[p] = NoDatum
    /\ d \notin repo
    /\ checking' = [checking EXCEPT ![p] = d]
    /\ UNCHANGED <<up, repo, phase, connects, bookVars, requested, unsent, wire,
                   receiving>>

\* The rest of SubP2pMgrImpl::recvNotice() and, if the datum is wanted, the push
\* of SubPeerImpl::request(): only peer p's own reader and its runner look at
\* the queue, and neither looks behind the last request in it
Book(p) ==
    LET d == checking[p]
    IN  /\ up /\ d # NoDatum
        /\ AddPeer(p, d)
        /\ IF ShouldRequest(d)
           THEN /\ requested' = [requested EXCEPT ![p] = Append(@, d)]
                /\ unsent' = [unsent EXCEPT ![p] = d]
           ELSE UNCHANGED <<requested, unsent>>
        /\ checking' = [checking EXCEPT ![p] = NoDatum]
        /\ UNCHANGED <<up, repo, phase, connects, wire, receiving>>

\* The write of SubPeerImpl::request(), with no mutex of the peer held
Send(p) ==
    /\ up /\ unsent[p] # NoDatum
    /\ wire' = IF phase[p] = "running"
               THEN [wire EXCEPT ![p] = Append(@, unsent[p])]
               ELSE wire
    /\ unsent' = [unsent EXCEPT ![p] = NoDatum]
    /\ UNCHANGED <<up, repo, phase, connects, bookVars, requested, checking,
                   receiving>>

-----------------------------------------------------------------------------
(* The data reader of a peer *)

\* The remote peer has the i-th of the requests it has yet to answer and has
\* none of those before it.  SubPeerImpl::processDatum() throws if its queue
\* doesn't hold the request.
Answer(p, i) ==
    /\ up /\ phase[p] = "running" /\ receiving[p] = NoDatum
    /\ i \in DOMAIN wire[p]
    /\ p \in Reliable => i = 1
    /\ wire' = [wire EXCEPT ![p] = SubSeq(@, i + 1, Len(@))]
    /\ IF Holds(p, wire[p][i])
       THEN /\ receiving' = [receiving EXCEPT ![p] = wire[p][i]]
            /\ UNCHANGED phase
       ELSE /\ phase' = [phase EXCEPT ![p] = "broken"]
            /\ UNCHANGED receiving
    /\ UNCHANGED <<up, repo, connects, bookVars, requested, connVars>>

\* processDatum(): the request at the head of the queue wasn't satisfied
Miss(p) ==
    /\ up /\ receiving[p] # NoDatum /\ Head(requested[p]) # receiving[p]
    /\ Reassign(p, Head(requested[p]))
    /\ IF AltIsGone(p, Head(requested[p]))
       THEN /\ phase' = [phase EXCEPT ![p] = "broken"]
            /\ receiving' = [receiving EXCEPT ![p] = NoDatum]
       ELSE UNCHANGED <<phase, receiving>>
    /\ UNCHANGED <<up, repo, connects, connVars>>

\* processDatum() has come to the datum: its request leaves the queue and
\* SubP2pMgrImpl::recvData() saves it if the bookkeeper expected it
TakeDatum(p) ==
    LET d == receiving[p]
    IN  /\ up /\ d # NoDatum /\ Head(requested[p]) = d
        /\ requested' = [requested EXCEPT ![p] = Tail(@)]
        /\ receiving' = [receiving EXCEPT ![p] = NoDatum]
        /\ repo' = IF p \in pset[d] THEN repo \cup {d} ELSE repo
        /\ UNCHANGED <<connects, connVars, wire, up>>

\* recvData(): the other peers are notified and the bookkeeper forgets the datum
Accept(p) ==
    LET d == receiving[p]
    IN  /\ TakeDatum(p)
        /\ p \in pset[d] => /\ ~EraseThrows(d)
                            /\ \A q \in Peer : ~NotifyThrows(q, d)
        /\ IF p \in pset[d] THEN EraseNotice(d) ELSE UNCHANGED bookVars
        /\ UNCHANGED phase

\* recvData(): notifying a failed peer throws that peer's exception on this
\* peer's data reader
AcceptNotifyThrows(p) ==
    LET d == receiving[p]
    IN  /\ TakeDatum(p) /\ p \in pset[d]
        /\ \E q \in Peer :
              /\ NotifyThrows(q, d)
              /\ phase' = [phase EXCEPT ![q] = "ended", ![p] = "broken"]
        /\ UNCHANGED bookVars

\* recvData(): the bookkeeper's list names a peer that is gone
AcceptEraseThrows(p) ==
    LET d == receiving[p]
    IN  /\ TakeDatum(p) /\ p \in pset[d]
        /\ \A q \in Peer : ~NotifyThrows(q, d)
        /\ EraseThrows(d)
        /\ phase' = [phase EXCEPT ![p] = "broken"]
        /\ UNCHANGED bookVars

-----------------------------------------------------------------------------
(* The multicast receiver *)

\* SubNodeImpl::recvMcastData(): the datum is saved and the peers notified.  An
\* exception from a failed peer ends the multicast thread and stops the node.
RecvMcast(d) ==
    /\ up /\ d \notin repo
    /\ repo' = repo \cup {d}
    /\ IF \E q \in Peer : NotifyThrows(q, d)
       THEN /\ up' = FALSE
            /\ \E q \in Peer : /\ NotifyThrows(q, d)
                               /\ phase' = [phase EXCEPT ![q] = "ended"]
       ELSE UNCHANGED <<up, phase>>
    /\ UNCHANGED <<connects, bookVars, requested, connVars, wire, receiving>>

-----------------------------------------------------------------------------
Init ==
    /\ up = TRUE
    /\ repo = {}
    /\ phase = [p \in Peer |-> "absent"]
    /\ connects = 0
    /\ noticed = {}
    /\ pset = [d \in Datum |-> {}]
    /\ plist = [d \in Datum |-> <<>>]
    /\ requested = [p \in Peer |-> <<>>]
    /\ checking = [p \in Peer |-> NoDatum]
    /\ unsent = [p \in Peer |-> NoDatum]
    /\ wire = [p \in Peer |-> <<>>]
    /\ receiving = [p \in Peer |-> NoDatum]

Next ==
    \/ \E p \in Peer : \/ Connect(p) \/ EndConn(p) \/ Stop(p) \/ Drain(p)
                       \/ Drained(p) \/ Remove(p)
                       \/ \E d \in Datum : RecvNotice(p, d)
                       \/ Book(p) \/ Send(p)
                       \/ \E i \in DOMAIN wire[p] : Answer(p, i)
                       \/ Miss(p) \/ Accept(p) \/ AcceptNotifyThrows(p)
                       \/ AcceptEraseThrows(p)
    \/ \E d \in Datum : RecvMcast(d)

Spec == Init /\ [][Next]_vars

(***************************************************************************)
(* Each reader thread of a peer runs on once it has something to do, and a *)
(* remote peer answers the requests that it can satisfy.  Nothing makes a  *)
(* peer connect, announce a datum or stop, or the multicast deliver one.   *)
(***************************************************************************)
NoticeReaderStep(p) == Book(p) \/ Send(p)

DataReaderStep(p) ==
    \/ \E i \in DOMAIN wire[p] : Answer(p, i)
    \/ Miss(p) \/ Accept(p) \/ AcceptNotifyThrows(p) \/ AcceptEraseThrows(p)

FairSpec ==
    /\ Spec
    /\ \A p \in Peer : WF_vars(NoticeReaderStep(p)) /\ WF_vars(DataReaderStep(p))

=============================================================================
