-------------------------- MODULE SubRequestsProps --------------------------
(* What a subscriber's requests for data should and do satisfy *)
EXTENDS SubRequests

(***************************************************************************)
(* TypeOK: the variables have their types, no more connections are made    *)
(* than the bound allows, and a peer outside peerMap has nothing queued,   *)
(* nothing on the wire and no reader at work (P2pMgr.cpp, runPeer()).      *)
(***************************************************************************)
TypeOK ==
    /\ up \in BOOLEAN
    /\ repo \subseteq Datum
    /\ phase \in [Peer -> Phase]
    /\ connects \in 0 .. MaxConnects
    /\ noticed \subseteq Datum
    /\ pset \in [Datum -> SUBSET Peer]
    /\ plist \in [Datum -> Seq(Peer)]
    /\ requested \in [Peer -> Seq(Datum)]
    /\ checking \in [Peer -> Datum \cup {NoDatum}]
    /\ unsent \in [Peer -> Datum \cup {NoDatum}]
    /\ wire \in [Peer -> Seq(Datum)]
    /\ receiving \in [Peer -> Datum \cup {NoDatum}]
    /\ \A p \in Peer :
          /\ phase[p] \in {"failed", "ended", "stopped", "drained", "absent"}
                => ReadersIdle(p) /\ wire[p] = <<>>
          /\ phase[p] = "absent" => requested[p] = <<>>

(***************************************************************************)
(* OnePeerOnce: a peer that announced a datum is in the datum's list at    *)
(* most once, and the list and the set kept beside it agree, although      *)
(* getAltPeer() erases from the set by value and from the list only at the *)
(* front (Bookkeeper.cpp, SubBookkeeper::Peers and getAltPeer()).          *)
(***************************************************************************)
OnePeerOnce ==
    \A d \in Datum : /\ IsInjective(plist[d])
                     /\ Range(plist[d]) = pset[d]
                     /\ d \notin noticed => pset[d] = {}

(***************************************************************************)
(* OneRequestPerDatum: a datum is pending at one peer at most, the one at  *)
(* the front of its list, so that the node never asks two peers for it     *)
(* (SubBookkeeper::shouldRequest(), getAltPeer()).                         *)
(***************************************************************************)
OneRequestPerDatum ==
    \A p \in Peer, d \in Datum :
       Holds(p, d) => plist[d] # <<>> /\ Head(plist[d]) = p

(***************************************************************************)
(* NoDuplicateRequest: a request is never pushed on a queue that already   *)
(* holds it; RequestQ's linked map would lose its tail (Peer.cpp,          *)
(* RequestQ::push()).                                                      *)
(***************************************************************************)
NoDuplicateRequest == \A p \in Peer : IsInjective(requested[p])

(***************************************************************************)
(* ReceivingIsPending: while a data reader works its way to the datum it   *)
(* has received, the request for that datum stays in the queue, whatever   *)
(* the other threads do: the loop of SubPeerImpl::processDatum() finds it. *)
(***************************************************************************)
ReceivingIsPending ==
    \A p \in Peer : receiving[p] # NoDatum => Holds(p, receiving[p])

(***************************************************************************)
(* BookIsSound: the bookkeeper's view of who has a datum is consistent,    *)
(* and so is the view of who was asked for it: OnePeerOnce and             *)
(* OneRequestPerDatum.                                                     *)
(***************************************************************************)
BookIsSound == OnePeerOnce /\ OneRequestPerDatum

(***************************************************************************)
(* RequestsAreSound: the queue of a peer's requests has none twice, and    *)
(* has the one that is being answered: NoDuplicateRequest and              *)
(* ReceivingIsPending.                                                     *)
(***************************************************************************)
RequestsAreSound == NoDuplicateRequest /\ ReceivingIsPending

(***************************************************************************)
(* AskedPeerForgotten: when a pending request passes to another peer, the  *)
(* peer that didn't satisfy it is no longer recorded as having the datum   *)
(* (SubBookkeeper::getAltPeer()): it isn't asked again unless it announces *)
(* the datum again, and it is sent a notice when the datum arrives.        *)
(***************************************************************************)
AskedPeerForgotten ==
    [][\A p, q \in Peer, d \in Datum :
          p # q /\ Holds(p, d) /\ Holds(q, d)' => p \notin pset'[d]]_vars

(***************************************************************************)
(* StableDelivery: if peers have what they announce and stay connected, a  *)
(* datum that a notice reader found missing reaches the repository, even   *)
(* if another peer was asked for it.                                       *)
(***************************************************************************)
StableDelivery ==
    \A d \in Datum : (\E p \in Peer : checking[p] = d) ~> d \in repo

-----------------------------------------------------------------------------
(* What the repository's comments say and the code doesn't do *)

(***************************************************************************)
(* ReassignedIfPossible: the requests of a stopped peer go to another peer *)
(* "if possible" (P2pMgr.cpp:975).  The code gives them to peers that were *)
(* removed: SubBookkeeper::erase(rmtAddr), which is for "removal of        *)
(* associated data" (Bookkeeper.cpp:225), relies on PeerInfo::notices,     *)
(* which nothing fills.  peerMap.at() then throws, on a thread that        *)
(* catches nothing.                                                        *)
(***************************************************************************)
ReassignedIfPossible ==
    [][\A p \in Peer : Drain(p) => up']_vars

(***************************************************************************)
(* SentIsPending: a request that was written and not yet answered is in    *)
(* the peer's queue, so that only a datum that wasn't requested ends the   *)
(* data reader (Peer.cpp:1020).  The queue and the connection can be       *)
(* written in different orders.                                            *)
(***************************************************************************)
SentIsPending == \A p \in Peer : Range(wire[p]) \subseteq Range(requested[p])

(***************************************************************************)
(* RequestedIfNoPeers: "A request for the given datum should be made if    *)
(* there are no peers for the given datum currently" (Bookkeeper.cpp:304). *)
(* getAltPeer() leaves an entry without peers in the map, and              *)
(* shouldRequest() takes the entry for somebody's request: the datum is    *)
(* then asked of nobody, however many peers announce it.                   *)
(***************************************************************************)
RequestedIfNoPeers ==
    [][\A p \in Peer, d \in Datum :
          Book(p) /\ checking[p] = d /\ pset[d] = {} => Holds(p, d)']_vars

=============================================================================
