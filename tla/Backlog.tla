------------------------------ MODULE Backlog ------------------------------
(***************************************************************************)
(* What a publisher tells its peers: the sender of PubNodeImpl multicasts  *)
(* each datum of a product and then has the P2P manager notify the active  *)
(* peers of it (Node.cpp, P2pMgr.cpp), while peers come, go and fail. A    *)
(* peer that has come is told by its backlog thread what the repository    *)
(* has and the subscriber's doesn't (Peer.cpp, Repository.cpp).            *)
(*                                                                         *)
(* A datum of a product is its information (0) or one of its segments. The *)
(* request and the answer that follow a notice are one step. Products are  *)
(* numbered by modification time.                                          *)
(***************************************************************************)
EXTENDS Naturals, FiniteSets, FiniteSetsExt

CONSTANTS
  SegCounts,  \* Number of segments of each product
  Subscribers

Prods == DOMAIN SegCounts
DataOf(p) == {<<p, k>> : k \in 0 .. SegCounts[p]}

VARIABLES
  made,      \* How many products the publisher was given
  repo,      \* prodEntries: products that its repository has
  procQueue, \* Products to be sent
  sender,    \* The sender's step, its product and the datum that is next
  sent,      \* History: data that were multicast
  saved,     \* lastTransmission
  peer,      \* The peer of each subscriber: in peerSet from "added" on
  noticeQ,   \* Notices for each subscriber that it has not taken
  had,       \* History: products that the subscriber said it has
  missing,   \* Products that the backlog thread has yet to announce; unknown before it runs
  held       \* Data that each subscriber's repository has

senderVars == <<procQueue, sender, sent, saved>>
peerVars == <<peer, noticeQ, had, missing>>
backlogVars == <<made, repo, senderVars, peerVars, held>>

Unknown == {0}
Active == {c \in Subscribers : peer[c] # "away"}
Failed == {c \in Subscribers : peer[c] = "failed"}

Init ==
  /\ made = 0 /\ repo = {} /\ procQueue = {} /\ sent = {} /\ saved = 0
  /\ sender = [pc |-> "next", prod |-> 0, k |-> 0]
  /\ peer = [c \in Subscribers |-> "away"]
  /\ noticeQ = [c \in Subscribers |-> {}] /\ held = [c \in Subscribers |-> {}]
  /\ had = [c \in Subscribers |-> {}] /\ missing = [c \in Subscribers |-> Unknown]

-----------------------------------------------------------------------------
(* The publisher's repository *)

AddProd ==
  /\ made' = made + 1 /\ made' \in Prods
  /\ repo' = repo \cup {made'} /\ procQueue' = procQueue \cup {made'}
  /\ UNCHANGED <<sender, sent, saved, peerVars, held>>
DeleteProd(p) == p \in repo /\ repo' = repo \ {p} /\ UNCHANGED <<made, senderVars, peerVars, held>>

\* Mutant of Subtract
SubtractUnsent(prodIds) == {p \in repo \ prodIds : DataOf(p) \subseteq sent}
Subtract(prodIds) == repo \ prodIds

-----------------------------------------------------------------------------
(* The sender *)

At(step) == sender.pc = step
Goto(step) == sender' = [sender EXCEPT !.pc = step]
Datum == <<sender.prod, sender.k>>

\* A product that was deleted before its turn is skipped.
GetNextProd ==
  /\ At("next") /\ procQueue # {}
  /\ LET p == Min(procQueue) IN
       /\ procQueue' = procQueue \ {p}
       /\ sender' = IF p \in repo THEN [pc |-> "multicast", prod |-> p, k |-> 0] ELSE sender
  /\ UNCHANGED <<made, repo, sent, saved, peerVars, held>>

\* Some subscribers receive it. One that has no peer may, too.
Multicast(receivers) ==
  /\ At("multicast") /\ Goto("notify")
  /\ sent' = sent \cup {Datum}
  /\ held' = [c \in Subscribers |-> IF c \in receivers THEN held[c] \cup {Datum} ELSE held[c]]
  /\ UNCHANGED <<made, repo, procQueue, saved, peerVars>>

Told(cs, data) == [c \in Subscribers |-> IF c \in cs THEN noticeQ[c] \cup data ELSE noticeQ[c]]
Notify ==
  /\ At("notify") /\ Failed = {}
  /\ noticeQ' = Told(Active, {Datum})
  /\ sender' = [sender EXCEPT !.k = @ + 1, !.pc = IF sender.k < SegCounts[sender.prod] THEN "multicast" ELSE "save"]
  /\ UNCHANGED <<made, repo, procQueue, sent, saved, peer, had, missing, held>>

\* The notification of a peer that has failed and isn't removed yet throws its
\* exception: peers that come after it aren't told, and the sender ends.
NotifyThrows ==
  /\ At("notify") /\ Failed # {} /\ Goto("ended")
  /\ \E cs \in SUBSET (Active \ Failed) : noticeQ' = Told(cs, {Datum})
  /\ UNCHANGED <<made, repo, procQueue, sent, saved, peer, had, missing, held>>
MulticastThrows == At("multicast") /\ Goto("ended")
  /\ UNCHANGED <<made, repo, procQueue, sent, saved, peerVars, held>>

\* Mutant of IsSent
InfoIsSent == sender.k > 0
IsSent == At("save")
Save ==
  /\ IsSent /\ saved' = sender.prod /\ Goto("next")
  /\ UNCHANGED <<made, repo, procQueue, sent, peerVars, held>>

Sender == GetNextProd \/ Notify \/ NotifyThrows \/ MulticastThrows \/ Save
          \/ \E cs \in SUBSET Subscribers : Multicast(cs)

-----------------------------------------------------------------------------
(* The peers *)

Add(c) ==
  /\ peer[c] = "away" /\ peer' = [peer EXCEPT ![c] = "added"]
  /\ UNCHANGED <<made, repo, senderVars, noticeQ, had, missing, held>>

\* requestBacklog(): the subscriber tells what has an entry in its repository
\* once the peer runs. Products that aren't complete have one, too.
GetProdIds(c) == {d[1] : d \in held[c]}
RequestBacklog(c) ==
  /\ peer[c] = "added" /\ peer' = [peer EXCEPT ![c] = "running"]
  /\ had' = [had EXCEPT ![c] = GetProdIds(c)]
  /\ UNCHANGED <<made, repo, senderVars, noticeQ, missing, held>>

\* runBacklog(): segments are announced if the product is still there.
StartBacklog(c) ==
  /\ peer[c] = "running" /\ missing[c] = Unknown
  /\ missing' = [missing EXCEPT ![c] = Subtract(had[c])]
  /\ UNCHANGED <<made, repo, senderVars, peer, noticeQ, had, held>>
RunBacklog(c) ==
  /\ peer[c] = "running" /\ missing[c] # Unknown
  /\ \E p \in missing[c] :
       /\ missing' = [missing EXCEPT ![c] = @ \ {p}]
       /\ noticeQ' = Told({c}, IF p \in repo THEN DataOf(p) ELSE {<<p, 0>>})
  /\ UNCHANGED <<made, repo, senderVars, peer, had, held>>

\* The subscriber requests what it doesn't have, and gets it if it is still there.
ShouldRequest(c, d) == d \notin held[c]
GetDatum(d) == {e \in {d} : e[1] \in repo}
RecvNotice(c) ==
  /\ peer[c] = "running"
  /\ \E d \in noticeQ[c] :
       /\ noticeQ' = [noticeQ EXCEPT ![c] = @ \ {d}]
       /\ held' = IF ShouldRequest(c, d) THEN [held EXCEPT ![c] = @ \cup GetDatum(d)] ELSE held
  /\ UNCHANGED <<made, repo, senderVars, peer, had, missing>>

\* A thread of the peer throws.
Fail(c) ==
  /\ peer[c] = "running" /\ peer' = [peer EXCEPT ![c] = "failed"]
  /\ UNCHANGED <<made, repo, senderVars, noticeQ, had, missing, held>>
Remove(c) ==
  /\ peer[c] \in {"running", "failed"} /\ peer' = [peer EXCEPT ![c] = "away"]
  /\ noticeQ' = [noticeQ EXCEPT ![c] = {}]
  /\ had' = [had EXCEPT ![c] = {}] /\ missing' = [missing EXCEPT ![c] = Unknown]
  /\ UNCHANGED <<made, repo, senderVars, held>>

Peer(c) == Add(c) \/ RequestBacklog(c) \/ StartBacklog(c) \/ RunBacklog(c) \/ RecvNotice(c) \/ Fail(c) \/ Remove(c)

Next ==
  \/ AddProd \/ \E p \in Prods : DeleteProd(p)
  \/ Sender
  \/ \E c \in Subscribers : Peer(c)
Spec == Init /\ [][Next]_backlogVars

-----------------------------------------------------------------------------
(* Properties *)

TypeOK ==
  LET data == UNION {DataOf(p) : p \in Prods} IN
  /\ made \in 0 .. Cardinality(Prods) /\ repo \subseteq Prods /\ procQueue \subseteq Prods
  /\ sender.pc \in {"next", "multicast", "notify", "save", "ended"} /\ saved \in {0} \cup Prods
  /\ sent \subseteq data /\ peer \in [Subscribers -> {"away", "added", "running", "failed"}]
  /\ noticeQ \in [Subscribers -> SUBSET data] /\ held \in [Subscribers -> SUBSET data]
  /\ had \in [Subscribers -> SUBSET Prods]
  /\ \A c \in Subscribers : missing[c] \subseteq Prods \/ missing[c] = Unknown

\* Data that the sender has notified the active peers of
Notified == UNION {DataOf(p) : p \in 1 .. sender.prod - 1} \cup {<<sender.prod, k>> : k \in 0 .. sender.k - 1}

\* No datum falls between the notices and the backlog: a peer that has worked its backlog off was
\* told of all that was sent, whenever it came, unless its subscriber said that it has the product
\* (PubNodeImpl::send(), BaseP2pMgrImpl::addPeer(), notify(), BasePeerImpl::runBacklog()).
EachIsAnnounced ==
  \A c \in Subscribers : peer[c] = "running" /\ missing[c] = {} =>
    \A d \in Notified : d[1] \in repo \ had[c] => d \in noticeQ[c] \cup held[c]

\* What is saved as the last transmission was sent completely (PubNodeImpl::runSender()).
SavedIsSent == saved # 0 => DataOf(saved) \subseteq sent

\* "Returns a set of identifiers for complete products" (Repository.cpp:668): once all is said, a
\* subscriber has each product that the publisher has. Doesn't hold: an incomplete product is
\* among the identifiers, and so never in a backlog.
BacklogCompletes ==
  \A c \in Subscribers : (peer[c] = "running" /\ missing[c] = {} /\ noticeQ[c] = {} /\ sender.pc = "next" /\ procQueue = {})
    => \A p \in repo : DataOf(p) \subseteq held[c]
=============================================================================
