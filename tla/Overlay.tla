------------------------------ MODULE Overlay ------------------------------
(***************************************************************************)
(* The network of P2P managers (BaseP2pMgrImpl and its two subclasses) of  *)
(* a publisher and its subscribers: who connects to whom, and how each     *)
(* subscriber finds its tier, the number of hops to the publisher, from    *)
(* the P2P-server information that peers exchange when they are made and   *)
(* send in notices whenever it changes.                                    *)
(*                                                                         *)
(* PeerPool is one manager in detail: here a server candidate is any node, *)
(* and nobody stops.  A connection has a client's end and a server's end,  *)
(* which are added to and removed from the peer-sets of their managers     *)
(* separately; what a manager does with its mutex locked is one step.      *)
(* numAvail isn't kept: it follows from the number of server-side peers.   *)
(* Notices of one sender are received in order, and its tier never         *)
(* increases, so that those on their way are a set of tiers.               *)
(***************************************************************************)
EXTENDS Naturals, FiniteSets, FiniteSetsExt

CONSTANTS
    Node,       \* publisher and subscribers
    Pub,        \* the publisher
    Knows,      \* pairs of nodes: the second one is in the tracker of the first one
    MaxClnt,    \* maxClntPeers
    MaxSrvr,    \* maxSrvrPeers
    MaxLinks,   \* bound: number of connections that are attempted
    MaxCuts     \* bound: number of connections that the network breaks

ASSUME NodeAssumption == IsFiniteSet(Node) /\ Pub \in Node
ASSUME KnowsAssumption == Knows \subseteq (Node \ {Pub}) \X Node
ASSUME SizeAssumption ==
    MaxClnt \in Nat \ {0} /\ MaxSrvr \in Nat \ {0} /\ MaxLinks \in Nat /\ MaxCuts \in Nat

VARIABLES
    tier,     \* srvrInfo.tier of each node
    clnt,     \* the client's end of a connection, by client and server
    srvr,     \* the server's end of a connection
    toClnt,   \* tiers in notices on their way to the client
    toSrvr,   \* tiers in notices on their way to the server
    clntSaw,  \* rmtSrvrInfo.tier of the client's end
    srvrSaw,  \* rmtSrvrInfo.tier of the server's end
    links,    \* number of connections attempted
    cuts,     \* number of connections that the network broke
    met       \* history: pairs of nodes that had a connection

endVars == <<clnt, srvr>>
infoVars == <<toClnt, toSrvr, clntSaw, srvrSaw>>
vars == <<tier, endVars, infoVars, links, cuts, met>>

Link == {l \in Knows : l[1] # l[2]}
ClntState == {"none", "trying", "judging", "ready", "active", "ended"}
SrvrState == {"none", "made", "active", "ended"}

NoTier == Cardinality(Node)       \* an invalid tier
Tier   == 0 .. NoTier

-----------------------------------------------------------------------------
(* Peer-sets and tiers *)

NumClnt(n) == Cardinality({l \in Link : l[1] = n /\ clnt[l] \in {"active", "ended"}})
NumSrvr(n) == Cardinality({l \in Link : l[2] = n /\ srvr[l] \in {"active", "ended"}})

\* P2pSrvrInfo::getRmtTier()
RmtTier(t) == IF t = NoTier THEN NoTier ELSE t + 1

\* Mutant of NoticedTier
AsNoticed(t) == t

\* The tier that recvNotice() considers
NoticedTier(t) == RmtTier(t)

\* updateTier() for each of some tiers: a smaller one is better, but the tier 0 is
\* the publisher's, which never changes
Updated(n, tiers) ==
    LET better == {t \in tiers : t # 0 /\ t < tier[n]}
    IN  IF n = Pub \/ better = {} THEN tier[n] ELSE Min(better)

\* notifySrvrInfo() of n: its active peers are told, or those among the ends c and s
\* that a step has just changed; tc and ts are on their way anyway
Notified(n, t, c, s, tc, ts) ==
    /\ toSrvr' = [l \in Link |-> IF l[1] = n /\ c[l] = "active"
                                 THEN ts[l] \cup {t} ELSE ts[l]]
    /\ toClnt' = [l \in Link |-> IF l[2] = n /\ s[l] = "active"
                                 THEN tc[l] \cup {t} ELSE tc[l]]

\* n considers some tiers, and tells its tier if that changed or told is true
Learns(n, tiers, told, c, s, tc, ts) ==
    LET t == Updated(n, tiers)
    IN  /\ tier' = [tier EXCEPT ![n] = t]
        /\ IF told \/ t # tier[n]
           THEN Notified(n, t, c, s, tc, ts)
           ELSE toClnt' = tc /\ toSrvr' = ts

-----------------------------------------------------------------------------
(* Making a connection *)

Connecting(n) == \E l \in Link : l[1] = n /\ clnt[l] \in {"trying", "judging", "ready"}
Accepting(n)  == \E l \in Link : l[2] = n /\ srvr[l] = "made"

\* connectPeers(), createPeer(): the client sends its information first
Try(l) ==
    /\ links < MaxLinks /\ ~Connecting(l[1]) /\ NumClnt(l[1]) < MaxClnt
    /\ clnt[l] = "none" /\ srvr[l] = "none"
    /\ clnt' = [clnt EXCEPT ![l] = "trying"]
    /\ srvrSaw' = [srvrSaw EXCEPT ![l] = tier[l[1]]]
    /\ links' = links + 1
    /\ UNCHANGED <<tier, srvr, toClnt, toSrvr, clntSaw, cuts, met>>

\* Mutant of HasSrvrRoom
OneMoreSrvr(n) == NumSrvr(n) <= MaxSrvr

\* acceptPeers(): waits for this
HasSrvrRoom(n) == NumSrvr(n) < MaxSrvr

\* acceptPeers(): the server sends its information only after there is room, so
\* that the client never learns that there is none
Accept(l) ==
    /\ clnt[l] = "trying" /\ ~Accepting(l[2]) /\ HasSrvrRoom(l[2])
    /\ srvr' = [srvr EXCEPT ![l] = "made"]
    /\ clnt' = [clnt EXCEPT ![l] = "judging"]
    /\ clntSaw' = [clntSaw EXCEPT ![l] = tier[l[2]]]
    /\ UNCHANGED <<tier, toClnt, toSrvr, srvrSaw, links, cuts, met>>

\* createPeer(): a server without a path to the publisher isn't used
Judge(l) ==
    /\ clnt[l] = "judging"
    /\ clnt' = [clnt EXCEPT ![l] = IF clntSaw[l] = NoTier THEN "none" ELSE "ready"]
    /\ UNCHANGED <<tier, srvr, infoVars, links, cuts, met>>

\* addPeer() of a client-side peer
AddClnt(l) ==
    /\ clnt[l] = "ready"
    /\ clnt' = [clnt EXCEPT ![l] = "active"]
    /\ Learns(l[1], {RmtTier(clntSaw[l])}, FALSE, clnt', srvr, toClnt, toSrvr)
    /\ met' = met \cup {{l[1], l[2]}}
    /\ UNCHANGED <<srvr, clntSaw, srvrSaw, links, cuts>>

\* Mutant of TellsAvailability
OnlyTiers == FALSE

\* The number of available server-side peers changes with one of them
TellsAvailability == TRUE

\* addPeer() of a server-side peer, whose trackers were exchanged
AddSrvr(l) ==
    /\ srvr[l] = "made" /\ clnt[l] \in {"ready", "active", "ended"}
    /\ srvr' = [srvr EXCEPT ![l] = "active"]
    /\ Learns(l[2], {RmtTier(srvrSaw[l])}, TellsAvailability, clnt, srvr', toClnt, toSrvr)
    /\ met' = met \cup {{l[1], l[2]}}
    /\ UNCHANGED <<clnt, clntSaw, srvrSaw, links, cuts>>

\* The client left before the trackers were exchanged
DropSrvr(l) ==
    /\ srvr[l] = "made" /\ clnt[l] = "none"
    /\ srvr' = [srvr EXCEPT ![l] = "none"]
    /\ UNCHANGED <<tier, clnt, infoVars, links, cuts, met>>

-----------------------------------------------------------------------------
(* Notices: recvNotice(P2pSrvrInfo) of the peer, which keeps the information of *)
(* the exchange, and of its manager                                             *)

RecvClnt(l) ==
    LET t == Max(toClnt[l])
    IN  /\ clnt[l] = "active" /\ toClnt[l] # {}
        /\ Learns(l[1], {NoticedTier(t)}, FALSE, clnt, srvr,
                  [toClnt EXCEPT ![l] = @ \ {t}], toSrvr)
        /\ UNCHANGED <<endVars, clntSaw, srvrSaw, links, cuts, met>>

RecvSrvr(l) ==
    LET t == Max(toSrvr[l])
    IN  /\ srvr[l] = "active" /\ toSrvr[l] # {}
        /\ Learns(l[2], {NoticedTier(t)}, FALSE, clnt, srvr,
                  toClnt, [toSrvr EXCEPT ![l] = @ \ {t}])
        /\ UNCHANGED <<endVars, clntSaw, srvrSaw, links, cuts, met>>

-----------------------------------------------------------------------------
(* The end of a connection *)

\* haltWorstPeer(): a full peer-set loses a client-side peer, the publisher's a
\* server-side peer
HaltWorst(l) ==
    /\ \/ /\ l[2] = Pub /\ NumSrvr(Pub) = MaxSrvr /\ srvr[l] = "active"
          /\ srvr' = [srvr EXCEPT ![l] = "ended"]
          /\ UNCHANGED clnt
       \/ /\ NumSrvr(l[1]) + NumClnt(l[1]) = MaxSrvr + MaxClnt /\ clnt[l] = "active"
          /\ clnt' = [clnt EXCEPT ![l] = "ended"]
          /\ UNCHANGED srvr
    /\ UNCHANGED <<tier, infoVars, links, cuts, met>>

\* The network breaks a connection
Cut(l) ==
    /\ cuts < MaxCuts /\ clnt[l] = "active" /\ srvr[l] = "active"
    /\ cuts' = cuts + 1
    /\ \/ clnt' = [clnt EXCEPT ![l] = "ended"] /\ UNCHANGED srvr
       \/ srvr' = [srvr EXCEPT ![l] = "ended"] /\ UNCHANGED clnt
    /\ UNCHANGED <<tier, infoVars, links, met>>

\* An end learns that the other one ended
SeeEnd(l) ==
    /\ \/ /\ clnt[l] = "active" /\ srvr[l] \in {"none", "ended"}
          /\ clnt' = [clnt EXCEPT ![l] = "ended"]
          /\ UNCHANGED srvr
       \/ /\ srvr[l] = "active" /\ clnt[l] \in {"none", "ended"}
          /\ srvr' = [srvr EXCEPT ![l] = "ended"]
          /\ UNCHANGED clnt
    /\ UNCHANGED <<tier, infoVars, links, cuts, met>>

\* What the remaining peers of n saw when they were made
Seen(n, c, s) ==
    {RmtTier(clntSaw[k]) : k \in {k \in Link : k[1] = n /\ c[k] \in {"active", "ended"}}}
      \cup
    {RmtTier(srvrSaw[k]) : k \in {k \in Link : k[2] = n /\ s[k] \in {"active", "ended"}}}

\* runPeer(), removePeer()
RemoveClnt(l) ==
    /\ clnt[l] = "ended"
    /\ clnt' = [clnt EXCEPT ![l] = "none"]
    /\ Learns(l[1], Seen(l[1], clnt', srvr), FALSE, clnt', srvr,
              [toClnt EXCEPT ![l] = {}], toSrvr)
    /\ UNCHANGED <<srvr, clntSaw, srvrSaw, links, cuts, met>>

RemoveSrvr(l) ==
    /\ srvr[l] = "ended"
    /\ srvr' = [srvr EXCEPT ![l] = "none"]
    /\ Learns(l[2], Seen(l[2], clnt, srvr'), TellsAvailability, clnt, srvr',
              toClnt, [toSrvr EXCEPT ![l] = {}])
    /\ UNCHANGED <<clnt, clntSaw, srvrSaw, links, cuts, met>>

-----------------------------------------------------------------------------
Init ==
    /\ tier = [n \in Node |-> IF n = Pub THEN 0 ELSE NoTier]
    /\ clnt = [l \in Link |-> "none"] /\ srvr = [l \in Link |-> "none"]
    /\ toClnt = [l \in Link |-> {}]   /\ toSrvr = [l \in Link |-> {}]
    /\ clntSaw = [l \in Link |-> NoTier] /\ srvrSaw = [l \in Link |-> NoTier]
    /\ links = 0 /\ cuts = 0 /\ met = {}

\* What the threads of the two managers and of their peers do by themselves
Proceed(l) ==
    \/ Accept(l) \/ Judge(l) \/ AddClnt(l) \/ AddSrvr(l) \/ DropSrvr(l)
    \/ RecvClnt(l) \/ RecvSrvr(l)
    \/ SeeEnd(l) \/ RemoveClnt(l) \/ RemoveSrvr(l)

Next == \E l \in Link : Try(l) \/ Proceed(l) \/ HaltWorst(l) \/ Cut(l)

Fairness == \A l \in Link : WF_vars(Proceed(l))

Spec == Init /\ [][Next]_vars /\ Fairness

-----------------------------------------------------------------------------
TypeOK ==
    /\ tier \in [Node -> Tier] /\ tier[Pub] = 0
    /\ clnt \in [Link -> ClntState] /\ srvr \in [Link -> SrvrState]
    /\ toClnt \in [Link -> SUBSET Tier] /\ toSrvr \in [Link -> SUBSET Tier]
    /\ clntSaw \in [Link -> Tier] /\ srvrSaw \in [Link -> Tier]
    /\ links \in 0 .. MaxLinks /\ cuts \in 0 .. MaxCuts
    /\ met \subseteq {{l[1], l[2]} : l \in Link}
    /\ \A n \in Node : NumClnt(n) <= MaxClnt /\ NumSrvr(n) <= MaxSrvr

\* A tier is never smaller than the number of connections, made at some time, that
\* lead to the publisher: each subscriber that has one met a node with a smaller one,
\* whatever the order in which notices were received and connections came and went
\* (P2pSrvrInfo.h:41, "Minimum number of hops to the publisher").
TierHasSource ==
    \A n \in Node \ {Pub} :
        tier[n] < NoTier => \E m \in Node : {m, n} \in met /\ tier[m] < tier[n]

\* A client ends up knowing how near to the publisher its server is, although the
\* server's tier may have changed between the exchange of information and the
\* addition of the server's peer, when nobody could be told.
ClientsConverge ==
    \A l \in Link :
        <>[](clnt[l] = "active" /\ srvr[l] = "active"
                => tier[l[1]] <= RmtTier(tier[l[2]]))

\* createPeer() decides whether a remote site is worth using: "can't accept a new
\* client" is one of its verdicts (P2pMgr.cpp:819-822).
AttemptIsDecided == \A l \in Link : clnt[l] = "trying" ~> clnt[l] # "trying"
=============================================================================
