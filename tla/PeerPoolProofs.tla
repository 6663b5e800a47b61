--------------------------- MODULE PeerPoolProofs ---------------------------
(***************************************************************************)
(* The safety of a subscriber's pool of peers, for any servers, limits and *)
(* capacity of the tracker.  What TLC checks isn't inductive: the counters *)
(* stay within their limits only because the thread that adds a peer has   *)
(* seen room for it and nobody else adds one (RoomIsKept), because they    *)
(* are the sizes of sets of peers before the manager runs, too             *)
(* (CountedUntilStop), and because nothing happens before it runs          *)
(* (NothingYet).                                                           *)
(***************************************************************************)
EXTENDS PeerPool, FiniteSetTheorems, TLAPS

\* The rest of what TypeOK says but the limits
TrackerOK == /\ srvrInfos \subseteq Server /\ IsFiniteSet(srvrInfos)
             /\ Cardinality(srvrInfos) <= Capacity
             /\ srvrQueue \subseteq srvrInfos
             /\ delayQueue \in [Server -> 0 .. MaxDelayed]

ThreadsOK == /\ mgr \in MgrState /\ stopSem \in BOOLEAN
             /\ connector \in Connector /\ trying \in Server \cup {NoServer}
             /\ trying # NoServer <=> connector = "trying"
             /\ acceptor \in Acceptor /\ listener \in Listener

PeersOK == /\ client \in [Server -> Client]
           /\ served \in [Server -> 0 .. MaxSrvr]
           /\ ended \in [Server -> 0 .. MaxSrvr]
           /\ \A s \in Server : ended[s] <= served[s]
           /\ numClntPeers \in 0 .. MaxClnt /\ numSrvrPeers \in 0 .. MaxSrvr

\* A thread that has seen room for a peer will find it when it adds the peer
RoomIsKept ==
    Running => /\ connector \in {"taking", "trying"} => NeedsClient
               /\ acceptor = "accepting" => NeedsServed

\* The counters are right from the beginning
CountedUntilStop ==
    mgr \in {"init", "running"} => numClntPeers = Clients /\ numSrvrPeers = Servings

\* Before run() nothing has happened
NothingYet ==
    mgr = "init" => connector = "unborn" /\ acceptor = "unborn" /\ srvrQueue = srvrInfos

IInv == /\ TrackerOK /\ ThreadsOK /\ PeersOK
        /\ RoomIsKept /\ CountedUntilStop /\ NothingYet /\ NoServerForgotten

-----------------------------------------------------------------------------
(* Constants *)

LEMMA LimitsArePositive ==
    MaxSrvr \in Nat \ {0} /\ MaxClnt = MaxSrvr
<1>1. \A n \in Nat \ {0} : (n + 1) \div 2 \in Nat \ {0}
    OBVIOUS
<1>. QED BY <1>1, SizeAssumption DEF MaxSrvr, MaxClnt

-----------------------------------------------------------------------------
(* The tracker *)

(* An insertion keeps the tracker within its capacity and its queue among  *)
(* its entries, and an entry that isn't queued afterwards wasn't before.   *)
LEMMA InsertedKeeps ==
    ASSUME TrackerOK, NEW s \in Server, NEW new \in Inserted(s)
    PROVE  /\ new.infos \subseteq Server /\ IsFiniteSet(new.infos)
           /\ Cardinality(new.infos) <= Capacity
           /\ new.queue \subseteq new.infos
           /\ \A t \in new.infos \ new.queue : t \in srvrInfos \ srvrQueue
<1>1. CASE s \in srvrInfos
    <2>1. /\ new.infos = srvrInfos \cup {s} /\ new.queue = srvrQueue
          /\ srvrInfos \cup {s} = srvrInfos
        BY <1>1 DEF Inserted
    <2>. QED BY <2>1 DEF TrackerOK
<1>2. CASE s \notin srvrInfos /\ HasRoom
    <2>1. new.infos = srvrInfos \cup {s} /\ new.queue = srvrQueue \cup {s}
        BY <1>2 DEF Inserted
    <2>2. Cardinality(srvrInfos) \in Nat /\ Cardinality(srvrInfos) < Capacity
        BY <1>2, FS_CardinalityType DEF TrackerOK, HasRoom
    <2>3. IsFiniteSet(new.infos) /\ Cardinality(new.infos) = Cardinality(srvrInfos) + 1
        BY <1>2, <2>1, FS_AddElement DEF TrackerOK
    <2>. QED BY <2>1, <2>2, <2>3, SizeAssumption DEF TrackerOK
<1>3. CASE s \notin srvrInfos /\ ~HasRoom
    <2>1. PICK w \in srvrQueue : /\ new.infos = (srvrInfos \ {w}) \cup {s}
                                 /\ new.queue = (srvrQueue \ {w}) \cup {s}
        BY <1>3 DEF Inserted
    <2>2. w \in srvrInfos /\ Cardinality(srvrInfos) \in Nat
        BY FS_CardinalityType DEF TrackerOK
    <2>3. /\ IsFiniteSet(srvrInfos \ {w})
          /\ Cardinality(srvrInfos \ {w}) = Cardinality(srvrInfos) - 1
        BY <2>2, FS_RemoveElement DEF TrackerOK
    <2>4. s \notin srvrInfos \ {w}
        BY <1>3
    <2>5. /\ IsFiniteSet(new.infos)
          /\ Cardinality(new.infos) = Cardinality(srvrInfos \ {w}) + 1
        BY <2>1, <2>3, <2>4, FS_AddElement
    <2>. QED BY <2>1, <2>2, <2>3, <2>5 DEF TrackerOK
<1>. QED BY <1>1, <1>2, <1>3

(* Without an entry the tracker is no larger.                              *)
LEMMA ErasedKeeps ==
    ASSUME TrackerOK, NEW s
    PROVE  /\ IsFiniteSet(srvrInfos \ {s})
           /\ Cardinality(srvrInfos \ {s}) <= Capacity
<1>1. IsFiniteSet(srvrInfos) /\ Cardinality(srvrInfos) \in Nat
    BY FS_CardinalityType DEF TrackerOK
<1>2. /\ IsFiniteSet(srvrInfos \ {s})
      /\ Cardinality(srvrInfos \ {s}) <= Cardinality(srvrInfos)
      /\ Cardinality(srvrInfos \ {s}) \in Nat
    BY <1>1, FS_Subset, FS_CardinalityType
<1>. QED BY <1>1, <1>2, SizeAssumption DEF TrackerOK

(* A server whose peer is lost leaves the queue only for the delay-queue.  *)
LEMMA DisconnectedKeeps ==
    ASSUME TrackerOK, NEW s \in Server, Disconnected(s)
    PROVE  /\ srvrQueue' \subseteq srvrQueue
           /\ srvrQueue \subseteq srvrQueue' \cup {s}
           /\ delayQueue' \in [Server -> 0 .. MaxDelayed]
           /\ \A t \in Server : delayQueue[t] > 0 => delayQueue'[t] > 0
           /\ s \in srvrInfos => delayQueue'[s] > 0
BY SizeAssumption DEF TrackerOK, Disconnected, Delayed

-----------------------------------------------------------------------------
(* The sets of peers *)

\* The server-side peers: those of each server's node are numbered
ServedPeers == UNION {{s} \X (1 .. served[s]) : s \in Server}

(* They are finitely many.                                                 *)
LEMMA ServedPeersFinite ==
    ASSUME PeersOK
    PROVE  /\ IsFiniteSet(ServedPeers)
           /\ \A s \in Server : served[s] <= Cardinality(ServedPeers)
<1>1. ServedPeers \subseteq Server \X (1 .. MaxSrvr)
    BY LimitsArePositive DEF ServedPeers, PeersOK
<1>2. IsFiniteSet(Server \X (1 .. MaxSrvr))
    <2>1. IsFiniteSet(1 .. MaxSrvr)
        BY LimitsArePositive, FS_Interval
    <2>2. IsFiniteSet(Server)
        BY ServerAssumption
    <2>. QED BY <2>1, <2>2, FS_Product, Zenon
<1>3. IsFiniteSet(ServedPeers)
    BY <1>1, <1>2, FS_Subset
<1>4. ASSUME NEW s \in Server PROVE served[s] <= Cardinality(ServedPeers)
    <2>1. served[s] \in Nat /\ {s} \X (1 .. served[s]) \in SUBSET ServedPeers
        BY LimitsArePositive DEF ServedPeers, PeersOK
    <2>2. /\ IsFiniteSet({s} \X (1 .. served[s]))
          /\ Cardinality({s} \X (1 .. served[s])) = served[s]
        <3>1. IsFiniteSet({s}) /\ Cardinality({s}) = 1
            BY FS_Singleton
        <3>2. IsFiniteSet(1 .. served[s]) /\ Cardinality(1 .. served[s]) = served[s]
            BY <2>1, FS_Interval
        <3>3. /\ IsFiniteSet({s} \X (1 .. served[s]))
              /\ Cardinality({s} \X (1 .. served[s])) = 1 * served[s]
            BY <3>1, <3>2, FS_Product, Zenon
        <3>. QED BY <2>1, <3>3
    <2>. QED BY <1>3, <2>1, <2>2, FS_Subset
<1>. QED BY <1>3, <1>4

(* One more, or one less, at a server changes their number by one.         *)
LEMMA ServingsChange ==
    ASSUME PeersOK, PeersOK', NEW s \in Server,
           \A t \in Server \ {s} : served'[t] = served[t]
    PROVE  /\ served'[s] = served[s] + 1 => Servings' = Servings + 1
           /\ served'[s] = served[s] - 1 => Servings' = Servings - 1
<1>1. /\ IsFiniteSet(ServedPeers) /\ Servings = Cardinality(ServedPeers)
      /\ Servings \in Nat /\ Servings' = Cardinality(ServedPeers')
    BY ServedPeersFinite, FS_CardinalityType DEF ServedPeers, Servings
<1>2. \A t \in Server : served[t] \in Nat /\ served'[t] \in Nat
    BY LimitsArePositive DEF PeersOK
<1>3. ASSUME served'[s] = served[s] + 1
      PROVE  Servings' = Servings + 1
    <2> DEFINE x == <<s, served'[s]>>
    <2>1. x \notin ServedPeers
        BY <1>2, <1>3 DEF ServedPeers
    <2>2. ServedPeers' = ServedPeers \cup {x}
        BY <1>2, <1>3 DEF ServedPeers
    <2>. QED BY <1>1, <2>1, <2>2, FS_AddElement
<1>4. ASSUME served'[s] = served[s] - 1
      PROVE  Servings' = Servings - 1
    <2> DEFINE x == <<s, served[s]>>
    <2>1. x \in ServedPeers
        BY <1>2, <1>4 DEF ServedPeers
    <2>2. ServedPeers' = ServedPeers \ {x}
        BY <1>2, <1>4 DEF ServedPeers
    <2>. QED BY <1>1, <2>1, <2>2, FS_RemoveElement
<1>. QED BY <1>3, <1>4

(* The same for the client-side peers, of which a server has one at most.  *)
LEMMA ClientsChange ==
    ASSUME PeersOK, PeersOK', NEW s \in Server,
           \A t \in Server \ {s} : client'[t] = client[t]
    PROVE  /\ Clients \in Nat
           /\ client[s] # "none" => Clients > 0
           /\ client[s] = "none" /\ client'[s] # "none" => Clients' = Clients + 1
           /\ client[s] # "none" /\ client'[s] = "none" => Clients' = Clients - 1
           /\ client[s] # "none" /\ client'[s] # "none" => Clients' = Clients
<1> DEFINE C == {t \in Server : client[t] # "none"}
<1>1. IsFiniteSet(C) /\ Clients = Cardinality(C) /\ Clients' = Cardinality(C')
    BY ServerAssumption, FS_Subset DEF Clients
<1>2. Clients \in Nat
    BY <1>1, FS_CardinalityType
<1>3. client[s] # "none" => Clients > 0
    BY <1>1, <1>2, FS_EmptySet
<1>4. ASSUME client[s] = "none", client'[s] # "none"
      PROVE  Clients' = Clients + 1
    <2>1. s \notin C /\ C' = C \cup {s}
        BY <1>4
    <2>. QED BY <1>1, <2>1, FS_AddElement
<1>5. ASSUME client[s] # "none", client'[s] = "none"
      PROVE  Clients' = Clients - 1
    <2>1. s \in C /\ C' = C \ {s}
        BY <1>5
    <2>. QED BY <1>1, <2>1, FS_RemoveElement
<1>6. ASSUME client[s] # "none", client'[s] # "none"
      PROVE  Clients' = Clients
    <2>1. C' = C
        BY <1>6
    <2>. QED BY <1>1, <2>1
<1>. QED BY <1>2, <1>3, <1>4, <1>5, <1>6

-----------------------------------------------------------------------------
(* The invariant holds in the beginning *)

LEMMA InitIInv == Init => IInv
<1> SUFFICES ASSUME Init PROVE IInv
    OBVIOUS
<1>1. TrackerOK
    <2>1. IsFiniteSet(Known)
        BY ServerAssumption, FS_Subset
    <2>. QED BY <2>1, ServerAssumption, SizeAssumption, KnownAssumption DEF Init, TrackerOK
<1>2. ThreadsOK
    BY ServerAssumption DEF Init, ThreadsOK, MgrState, Connector, Acceptor, Listener
<1>3. PeersOK
    BY LimitsArePositive DEF Init, PeersOK, Client
<1>4. CountedUntilStop
    <2>1. {s \in Server : client[s] # "none"} = {}
        BY DEF Init
    <2>2. ServedPeers = {}
        BY DEF Init, ServedPeers
    <2>. QED BY <2>1, <2>2, FS_EmptySet DEF Init, CountedUntilStop, Clients, Servings, ServedPeers
<1>5. RoomIsKept /\ NothingYet /\ NoServerForgotten
    BY DEF Init, RoomIsKept, NothingYet, NoServerForgotten, Running
<1>. QED BY <1>1, <1>2, <1>3, <1>4, <1>5 DEF IInv

-----------------------------------------------------------------------------
(* Each step keeps each part of it *)

LEMMA TrackerStep ==
    ASSUME IInv, Next
    PROVE  TrackerOK'
<1>1. TrackerOK /\ ThreadsOK
    BY DEF IInv
<1>2. CASE UNCHANGED trackerVars
    BY <1>1, <1>2 DEF TrackerOK, trackerVars
<1>3. ASSUME NEW s \in Server, Disconnected(s), UNCHANGED srvrInfos
      PROVE  TrackerOK'
    BY <1>1, <1>3, DisconnectedKeeps DEF TrackerOK
<1>4. ASSUME NEW s \in Server, NEW new \in Inserted(s),
             srvrInfos' = new.infos, srvrQueue' = new.queue, UNCHANGED delayQueue
      PROVE  TrackerOK'
    BY <1>1, <1>4, InsertedKeeps DEF TrackerOK
<1>5. CASE Joined
    <2>1. trying \in Server
        BY <1>1, <1>5 DEF Joined, ThreadsOK
    <2>2. CASE Inserted(trying) = {}
        BY <1>2, <1>5, <2>2 DEF Joined, trackerVars
    <2>3. CASE Inserted(trying) # {}
        BY <1>4, <1>5, <2>1, <2>3 DEF Joined
    <2>. QED BY <2>2, <2>3
<1>6. CASE Unsuitable
    <2>1. trying \in Server
        BY <1>1, <1>6 DEF Unsuitable, Tried, ThreadsOK
    <2>2. CASE Inserted(trying) = {}
        BY <1>2, <1>6, <2>2 DEF Unsuitable
    <2>3. CASE Inserted(trying) # {}
        <3>1. PICK new \in Inserted(trying) :
                 srvrInfos' = new.infos /\ srvrQueue' = new.queue \ {trying}
            BY <1>6, <2>3 DEF Unsuitable
        <3>2. delayQueue' \in [Server -> 0 .. MaxDelayed]
            BY <1>1, <1>6, <2>1, <2>3, SizeAssumption DEF Unsuitable, Delayed, TrackerOK
        <3>. QED BY <1>1, <2>1, <3>1, <3>2, InsertedKeeps DEF TrackerOK
    <2>. QED BY <2>2, <2>3
<1>7. CASE Unavailable
    <2>1. CASE UNCHANGED <<srvrInfos, srvrQueue>>
        BY <1>2, <1>7, <2>1 DEF Unavailable, trackerVars
    <2>2. CASE srvrInfos' = srvrInfos \ {trying} /\ srvrQueue' = srvrQueue \ {trying}
        BY <1>1, <1>7, <2>2, ErasedKeeps DEF Unavailable, TrackerOK
    <2>. QED BY <1>7, <2>1, <2>2 DEF Unavailable
<1>8. CASE Refused
    BY <1>1, <1>3, <1>8 DEF Refused, Tried, ThreadsOK
<1>9. ASSUME NEW s \in Server, Take(s)
      PROVE  TrackerOK'
    BY <1>1, <1>9, ErasedKeeps DEF Take, TrackerOK
<1>10. ASSUME NEW s \in Server, Learn(s)
       PROVE  TrackerOK'
    BY <1>2, <1>4, <1>10 DEF Learn, trackerVars
<1>11. ASSUME NEW s \in Server, Accepted(s)
       PROVE  TrackerOK'
    BY <1>2, <1>4, <1>11 DEF Accepted, trackerVars
<1>12. ASSUME NEW s \in Server, Reveal(s)
       PROVE  TrackerOK'
    <2>1. delayQueue' \in [Server -> 0 .. MaxDelayed]
        BY <1>1, <1>12, SizeAssumption DEF Reveal, TrackerOK
    <2>2. srvrInfos' = srvrInfos /\ srvrQueue' \subseteq srvrInfos
        BY <1>1, <1>12 DEF Reveal, TrackerOK
    <2>. QED BY <1>1, <2>1, <2>2 DEF TrackerOK
<1>13. ASSUME NEW s \in Server, LoseClient(s) \/ LoseServed(s)
       PROVE  TrackerOK'
    BY <1>2, <1>3, <1>13 DEF LoseClient, LoseServed, trackerVars
<1>14. \/ UNCHANGED trackerVars \/ Joined \/ Unsuitable \/ Unavailable \/ Refused
       \/ \E s \in Server : \/ Take(s) \/ Learn(s) \/ Accepted(s) \/ Reveal(s)
                            \/ LoseClient(s) \/ LoseServed(s)
    BY DEF Next, ConnectorStep, AcceptorStep, ManagerStep, WantClient, ConnectorDone,
           ConnectorThrows, ConnectTerminates, WantServed, AcceptorDone, HandshakeFails,
           AcceptorThrows, ListenerHalts, ListenerFails, RemoveClient, RemoveServed,
           Start, StartFails, Halt, BeginStop, HaltPeers, Stopped
<1>. QED BY <1>2, <1>5, <1>6, <1>7, <1>8, <1>9, <1>10, <1>11, <1>12, <1>13, <1>14

LEMMA ThreadsStep ==
    ASSUME IInv, Next
    PROVE  ThreadsOK'
<1> USE DEF MgrState, Connector, Acceptor, Listener
<1>1. ThreadsOK /\ NothingYet
    BY DEF IInv
<1>2. CASE ConnectorStep
    <2>1. CASE WantClient \/ ConnectorDone
        BY <1>1, <2>1 DEF ThreadsOK, WantClient, ConnectorDone, Interruptible, mgrVars, acceptVars
    <2>2. CASE ConnectorThrows \/ ConnectTerminates
        BY <1>1, <2>2, ServerAssumption
        DEF ThreadsOK, ConnectorThrows, ConnectTerminates, Tried, acceptVars
    <2>3. CASE Unavailable \/ Refused \/ Unsuitable
        BY <1>1, <2>3, ServerAssumption
        DEF ThreadsOK, Unavailable, Refused, Unsuitable, Tried, mgrVars, acceptVars
    <2>4. CASE Joined
        BY <1>1, <2>4, ServerAssumption DEF ThreadsOK, Joined, acceptVars
    <2>5. ASSUME NEW s \in Server, Take(s)
          PROVE  ThreadsOK'
        BY <1>1, <2>5, ServerAssumption DEF ThreadsOK, Take, mgrVars, acceptVars
    <2>. QED BY <1>2, <2>1, <2>2, <2>3, <2>4, <2>5 DEF ConnectorStep
<1>3. CASE AcceptorStep
    <2>1. CASE WantServed \/ AcceptorDone \/ HandshakeFails \/ AcceptorThrows
        BY <1>1, <2>1
        DEF ThreadsOK, WantServed, AcceptorDone, HandshakeFails, AcceptorThrows, mgrVars, connVars
    <2>2. ASSUME NEW s \in Server, Accepted(s)
          PROVE  ThreadsOK'
        BY <1>1, <2>2 DEF ThreadsOK, Accepted, connVars
    <2>. QED BY <1>3, <2>1, <2>2 DEF AcceptorStep
<1>6. CASE ManagerStep
    BY <1>1, <1>6
    DEF ThreadsOK, NothingYet, ManagerStep, Start, StartFails, BeginStop, HaltPeers, Stopped,
        connVars, acceptVars
<1>4. CASE ListenerHalts \/ ListenerFails \/ Halt
    BY <1>1, <1>4 DEF ThreadsOK, ListenerHalts, ListenerFails, Halt, mgrVars, connVars, acceptVars
<1>5. ASSUME NEW s \in Server,
             \/ Reveal(s) \/ Learn(s) \/ LoseClient(s) \/ LoseServed(s)
             \/ RemoveClient(s) \/ RemoveServed(s)
      PROVE  ThreadsOK'
    BY <1>1, <1>5
    DEF ThreadsOK, Reveal, Learn, LoseClient, LoseServed, RemoveClient, RemoveServed,
        mgrVars, connVars, acceptVars
<1>. QED BY <1>2, <1>3, <1>4, <1>5, <1>6 DEF Next

(* What a step does to the peers and their counters: nothing, or one of    *)
(* six things.                                                             *)
LEMMA PeersStep ==
    ASSUME IInv, Next
    PROVE  PeersOK'
<1> USE DEF Client
<1>1. PeersOK /\ ThreadsOK /\ RoomIsKept /\ CountedUntilStop
    BY DEF IInv
<1>2. CASE UNCHANGED peerVars
    BY <1>1, <1>2 DEF PeersOK, peerVars
<1>3. CASE Joined
    <2>1. trying \in Server /\ (Running => numClntPeers < MaxClnt)
        BY <1>1, <1>3 DEF Joined, ThreadsOK, RoomIsKept, NeedsClient
    <2>2. client' \in [Server -> Client] /\ UNCHANGED <<served, ended, numSrvrPeers>>
        BY <1>1, <1>3, <2>1 DEF Joined, PeersOK
    <2>3. numClntPeers' \in 0 .. MaxClnt
        BY <1>1, <1>3, <2>1, LimitsArePositive DEF Joined, PeersOK
    <2>. QED BY <1>1, <2>2, <2>3 DEF PeersOK
<1>4. ASSUME NEW s \in Server, Accepted(s)
      PROVE  PeersOK'
    <2>1. CASE UNCHANGED <<served, numSrvrPeers>>
        BY <1>2, <1>4, <2>1 DEF Accepted, peerVars
    <2>2. CASE /\ Running
               /\ served' = [served EXCEPT ![s] = @ + 1]
               /\ numSrvrPeers' = numSrvrPeers + 1
        <3>1. numSrvrPeers < MaxSrvr /\ numSrvrPeers = Servings
            BY <1>1, <1>4, <2>2
            DEF Accepted, Accepting, RoomIsKept, NeedsServed, CountedUntilStop, Running
        <3>2. served[s] < MaxSrvr
            BY <1>1, <3>1, ServedPeersFinite, FS_CardinalityType, LimitsArePositive
            DEF PeersOK, ServedPeers, Servings
        <3>3. served' \in [Server -> 0 .. MaxSrvr] /\ \A t \in Server : ended[t] <= served'[t]
            BY <1>1, <2>2, <3>2, LimitsArePositive DEF PeersOK
        <3>. QED BY <1>1, <1>4, <2>2, <3>1, <3>3, LimitsArePositive DEF Accepted, PeersOK
    <2>. QED BY <1>4, <2>1, <2>2 DEF Accepted
<1>5. ASSUME NEW s \in Server, LoseClient(s)
      PROVE  PeersOK'
    BY <1>1, <1>5 DEF LoseClient, PeersOK
<1>6. ASSUME NEW s \in Server, LoseServed(s)
      PROVE  PeersOK'
    <2>1. ended[s] \in Nat /\ served[s] \in Nat /\ ended[s] + 1 <= served[s]
        BY <1>1, <1>6, LimitsArePositive DEF LoseServed, PeersOK
    <2>2. ended' \in [Server -> 0 .. MaxSrvr] /\ \A t \in Server : ended'[t] <= served[t]
        BY <1>1, <1>6, <2>1, LimitsArePositive DEF LoseServed, PeersOK
    <2>. QED BY <1>1, <1>6, <2>2 DEF LoseServed, PeersOK
<1>7. ASSUME NEW s \in Server, RemoveClient(s)
      PROVE  PeersOK'
    <2>1. Running => numClntPeers > 0
        <3>1. {t \in Server : client[t] # "none"} # {}
            BY <1>7 DEF RemoveClient
        <3>2. IsFiniteSet({t \in Server : client[t] # "none"})
            BY ServerAssumption, FS_Subset
        <3>3. Clients \in Nat /\ Clients # 0
            BY <3>1, <3>2, FS_CardinalityType, FS_EmptySet DEF Clients
        <3>. QED BY <1>1, <3>3 DEF CountedUntilStop, Running
    <2>2. numClntPeers' \in 0 .. MaxClnt
        BY <1>1, <1>7, <2>1, LimitsArePositive DEF RemoveClient, Uncounted, PeersOK
    <2>. QED BY <1>1, <1>7, <2>2 DEF RemoveClient, PeersOK
<1>8. ASSUME NEW s \in Server, RemoveServed(s)
      PROVE  PeersOK'
    <2>1. /\ served[s] > 0 /\ ended[s] > 0 /\ served[s] \in 0 .. MaxSrvr /\ ended[s] \in 0 .. MaxSrvr
          /\ ended[s] <= served[s]
        BY <1>1, <1>8, LimitsArePositive DEF RemoveServed, PeersOK
    <2>2. Running => numSrvrPeers > 0
        BY <1>1, <2>1, ServedPeersFinite, FS_CardinalityType, LimitsArePositive
        DEF CountedUntilStop, Running, ServedPeers, Servings
    <2>3. numSrvrPeers' \in 0 .. MaxSrvr
        BY <1>1, <1>8, <2>2, LimitsArePositive DEF RemoveServed, Uncounted, PeersOK
    <2>4. served' \in [Server -> 0 .. MaxSrvr] /\ ended' \in [Server -> 0 .. MaxSrvr]
        BY <1>1, <1>8, <2>1, LimitsArePositive DEF RemoveServed, PeersOK
    <2>5. \A t \in Server : ended'[t] <= served'[t]
        BY <1>1, <1>8, <2>1, LimitsArePositive DEF RemoveServed, PeersOK
    <2>. QED BY <1>1, <1>8, <2>3, <2>4, <2>5 DEF RemoveServed, PeersOK
<1>9. \/ UNCHANGED peerVars \/ Joined
      \/ \E s \in Server : \/ Accepted(s) \/ LoseClient(s) \/ LoseServed(s)
                           \/ RemoveClient(s) \/ RemoveServed(s)
    BY DEF Next, ConnectorStep, AcceptorStep, ManagerStep, WantClient, ConnectorDone, Take,
           ConnectorThrows, ConnectTerminates, Unavailable, Refused, Unsuitable, WantServed,
           AcceptorDone, HandshakeFails, AcceptorThrows, ListenerHalts, ListenerFails,
           Reveal, Learn, Start, StartFails, Halt, BeginStop, HaltPeers, Stopped
<1>. QED BY <1>2, <1>3, <1>4, <1>5, <1>6, <1>7, <1>8, <1>9

(* Nobody but the connector adds client-side peers, nobody but the         *)
(* acceptor server-side ones.                                              *)
LEMMA RoomStep ==
    ASSUME IInv, Next
    PROVE  RoomIsKept'
<1> USE DEF Running, NeedsClient, NeedsServed
<1>1. RoomIsKept /\ PeersOK /\ PeersOK' /\ ThreadsOK /\ NothingYet
    BY PeersStep DEF IInv
<1>2. /\ numClntPeers \in Nat /\ numClntPeers' \in Nat
      /\ numSrvrPeers \in Nat /\ numSrvrPeers' \in Nat
    BY <1>1 DEF PeersOK
<1>3. CASE ConnectorStep
    BY <1>1, <1>2, <1>3
    DEF RoomIsKept, ConnectorStep, WantClient, ConnectorDone, Interruptible, ConnectorThrows,
        ConnectTerminates, Unavailable, Refused, Unsuitable, Joined, Take, Tried,
        mgrVars, acceptVars, peerVars
<1>4. CASE AcceptorStep
    BY <1>1, <1>2, <1>4
    DEF RoomIsKept, AcceptorStep, WantServed, AcceptorDone, HandshakeFails, AcceptorThrows,
        Accepted, mgrVars, connVars, peerVars
<1>5. CASE ManagerStep \/ ListenerHalts \/ ListenerFails \/ Halt
    BY <1>1, <1>5
    DEF RoomIsKept, NothingYet, ManagerStep, Start, StartFails, BeginStop, HaltPeers, Stopped,
        ListenerHalts, ListenerFails, Halt, mgrVars, connVars, acceptVars, peerVars
<1>6. ASSUME NEW s \in Server,
             \/ Reveal(s) \/ Learn(s) \/ LoseClient(s) \/ LoseServed(s)
             \/ RemoveClient(s) \/ RemoveServed(s)
      PROVE  RoomIsKept'
    BY <1>1, <1>2, <1>6, LimitsArePositive
    DEF RoomIsKept, Reveal, Learn, LoseClient, LoseServed, RemoveClient, RemoveServed,
        Uncounted, mgrVars, connVars, acceptVars, peerVars
<1>. QED BY <1>3, <1>4, <1>5, <1>6 DEF Next

(* Whoever adds a peer counts it, and whoever removes one discounts it, in *)
(* the same step.                                                          *)
LEMMA CountStep ==
    ASSUME IInv, Next
    PROVE  CountedUntilStop'
<1> USE DEF Running, Alive
<1>1. CountedUntilStop /\ PeersOK /\ PeersOK' /\ ThreadsOK
    BY PeersStep DEF IInv
<1>2. /\ client = client' => Clients' = Clients
      /\ served = served' => Servings' = Servings
    BY DEF Clients, Servings
<1>3. ASSUME UNCHANGED peerVars, mgr' \in {"init", "running"} => mgr \in {"init", "running"}
      PROVE  CountedUntilStop'
    BY <1>1, <1>2, <1>3 DEF CountedUntilStop, peerVars
<1>4. CASE Joined
    <2>1. trying \in Server /\ UNCHANGED <<served, numSrvrPeers>>
        BY <1>1, <1>4 DEF Joined, ThreadsOK
    <2>2. CASE UNCHANGED <<client, numClntPeers>>
        BY <1>1, <1>2, <1>4, <2>1, <2>2 DEF Joined, CountedUntilStop
    <2>3. CASE /\ Running /\ client[trying] = "none"
               /\ client' = [client EXCEPT ![trying] = "active"]
               /\ numClntPeers' = numClntPeers + 1
        <3>1. Clients' = Clients + 1
            BY <1>1, <2>1, <2>3, ClientsChange DEF PeersOK
        <3>. QED BY <1>1, <1>2, <2>1, <2>3, <3>1 DEF CountedUntilStop
    <2>. QED BY <1>4, <2>2, <2>3 DEF Joined
<1>5. ASSUME NEW s \in Server, Accepted(s)
      PROVE  CountedUntilStop'
    <2>1. UNCHANGED <<client, numClntPeers>> /\ mgr \notin {"init"}
        BY <1>5 DEF Accepted, Accepting
    <2>2. CASE UNCHANGED <<served, numSrvrPeers>>
        BY <1>1, <1>2, <1>5, <2>1, <2>2 DEF Accepted, CountedUntilStop
    <2>3. CASE Running /\ served' = [served EXCEPT ![s] = @ + 1] /\ numSrvrPeers' = numSrvrPeers + 1
        <3>1. Servings' = Servings + 1
            BY <1>1, <2>3, ServingsChange DEF PeersOK
        <3>. QED BY <1>1, <1>2, <2>1, <2>3, <3>1 DEF CountedUntilStop
    <2>. QED BY <1>5, <2>2, <2>3 DEF Accepted
<1>6. ASSUME NEW s \in Server, LoseClient(s)
      PROVE  CountedUntilStop'
    <2>1. Clients' = Clients
        BY <1>1, <1>6, ClientsChange DEF LoseClient, PeersOK
    <2>. QED BY <1>1, <1>2, <1>6, <2>1 DEF LoseClient, CountedUntilStop, mgrVars
<1>7. ASSUME NEW s \in Server, LoseServed(s)
      PROVE  CountedUntilStop'
    BY <1>1, <1>2, <1>7 DEF LoseServed, CountedUntilStop, mgrVars
<1>8. ASSUME NEW s \in Server, RemoveClient(s)
      PROVE  CountedUntilStop'
    <2>1. Clients' = Clients - 1
        BY <1>1, <1>8, ClientsChange DEF RemoveClient, PeersOK
    <2>. QED BY <1>1, <1>2, <1>8, <2>1 DEF RemoveClient, CountedUntilStop, Uncounted, mgrVars
<1>9. ASSUME NEW s \in Server, RemoveServed(s)
      PROVE  CountedUntilStop'
    <2>1. Servings' = Servings - 1
        BY <1>1, <1>9, ServingsChange DEF RemoveServed, PeersOK
    <2>. QED BY <1>1, <1>2, <1>9, <2>1 DEF RemoveServed, CountedUntilStop, Uncounted, mgrVars
<1>10. \/ /\ UNCHANGED peerVars
          /\ mgr' \in {"init", "running"} => mgr \in {"init", "running"}
       \/ Joined
       \/ \E s \in Server : \/ Accepted(s) \/ LoseClient(s) \/ LoseServed(s)
                            \/ RemoveClient(s) \/ RemoveServed(s)
    BY DEF Next, ConnectorStep, AcceptorStep, ManagerStep, WantClient, ConnectorDone, Take,
           ConnectorThrows, ConnectTerminates, Unavailable, Refused, Unsuitable, Tried, WantServed,
           AcceptorDone, HandshakeFails, AcceptorThrows, ListenerHalts, ListenerFails,
           Reveal, Learn, Start, StartFails, Halt, BeginStop, HaltPeers, Stopped, mgrVars
<1>. QED BY <1>3, <1>4, <1>5, <1>6, <1>7, <1>8, <1>9, <1>10

(* Nothing happens before run().                                           *)
LEMMA NothingStep ==
    ASSUME IInv, Next
    PROVE  NothingYet'
<1> USE DEF NothingYet, Running, Alive
<1>1. NothingYet /\ ThreadsOK
    BY DEF IInv
<1>2. CASE UNCHANGED <<mgr, connVars, acceptor, trackerVars>>
    BY <1>1, <1>2 DEF connVars, trackerVars
<1>3. CASE mgr' # "init"
    BY <1>3
<1>4. mgr' # "init" \/ UNCHANGED <<mgr, connVars, acceptor, trackerVars>>
    <2>1. CASE mgr # "init" /\ UNCHANGED mgr
        BY <2>1
    <2>2. CASE mgr' = "aborted" \/ ManagerStep
        BY <2>2 DEF ManagerStep, Start, StartFails, BeginStop, HaltPeers, Stopped
    <2>3. CASE ListenerHalts \/ ListenerFails \/ Halt
        BY <2>3 DEF ListenerHalts, ListenerFails, Halt, mgrVars, acceptVars
    <2>4. ASSUME NEW s \in Server, RemoveClient(s) \/ RemoveServed(s) \/ LoseClient(s) \/ LoseServed(s)
          PROVE  mgr' # "init"
        BY <2>4 DEF RemoveClient, RemoveServed, LoseClient, LoseServed, mgrVars
    <2>5. \/ mgr # "init" /\ UNCHANGED mgr
          \/ mgr' = "aborted" \/ ManagerStep
          \/ ListenerHalts \/ ListenerFails \/ Halt
          \/ \E s \in Server : RemoveClient(s) \/ RemoveServed(s) \/ LoseClient(s) \/ LoseServed(s)
        BY <1>1
        DEF Next, ConnectorStep, AcceptorStep, WantClient, ConnectorDone, Take, ConnectorThrows,
            ConnectTerminates, Unavailable, Refused, Unsuitable, Tried, Joined, WantServed,
            AcceptorDone, HandshakeFails, AcceptorThrows, Accepted, Accepting, Reveal, Learn, mgrVars
    <2>. QED BY <2>1, <2>2, <2>3, <2>4, <2>5
<1>. QED BY <1>2, <1>3, <1>4

(* What leaves the queue of servers goes to the connector, to the          *)
(* delay-queue or out of the tracker, and comes back from each.            *)
LEMMA ForgottenStep ==
    ASSUME IInv, Next
    PROVE  NoServerForgotten'
<1> USE DEF Running, Alive
<1>1. TrackerOK /\ ThreadsOK /\ PeersOK /\ NothingYet /\ NoServerForgotten /\ TrackerOK'
    BY TrackerStep DEF IInv
<1> DEFINE Placed(s) == \/ s \in srvrQueue \/ delayQueue[s] > 0
                        \/ trying = s \/ client[s] = "active"
<1>2. SUFFICES ASSUME mgr' = "running", connector' # "done"
               PROVE  \A s \in srvrInfos' : Placed(s)'
    BY DEF NoServerForgotten
<1>3. /\ mgr = "running" \/ Start
      /\ mgr = "running" => \A s \in srvrInfos : Placed(s)
    <2>1. mgr = "running" \/ Start
        BY <1>2
        DEF Next, ConnectorStep, AcceptorStep, ManagerStep, WantClient, ConnectorDone, Take,
            ConnectorThrows, ConnectTerminates, Unavailable, Refused, Unsuitable, Tried, Joined,
            WantServed, AcceptorDone, HandshakeFails, AcceptorThrows, Accepted, Reveal, Learn,
            LoseClient, LoseServed, RemoveClient, RemoveServed, ListenerHalts, ListenerFails,
            StartFails, Halt, BeginStop, HaltPeers, Stopped, mgrVars
    <2>2. connector = "done" => connector' = "done" \/ Start
        BY <2>1
        DEF Next, ConnectorStep, AcceptorStep, ManagerStep, WantClient, ConnectorDone, Take,
            Interruptible, ConnectorThrows, ConnectTerminates, Unavailable, Refused, Unsuitable,
            Tried, Joined, WantServed, AcceptorDone, HandshakeFails, AcceptorThrows, Accepted,
            Reveal, Learn, LoseClient, LoseServed, RemoveClient, RemoveServed, ListenerHalts,
            ListenerFails, StartFails, Halt, BeginStop, HaltPeers, Stopped, connVars
    <2>. QED BY <1>1, <1>2, <2>1, <2>2 DEF NoServerForgotten, Start
<1>4. CASE Start
    BY <1>1, <1>4 DEF Start, NothingYet, trackerVars
<1>5. ASSUME mgr = "running", UNCHANGED <<srvrInfos, trying, client>>,
             srvrQueue \subseteq srvrQueue', \A s \in Server : delayQueue[s] > 0 => delayQueue'[s] > 0
      PROVE  \A s \in srvrInfos' : Placed(s)'
    BY <1>1, <1>3, <1>5 DEF TrackerOK
<1>6. ASSUME mgr = "running", NEW s \in Server, NEW new \in Inserted(s),
             srvrInfos' = new.infos, new.queue \subseteq srvrQueue',
             UNCHANGED <<delayQueue, trying, client>>
      PROVE  \A t \in srvrInfos' : Placed(t)'
    BY <1>1, <1>3, <1>6, InsertedKeeps
<1>7. CASE mgr = "running" /\ Joined
    <2>1. /\ trying \in Server /\ Inserted(trying) # {} /\ client[trying] = "none"
          /\ client' = [client EXCEPT ![trying] = "active"]
        BY <1>1, <1>2, <1>7 DEF Joined, ThreadsOK
    <2>2. PICK new \in Inserted(trying) : srvrInfos' = new.infos /\ srvrQueue' = new.queue
        BY <1>7, <2>1 DEF Joined
    <2>3. ASSUME NEW t \in srvrInfos', t \notin srvrQueue', t # trying
          PROVE  delayQueue'[t] > 0 \/ client'[t] = "active"
        <3>1. t \in srvrInfos \ srvrQueue /\ t \in Server
            BY <1>1, <2>1, <2>2, <2>3, InsertedKeeps
        <3>2. delayQueue[t] > 0 \/ client[t] = "active"
            BY <1>3, <1>7, <2>3, <3>1
        <3>. QED BY <1>1, <1>7, <2>1, <2>3, <3>1, <3>2 DEF Joined, PeersOK
    <2>4. client'[trying] = "active"
        BY <1>1, <2>1 DEF PeersOK
    <2>. QED BY <2>3, <2>4
<1>8. CASE mgr = "running" /\ Unsuitable
    <2>1. trying \in Server /\ Inserted(trying) # {} /\ delayQueue' = Delayed(trying)
        BY <1>1, <1>2, <1>8 DEF Unsuitable, Tried, ThreadsOK
    <2>2. PICK new \in Inserted(trying) :
             srvrInfos' = new.infos /\ srvrQueue' = new.queue \ {trying}
        BY <1>8, <2>1 DEF Unsuitable
    <2>3. delayQueue'[trying] > 0 /\ \A t \in Server \ {trying} : delayQueue'[t] = delayQueue[t]
        BY <1>1, <2>1, SizeAssumption DEF Delayed, TrackerOK
    <2>4. ASSUME NEW t \in srvrInfos', t \notin srvrQueue', t # trying
          PROVE  delayQueue'[t] > 0 \/ client'[t] = "active"
        <3>1. t \in srvrInfos \ srvrQueue /\ t \in Server
            BY <1>1, <2>1, <2>2, <2>4, InsertedKeeps
        <3>2. delayQueue[t] > 0 \/ client[t] = "active"
            BY <1>3, <1>8, <2>4, <3>1
        <3>. QED BY <1>8, <2>3, <2>4, <3>1, <3>2 DEF Unsuitable, peerVars
    <2>. QED BY <2>3, <2>4
<1>9. CASE mgr = "running" /\ Unavailable
    BY <1>1, <1>2, <1>3, <1>9 DEF Unavailable, Tried, TrackerOK, peerVars
<1>10. CASE mgr = "running" /\ Refused
    <2>1. trying \in Server /\ Disconnected(trying) /\ UNCHANGED <<srvrInfos, client>>
        BY <1>1, <1>10 DEF Refused, Tried, ThreadsOK, peerVars
    <2>. QED BY <1>1, <1>3, <1>10, <2>1, DisconnectedKeeps DEF TrackerOK
<1>11. ASSUME mgr = "running", NEW s \in Server, Take(s)
       PROVE  \A t \in srvrInfos' : Placed(t)'
    BY <1>1, <1>3, <1>11, ServerAssumption DEF Take, TrackerOK, ThreadsOK, peerVars
<1>12. ASSUME mgr = "running", NEW s \in Server, Learn(s) \/ Accepted(s)
       PROVE  \A t \in srvrInfos' : Placed(t)'
    <2>1. Inserted(s) # {} /\ UNCHANGED <<delayQueue, trying, client>>
        BY <1>2, <1>12 DEF Learn, Accepted, connVars, peerVars
    <2>2. PICK new \in Inserted(s) : srvrInfos' = new.infos /\ srvrQueue' = new.queue
        BY <1>12, <2>1 DEF Learn, Accepted
    <2>. QED BY <1>6, <1>12, <2>1, <2>2
<1>13. ASSUME mgr = "running", NEW s \in Server, Reveal(s)
       PROVE  \A t \in srvrInfos' : Placed(t)'
    BY <1>1, <1>3, <1>13, SizeAssumption DEF Reveal, TrackerOK, connVars, peerVars
<1>14. ASSUME mgr = "running", NEW s \in Server, LoseClient(s) \/ LoseServed(s)
       PROVE  \A t \in srvrInfos' : Placed(t)'
    <2>1. /\ Disconnected(s) /\ UNCHANGED <<srvrInfos, trying>>
          /\ \A t \in Server \ {s} : client'[t] = client[t]
        BY <1>1, <1>14 DEF LoseClient, LoseServed, PeersOK, connVars
    <2>. QED BY <1>1, <1>3, <1>14, <2>1, DisconnectedKeeps DEF TrackerOK
<1>15. ASSUME mgr = "running", NEW s \in Server, RemoveClient(s)
       PROVE  \A t \in srvrInfos' : Placed(t)'
    BY <1>1, <1>3, <1>15 DEF RemoveClient, TrackerOK, PeersOK, trackerVars, connVars
<1>16. CASE mgr = "running" /\ UNCHANGED <<trackerVars, trying, client>>
    BY <1>5, <1>16 DEF trackerVars
<1>17. \/ Start
       \/ mgr = "running" /\ \/ Joined \/ Unsuitable \/ Unavailable \/ Refused
                             \/ UNCHANGED <<trackerVars, trying, client>>
                             \/ \E s \in Server : \/ Take(s) \/ Learn(s) \/ Accepted(s) \/ Reveal(s)
                                                  \/ LoseClient(s) \/ LoseServed(s) \/ RemoveClient(s)
    BY <1>2, <1>3
    DEF Next, ConnectorStep, AcceptorStep, ManagerStep, WantClient, ConnectorDone,
        ConnectorThrows, ConnectTerminates, Tried, WantServed, AcceptorDone, HandshakeFails,
        AcceptorThrows, ListenerHalts, ListenerFails, RemoveServed, StartFails, Halt, BeginStop,
        HaltPeers, Stopped, connVars, peerVars
<1>. QED BY <1>4, <1>7, <1>8, <1>9, <1>10, <1>11, <1>12, <1>13, <1>14, <1>15, <1>16, <1>17

(* The inductive invariant                                                 *)
LEMMA InvariantHolds == Spec => []IInv
<1>1. Init => IInv
    BY InitIInv
<1>2. IInv /\ [Next]_vars => IInv'
    <2>1. ASSUME IInv, Next PROVE IInv'
        BY <2>1, TrackerStep, ThreadsStep, PeersStep, RoomStep, CountStep, NothingStep, ForgottenStep
        DEF IInv
    <2>2. ASSUME IInv, UNCHANGED vars PROVE IInv'
        BY <2>2
        DEF IInv, vars, trackerVars, mgrVars, connVars, acceptVars, peerVars, TrackerOK, ThreadsOK,
            PeersOK, RoomIsKept, CountedUntilStop, NothingYet, NoServerForgotten, Running,
            NeedsClient, NeedsServed, Clients, Servings
    <2>. QED BY <2>1, <2>2
<1>. QED BY <1>1, <1>2, PTL DEF Spec

(***************************************************************************)
(* The variables keep their types, the counters their limits, the tracker  *)
(* its capacity and its queue has no server without an entry, which its    *)
(* comparator would fail on.                                               *)
(***************************************************************************)
THEOREM TypeCorrect == Spec => []TypeOK
<1>1. IInv => TypeOK
    BY DEF IInv, TypeOK, TrackerOK, ThreadsOK, PeersOK
<1>. QED BY <1>1, InvariantHolds, PTL

(***************************************************************************)
(* The manager's counters are the numbers of its peers until it stops      *)
(* (BaseP2pMgrImpl::addPeer(), removePeer()).                              *)
(***************************************************************************)
THEOREM PeersAreCountedHolds == Spec => []PeersAreCounted
<1>1. IInv => PeersAreCounted
    BY DEF IInv, CountedUntilStop, PeersAreCounted, Running
<1>. QED BY <1>1, InvariantHolds, PTL

(***************************************************************************)
(* Every server that the tracker knows is somewhere from where it will be  *)
(* tried again or has a peer (Tracker, connectPeers(), runPeer()).         *)
(***************************************************************************)
THEOREM NoServerForgottenHolds == Spec => []NoServerForgotten
<1>1. IInv => NoServerForgotten
    BY DEF IInv
<1>. QED BY <1>1, InvariantHolds, PTL

(***************************************************************************)
(* The pool loses neither room for peers nor servers to try.               *)
(***************************************************************************)
THEOREM PoolIsWholeHolds == Spec => []PoolIsWhole
<1>1. IInv => PoolIsWhole
    BY DEF IInv, CountedUntilStop, PeersAreCounted, Running, PoolIsWhole
<1>. QED BY <1>1, InvariantHolds, PTL

=============================================================================
