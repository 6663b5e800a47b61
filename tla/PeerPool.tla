------------------------------ MODULE PeerPool ------------------------------
(***************************************************************************)
(* How a subscriber's P2P manager gets its peers and lets go of them: the  *)
(* Tracker of P2P servers, the thread that connects to them                *)
(* (SubP2pMgrImpl::connectPeers), the one that accepts their connections   *)
(* (BaseP2pMgrImpl::acceptPeers), the listener behind it                   *)
(* (PeerConnSrvrImpl::acceptSocks), the threads that run the peers         *)
(* (runPeer), and the stop of all of them (run, stopImpl).                 *)
(*                                                                         *)
(* Left out: the metrics of a server and the order of Tracker's queue that *)
(* they determine (any queued server may be the first or the last).  The   *)
(* entries of a received tracker arrive one by one, in steps Learn.        *)
(***************************************************************************)
EXTENDS Naturals, FiniteSets

CONSTANTS
    Server,     \* socket addresses of P2P servers
    Self,       \* the address of the local one
    Known,      \* what the tracker holds when the manager starts
    Capacity,   \* Tracker::Impl::capacity
    MaxNumPeers, \* RunPar::maxNumPeers
    MaxDelayed, \* bound: entries for one server in the delay-queue
    NoServer

ASSUME ServerAssumption ==
    /\ IsFiniteSet(Server) /\ Self \in Server /\ NoServer \notin Server
    /\ Known \subseteq Server
ASSUME SizeAssumption ==
    /\ Capacity \in Nat \ {0} /\ MaxNumPeers \in Nat \ {0} /\ MaxDelayed \in Nat \ {0}
ASSUME KnownAssumption == Cardinality(Known) <= Capacity

\* Half of the peers are to be server-side, rounded up, and as many client-side.
MaxSrvr == (MaxNumPeers + 1) \div 2  \* maxSrvrPeers
MaxClnt == MaxSrvr                   \* maxClntPeers

VARIABLES
    srvrInfos,     \* Tracker: the servers with an entry
    srvrQueue,     \* Tracker: the servers that may be tried
    delayQueue,    \* Tracker: number of delayed entries of each server
    mgr,           \* the manager's state, or how its process ended
    stopSem,       \* halt() was called or a thread has thrown
    connector,     \* where connectPeers() is
    trying,        \* the server it is trying
    acceptor,      \* where acceptPeers() is
    listener,      \* where acceptSocks() is
    client,        \* the client-side peer of each server
    served,        \* number of server-side peers of each server's node
    ended,         \* those of them that have stopped but are in peerSet
    numClntPeers,
    numSrvrPeers

trackerVars == <<srvrInfos, srvrQueue, delayQueue>>
mgrVars     == <<mgr, stopSem>>
connVars    == <<connector, trying>>
acceptVars  == <<acceptor, listener>>
peerVars    == <<client, served, ended, numClntPeers, numSrvrPeers>>
vars == <<trackerVars, mgrVars, connVars, acceptVars, peerVars>>

\* "stopping" is stopThreads(), "halting" the wait for an empty peerSet;
\* "aborted" is a failed LOG_ASSERT or std::terminate()
MgrState  == {"init", "running", "stopping", "halting", "stopped", "aborted"}
Connector == {"unborn", "waiting", "taking", "trying", "done"}
Acceptor  == {"unborn", "waiting", "accepting", "done"}
Listener  == {"listening", "halted", "failed"}
Client    == {"none", "active", "ended"}

Running == mgr = "running"                    \* state = STARTED
Alive   == mgr \notin {"init", "stopped", "aborted"}

-----------------------------------------------------------------------------
(* The tracker *)

\* Mutant of HasRoom
HasRoomForOneMore == Cardinality(srvrInfos) <= Capacity

HasRoom == Cardinality(srvrInfos) < Capacity

\* What Tracker::Impl::tryAdd() of a server can leave behind.  At capacity the
\* worst server in the queue goes; an empty queue there fails an assertion.
Inserted(s) ==
    IF s \in srvrInfos \/ HasRoom
    THEN {[infos |-> srvrInfos \cup {s},
           queue |-> IF s \in srvrInfos THEN srvrQueue ELSE srvrQueue \cup {s}]}
    ELSE {[infos |-> (srvrInfos \ {w}) \cup {s},
           queue |-> (srvrQueue \ {w}) \cup {s}] : w \in srvrQueue}

\* Mutant of Delayed: the server isn't put in the delay-queue
NotDelayed(s) == delayQueue

Delayed(s) == [delayQueue EXCEPT ![s] = @ + 1]

\* Tracker::Impl::disconnected()
Disconnected(s) ==
    IF s \in srvrInfos
    THEN /\ delayQueue[s] < MaxDelayed
         /\ srvrQueue' = srvrQueue \ {s}
         /\ delayQueue' = Delayed(s)
    ELSE UNCHANGED <<srvrQueue, delayQueue>>

\* Tracker::Impl::runDelayQueue().  The delay (minutes) is assumed to be longer
\* than it takes to remove a peer that has stopped.
Reveal(s) ==
    /\ Running /\ delayQueue[s] > 0 /\ client[s] # "ended" /\ ended[s] = 0
    /\ delayQueue' = [delayQueue EXCEPT ![s] = @ - 1]
    /\ srvrQueue' = IF s \in srvrInfos THEN srvrQueue \cup {s} ELSE srvrQueue
    /\ UNCHANGED <<srvrInfos, mgrVars, connVars, acceptVars, peerVars>>

\* Tracker::insert() of an entry of a remote tracker or of a remote's notice
Learn(s) ==
    /\ Alive /\ s \notin srvrInfos
    /\ \/ connector = "trying" \/ acceptor = "accepting"
       \/ \E t \in Server : client[t] = "active" \/ served[t] > ended[t]
    /\ IF Inserted(s) = {}
       THEN mgr' = "aborted" /\ UNCHANGED <<srvrInfos, srvrQueue>>
       ELSE /\ \E new \in Inserted(s) : /\ srvrInfos' = new.infos
                                        /\ srvrQueue' = new.queue
            /\ UNCHANGED mgr
    /\ UNCHANGED <<delayQueue, stopSem, connVars, acceptVars, peerVars>>

-----------------------------------------------------------------------------
(* connectPeers() *)

NeedsClient == numClntPeers < MaxClnt

WantClient ==
    /\ connector = "waiting" /\ Running /\ NeedsClient
    /\ connector' = "taking"
    /\ UNCHANGED <<trackerVars, mgrVars, trying, acceptVars, peerVars>>

\* Mutant of Interruptible: tracker.halt() isn't called
InterruptibleWaiting == {"waiting"}

\* Where a stop finds the connector: stateCond and queueCond are notified
Interruptible == {"waiting", "taking"}

ConnectorDone ==
    /\ connector \in Interruptible /\ mgr = "stopping"
    /\ connector' = "done"
    /\ UNCHANGED <<trackerVars, mgrVars, trying, acceptVars, peerVars>>

\* getNextAddr(); connecting to oneself is useless
Take(s) ==
    /\ connector = "taking" /\ Running /\ s \in srvrQueue
    /\ srvrQueue' = srvrQueue \ {s}
    /\ IF s = Self
       THEN /\ srvrInfos' = srvrInfos \ {s}
            /\ connector' = "waiting"
            /\ UNCHANGED trying
       ELSE /\ connector' = "trying"
            /\ trying' = s
            /\ UNCHANGED srvrInfos
    /\ UNCHANGED <<delayQueue, mgrVars, acceptVars, peerVars>>

Tried(next) ==
    /\ Alive /\ connector = "trying"
    /\ connector' = next
    /\ trying' = NoServer

\* asyncConnect() failed for the last transport: a RuntimeError, which
\* connectPeers() doesn't expect.  So does any other unexpected exception.
ConnectorThrows ==
    /\ Tried("done")
    /\ stopSem' = TRUE
    /\ UNCHANGED <<trackerVars, mgr, acceptVars, peerVars>>

\* asyncConnect() failed for another transport: the exception destroys threads
\* that are joinable
ConnectTerminates ==
    /\ Tried("done")
    /\ mgr' = "aborted"
    /\ UNCHANGED <<trackerVars, stopSem, acceptVars, peerVars>>

\* A SystemError says that the server is unavailable: its entry is erased.  The
\* comparator of the queue asserts that what is erased has an entry.
Unavailable ==
    /\ Tried("waiting")
    /\ IF trying \in srvrInfos \/ srvrQueue = {}
       THEN /\ srvrInfos' = srvrInfos \ {trying}
            /\ srvrQueue' = srvrQueue \ {trying}
            /\ UNCHANGED mgr
       ELSE mgr' = "aborted" /\ UNCHANGED <<srvrInfos, srvrQueue>>
    /\ UNCHANGED <<delayQueue, stopSem, acceptVars, peerVars>>

\* createPeer() returned nothing: the connection was lost before server
\* information was exchanged,
Refused ==
    /\ Tried("waiting")
    /\ Disconnected(trying)
    /\ UNCHANGED <<srvrInfos, mgrVars, acceptVars, peerVars>>

\* or the information was inserted, but the server is full, has no path to the
\* publisher or was lost after all
Unsuitable ==
    /\ Tried("waiting")
    /\ IF Inserted(trying) = {}
       THEN mgr' = "aborted" /\ UNCHANGED trackerVars
       ELSE /\ delayQueue[trying] < MaxDelayed
            /\ \E new \in Inserted(trying) :
                  /\ srvrInfos' = new.infos
                  /\ srvrQueue' = new.queue \ {trying}
            /\ delayQueue' = Delayed(trying)
            /\ UNCHANGED mgr
    /\ UNCHANGED <<stopSem, acceptVars, peerVars>>

\* A peer was created.  addPeer() asserts that the bookkeeper doesn't have its
\* remote address and refuses to add it to a manager that is stopping.
Joined ==
    /\ Alive /\ connector = "trying"
    /\ LET s == trying
           failed == Inserted(s) = {} \/ (Running /\ client[s] # "none")
       IN  /\ IF Inserted(s) = {}
              THEN UNCHANGED <<srvrInfos, srvrQueue>>
              ELSE \E new \in Inserted(s) : /\ srvrInfos' = new.infos
                                            /\ srvrQueue' = new.queue
           /\ mgr' = IF failed THEN "aborted" ELSE mgr
           /\ IF Running /\ ~failed
              THEN /\ client' = [client EXCEPT ![s] = "active"]
                   /\ numClntPeers' = numClntPeers + 1
              ELSE UNCHANGED <<client, numClntPeers>>
    /\ connector' = IF Running THEN "waiting" ELSE "done"
    /\ stopSem' = (stopSem \/ ~Running)
    /\ trying' = NoServer
    /\ UNCHANGED <<delayQueue, acceptVars, served, ended, numSrvrPeers>>

-----------------------------------------------------------------------------
(* acceptPeers() and acceptSocks() *)

\* Mutant of NeedsServed
NeedsServedWhenFull == numSrvrPeers <= MaxSrvr

NeedsServed == numSrvrPeers < MaxSrvr

WantServed ==
    /\ acceptor = "waiting" /\ Running /\ NeedsServed
    /\ acceptor' = "accepting"
    /\ UNCHANGED <<trackerVars, mgrVars, connVars, listener, peerVars>>

\* The state is STOPPING, or the queue of accepted connections ends
AcceptorDone ==
    /\ mgr = "stopping"
    /\ \/ acceptor = "waiting"
       \/ acceptor = "accepting" /\ listener = "halted"
    /\ acceptor' = "done"
    /\ UNCHANGED <<trackerVars, mgrVars, connVars, listener, peerVars>>

Accepting == Alive /\ acceptor = "accepting" /\ listener = "listening"

\* The exchange of server information failed: Peer::create() returns nothing, as
\* P2pSrvr::accept() does when the server is halted
HandshakeFails ==
    /\ Accepting
    /\ acceptor' = "done"
    /\ UNCHANGED <<trackerVars, mgrVars, connVars, listener, peerVars>>

\* The exchange of trackers failed with an exception
AcceptorThrows ==
    /\ Accepting
    /\ acceptor' = "done"
    /\ stopSem' = TRUE
    /\ UNCHANGED <<trackerVars, mgr, connVars, listener, peerVars>>

\* A connection from server s's node.  If its tracker can't be exchanged or the
\* manager is stopping, only the information on the server is kept.
Accepted(s) ==
    /\ Accepting /\ s # Self
    /\ IF Inserted(s) = {}
       THEN mgr' = "aborted" /\ UNCHANGED <<srvrInfos, srvrQueue>>
       ELSE /\ \E new \in Inserted(s) : /\ srvrInfos' = new.infos
                                        /\ srvrQueue' = new.queue
            /\ UNCHANGED mgr
    /\ \/ /\ Running /\ Inserted(s) # {}
          /\ served' = [served EXCEPT ![s] = @ + 1]
          /\ numSrvrPeers' = numSrvrPeers + 1
       \/ UNCHANGED <<served, numSrvrPeers>>
    /\ acceptor' = "waiting"
    /\ UNCHANGED <<delayQueue, stopSem, connVars, listener, client, ended,
                   numClntPeers>>

\* srvrSock.shutdown() makes acceptSocks() leave an empty connection in the queue
ListenerHalts ==
    /\ mgr = "stopping" /\ listener = "listening"
    /\ listener' = "halted"
    /\ UNCHANGED <<trackerVars, mgrVars, connVars, acceptor, peerVars>>

\* acceptSocks() logs whatever is thrown and returns
ListenerFails ==
    /\ Alive \/ mgr = "init"
    /\ listener = "listening"
    /\ listener' = "failed"
    /\ UNCHANGED <<trackerVars, mgrVars, connVars, acceptor, peerVars>>

-----------------------------------------------------------------------------
(* runPeer(): a peer loses its connection, fails, is halted by haltWorstPeer() *)
(* or by stopImpl()                                                            *)

LoseClient(s) ==
    /\ Alive /\ client[s] = "active"
    /\ client' = [client EXCEPT ![s] = "ended"]
    /\ IF Running THEN Disconnected(s) ELSE UNCHANGED <<srvrQueue, delayQueue>>
    /\ UNCHANGED <<srvrInfos, mgrVars, connVars, acceptVars, served, ended,
                   numClntPeers, numSrvrPeers>>

LoseServed(s) ==
    /\ Alive /\ served[s] > ended[s]
    /\ ended' = [ended EXCEPT ![s] = @ + 1]
    /\ IF Running THEN Disconnected(s) ELSE UNCHANGED <<srvrQueue, delayQueue>>
    /\ UNCHANGED <<srvrInfos, mgrVars, connVars, acceptVars, client, served,
                   numClntPeers, numSrvrPeers>>

\* Mutant of Uncounted: removePeer() doesn't decrement
StillCounted(n) == n

\* removePeer() doesn't decrement the counter of a manager that is stopping
Uncounted(n) == IF Running THEN n - 1 ELSE n

RemoveClient(s) ==
    /\ Alive /\ client[s] = "ended"
    /\ client' = [client EXCEPT ![s] = "none"]
    /\ numClntPeers' = Uncounted(numClntPeers)
    /\ UNCHANGED <<trackerVars, mgrVars, connVars, acceptVars, served, ended,
                   numSrvrPeers>>

RemoveServed(s) ==
    /\ Alive /\ ended[s] > 0
    /\ served' = [served EXCEPT ![s] = @ - 1]
    /\ ended' = [ended EXCEPT ![s] = @ - 1]
    /\ numSrvrPeers' = Uncounted(numSrvrPeers)
    /\ UNCHANGED <<trackerVars, mgrVars, connVars, acceptVars, client,
                   numClntPeers>>

-----------------------------------------------------------------------------
(* run() and halt() *)

\* startImpl(): the threads begin,
Start ==
    /\ mgr = "init" /\ mgr' = "running"
    /\ connector' = "waiting" /\ acceptor' = "waiting"
    /\ UNCHANGED <<trackerVars, stopSem, trying, listener, peerVars>>

\* or one can't be created: the state is STOPPING from then on, and the destructor, which
\* asserts INIT or STOPPED, or the threads that are joinable terminate the process
StartFails ==
    /\ mgr = "init" /\ mgr' = "aborted"
    /\ UNCHANGED <<trackerVars, stopSem, connVars, acceptVars, peerVars>>

Halt ==
    /\ mgr \in {"init", "running"} /\ ~stopSem
    /\ stopSem' = TRUE
    /\ UNCHANGED <<trackerVars, mgr, connVars, acceptVars, peerVars>>

\* stopThreads() sets the state,
BeginStop ==
    /\ Running /\ stopSem
    /\ mgr' = "stopping"
    /\ UNCHANGED <<trackerVars, stopSem, connVars, acceptVars, peerVars>>

\* joins the threads; then the peers are halted,
HaltPeers ==
    /\ mgr = "stopping" /\ connector = "done" /\ acceptor = "done"
    /\ mgr' = "halting"
    /\ UNCHANGED <<trackerVars, stopSem, connVars, acceptVars, peerVars>>

\* and have all been removed
Stopped ==
    /\ mgr = "halting"
    /\ \A s \in Server : client[s] = "none" /\ served[s] = 0
    /\ mgr' = "stopped"
    /\ UNCHANGED <<trackerVars, stopSem, connVars, acceptVars, peerVars>>

-----------------------------------------------------------------------------
Init ==
    /\ srvrInfos = Known
    /\ srvrQueue = Known
    /\ delayQueue = [s \in Server |-> 0]
    /\ mgr = "init"
    /\ stopSem = FALSE
    /\ connector = "unborn"
    /\ trying = NoServer
    /\ acceptor = "unborn"
    /\ listener = "listening"
    /\ client = [s \in Server |-> "none"]
    /\ served = [s \in Server |-> 0]
    /\ ended = [s \in Server |-> 0]
    /\ numClntPeers = 0
    /\ numSrvrPeers = 0

ConnectorStep ==
    \/ WantClient \/ ConnectorDone \/ ConnectorThrows \/ ConnectTerminates
    \/ Unavailable \/ Refused \/ Unsuitable \/ Joined
    \/ \E s \in Server : Take(s)

AcceptorStep ==
    \/ WantServed \/ AcceptorDone \/ HandshakeFails \/ AcceptorThrows
    \/ \E s \in Server : Accepted(s)

ManagerStep == Start \/ StartFails \/ BeginStop \/ HaltPeers \/ Stopped

Next ==
    \/ ConnectorStep \/ AcceptorStep \/ ManagerStep
    \/ ListenerHalts \/ ListenerFails \/ Halt
    \/ \E s \in Server : \/ Reveal(s) \/ Learn(s)
                         \/ LoseClient(s) \/ LoseServed(s)
                         \/ RemoveClient(s) \/ RemoveServed(s)

Spec == Init /\ [][Next]_vars

(***************************************************************************)
(* Threads run on, and a peer that stopImpl() has halted stops.  A remote  *)
(* node either goes on with a handshake or drops the connection.           *)
(***************************************************************************)
FairSpec ==
    /\ Spec
    /\ WF_vars(ConnectorStep) /\ WF_vars(AcceptorDone) /\ WF_vars(ManagerStep)
    /\ WF_vars(ListenerHalts)
    /\ \A s \in Server :
          /\ WF_vars(mgr = "halting" /\ (LoseClient(s) \/ LoseServed(s)))
          /\ WF_vars(RemoveClient(s)) /\ WF_vars(RemoveServed(s))

-----------------------------------------------------------------------------
(* What the pool satisfies *)

\* Number of peers in peerSet that were constructed client-side, server-side
Clients == Cardinality({s \in Server : client[s] # "none"})
Servings == Cardinality(UNION {{s} \X (1 .. served[s]) : s \in Server})

(***************************************************************************)
(* TypeOK: the variables have their types; the counters never exceed their *)
(* limits, though the limit is tested and the peer is added in different   *)
(* critical sections (P2pMgr.cpp, connectPeers(), acceptPeers()); and the  *)
(* tracker stays within its capacity and has an entry for every server in  *)
(* its queue, without which the queue's comparator throws (Tracker.cpp,    *)
(* assertInvariant(), tryAdd()).                                           *)
(***************************************************************************)
TypeOK ==
    /\ srvrInfos \subseteq Server /\ Cardinality(srvrInfos) <= Capacity
    /\ srvrQueue \subseteq srvrInfos
    /\ delayQueue \in [Server -> 0 .. MaxDelayed]
    /\ mgr \in MgrState /\ stopSem \in BOOLEAN
    /\ connector \in Connector /\ trying \in Server \cup {NoServer}
    /\ trying # NoServer <=> connector = "trying"
    /\ acceptor \in Acceptor /\ listener \in Listener
    /\ client \in [Server -> Client]
    /\ served \in [Server -> 0 .. MaxSrvr]
    /\ ended \in [Server -> 0 .. MaxSrvr]
    /\ \A s \in Server : ended[s] <= served[s]
    /\ numClntPeers \in 0 .. MaxClnt /\ numSrvrPeers \in 0 .. MaxSrvr

(***************************************************************************)
(* PeersAreCounted: until the manager stops, its counters of client-side   *)
(* and server-side peers are the numbers of such peers in its set, so that *)
(* the threads that wait for room neither miss any nor exceed the limit    *)
(* (P2pMgr.cpp, addPeer(), removePeer()).                                  *)
(***************************************************************************)
PeersAreCounted ==
    Running => numClntPeers = Clients /\ numSrvrPeers = Servings

(***************************************************************************)
(* NoServerForgotten: while the connector works, a server with an entry    *)
(* can be tried, will be after a delay, is being tried, or has a peer      *)
(* connected to it (Tracker.cpp, getNextAddr(), disconnected();            *)
(* P2pMgr.cpp, connectPeers(), runPeer()).                                 *)
(***************************************************************************)
NoServerForgotten ==
    Running /\ connector # "done" =>
       \A s \in srvrInfos : \/ s \in srvrQueue \/ delayQueue[s] > 0
                            \/ trying = s \/ client[s] = "active"

(***************************************************************************)
(* PoolIsWhole: the pool neither loses room for peers nor servers to try.  *)
(***************************************************************************)
PoolIsWhole == PeersAreCounted /\ NoServerForgotten

(***************************************************************************)
(* StopReturns: a manager that has begun to stop comes to the end of run() *)
(* unless the listener has failed, whose end acceptPeers() isn't told of   *)
(* (P2pMgr.cpp, stopThreads(), stopImpl(); PeerConn.cpp, acceptSocks()).   *)
(***************************************************************************)
StopReturns ==
    mgr = "stopping" ~> \/ mgr \in {"stopped", "aborted"}
                        \/ listener = "failed"

-----------------------------------------------------------------------------
(* What the repository's comments and assertions say and the code doesn't do *)

(***************************************************************************)
(* AcceptsUntilHalted: the thread that accepts peers ends only if the      *)
(* server is halted ("`p2pSrvr->halt()` was called", P2pMgr.cpp:325) or    *)
(* its exception stops the manager.  A failed handshake ends it too.       *)
(***************************************************************************)
AcceptsUntilHalted == Running /\ acceptor = "done" => stopSem

(***************************************************************************)
(* ConnectsOnce: the connector doesn't try a server that it is connected   *)
(* to; addPeer() asserts that such a peer is new to the bookkeeper         *)
(* (P2pMgr.cpp:99).  The loss of the peer that the server's node connected *)
(* makes the server a candidate again.                                     *)
(***************************************************************************)
ConnectsOnce == trying # NoServer => client[trying] = "none"

=============================================================================
