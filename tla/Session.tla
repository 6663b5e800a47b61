------------------------------- MODULE Session -------------------------------
(***************************************************************************)
(* The publisher's program (publish.cpp), the subscribers' (subscribe.cpp) *)
(* and the node (NodeImpl and its subclasses) in each of them: how threads *)
(* are started, stopped and joined, how the failure of one of them becomes *)
(* the end of a session or of the program, how termination signals are     *)
(* handled, and how the publisher's server admits and answers subscribers  *)
(* and anybody else who connects to it.                                    *)
(*                                                                         *)
(* A node's components are only seen as threads: that they end when they   *)
(* are halted is what their own modules are about.  A connection to the    *)
(* publisher's server is a number, in the order in which they are made.    *)
(***************************************************************************)
EXTENDS Naturals, Sequences, FiniteSets, SequencesExt

CONSTANTS
    Pub,         \* the publisher's program
    Sub,         \* subscribers' programs
    Client,      \* other programs that connect to the publisher's server
    HasDisposer, \* subscribers' disposeConfig isn't empty
    MaxThreads,  \* Counter::max of numSubThreads
    MaxConns,    \* bound: number of connections to the publisher's server
    MaxFails,    \* bound: number of threads that fail
    MaxSignals   \* bound: number of termination signals

ASSUME ProgAssumption == Pub \notin Sub /\ (Sub \cup {Pub}) \cap Client = {}
ASSUME BoundAssumption ==
    /\ HasDisposer \in BOOLEAN /\ MaxThreads \in Nat \ {0} /\ MaxConns \in Nat
    /\ MaxFails \in Nat /\ MaxSignals \in Nat

VARIABLES
    main,     \* main thread of each program
    node,     \* NodeImpl::run() of each program
    toStart,  \* node's threads to be started
    toStop,   \* node's threads to be stopped if they are joinable
    comp,     \* node's threads: p2pThread, senderThread, mcastThread, disposeThread
    nodeSem,  \* NodeImpl::stopSem
    nodeEx,   \* NodeImpl::threadEx: the kind of exception, or "none"
    done,     \* a subscriber's done
    errno,    \* a subscriber's errno says that a connection was refused
    pubSem,   \* publisher's stopSem
    pubEx,    \* publisher's threadEx is set
    server,   \* publisher's thread runServer()
    threads,  \* Counter::count of numSubThreads
    queue,    \* connections that the publisher's server can accept
    request,  \* threads runSubRequest(), by connection
    peer,     \* the remote program of each connection
    end,      \* what that program did with its end
    told,     \* connections with subscription information that wasn't read
    failed,   \* history: a thread of the publisher failed
    fails,    \* number of failures
    signals   \* number of signals

nodeVars == <<node, toStart, toStop, comp, nodeSem, nodeEx>>
srvrVars == <<server, threads, queue, request>>
connVars == <<peer, end, told>>
pubVars  == <<pubSem, pubEx>>
histVars == <<failed, fails, signals>>
vars == <<main, nodeVars, done, errno, pubVars, srvrVars, connVars, histVars>>

Prog == Sub \cup {Pub}
Conn == 1 .. Len(peer)

\* startThreads()
StartOrder(p) == IF p = Pub THEN <<"p2p", "sender">>
                 ELSE IF HasDisposer THEN <<"dispose", "p2p", "mcast">>
                 ELSE <<"p2p", "mcast">>

\* Mutant of SubStopOrder
KeepsDisposer == <<"mcast", "p2p">>

\* stopThreads()
PubStopOrder == <<"sender", "p2p">>
SubStopOrder == <<"mcast", "p2p", "dispose">>
StopOrder(p) == IF p = Pub THEN PubStopOrder ELSE SubStopOrder

Threads(p)  == IF p = Pub THEN {"p2p", "sender"} ELSE {"dispose", "p2p", "mcast"}
NoThread(p) == [c \in Threads(p) |-> "off"]
First(old, new) == IF old = "none" THEN new ELSE old    \* ThreadEx::set()

Exited  == {"exit0", "exit2"}
Died    == {"aborted", "crashed"}
PubUp   == main[Pub] \notin Exited \cup Died

-----------------------------------------------------------------------------
(* The node: NodeImpl::run() and its threads *)

\* After the last one, run() waits for the semaphore
StartThread(p) ==
    /\ node[p] = "starting"
    /\ comp' = [comp EXCEPT ![p][Head(toStart[p])] = "running"]
    /\ toStart' = [toStart EXCEPT ![p] = Tail(@)]
    /\ node' = [node EXCEPT ![p] = IF Len(toStart[p]) = 1 THEN "waiting" ELSE @]
    /\ UNCHANGED <<main, toStop, nodeSem, nodeEx, done, errno, pubVars, srvrVars,
                   connVars, histVars>>

\* A thread can't be created: those that were are stopped before the exception is thrown
StartFails(p) ==
    /\ node[p] = "starting" /\ fails < MaxFails
    /\ node' = [node EXCEPT ![p] = "stopping"]
    /\ toStart' = [toStart EXCEPT ![p] = <<>>]
    /\ toStop' = [toStop EXCEPT ![p] = StopOrder(p)]
    /\ nodeEx' = [nodeEx EXCEPT ![p] = IF p = Pub THEN "other" ELSE "runtime"]
    /\ failed' = (failed \/ p = Pub) /\ fails' = fails + 1
    /\ UNCHANGED <<main, comp, nodeSem, done, errno, pubVars, srvrVars, connVars,
                   signals>>

\* sem_wait() returns because of a post
WaitReturns(p) ==
    /\ node[p] = "waiting" /\ nodeSem[p] > 0
    /\ node' = [node EXCEPT ![p] = "stopping"]
    /\ nodeSem' = [nodeSem EXCEPT ![p] = @ - 1]
    /\ toStop' = [toStop EXCEPT ![p] = StopOrder(p)]
    /\ UNCHANGED <<main, toStart, comp, nodeEx, done, errno, pubVars, srvrVars,
                   connVars, histVars>>

\* Each thread is told to halt and joined before the next one: it returns because of
\* that, or it failed before that.  One that isn't joinable is left as it is.
StopThread(p) ==
    /\ node[p] = "stopping" /\ toStop[p] # <<>>
    /\ comp' = [comp EXCEPT ![p][Head(toStop[p])] = "off"]
    /\ toStop' = [toStop EXCEPT ![p] = Tail(@)]
    /\ UNCHANGED <<main, node, toStart, nodeSem, nodeEx, done, errno, pubVars, srvrVars,
                   connVars, histVars>>

\* run() ends, with the first exception of its threads if there is one; the
\* publisher's runNode() passes it on
Run(p) ==
    /\ node[p] = "stopping" /\ toStop[p] = <<>>
    /\ node' = [node EXCEPT ![p] = "ended"]
    /\ IF p = Pub /\ nodeEx[p] # "none"
       THEN pubEx' = TRUE /\ pubSem' = pubSem + 1
       ELSE UNCHANGED pubVars
    /\ UNCHANGED <<main, toStart, toStop, comp, nodeSem, nodeEx, done, errno,
                   srvrVars, connVars, histVars>>

\* Mutant of Posted
NotPosted(n) == n

\* sem_post()
Posted(n) == n + 1

\* What becomes of a program depends on the kind of exception only in a subscriber
Kinds(p) == IF p = Pub THEN {"other"} ELSE {"runtime", "other"}

\* A component throws, and setException() is called
Fail(p, c) ==
    /\ comp[p][c] = "running" /\ fails < MaxFails
    /\ comp' = [comp EXCEPT ![p][c] = "ended"]
    /\ \E kind \in Kinds(p) :
           nodeEx' = [nodeEx EXCEPT ![p] = First(@, kind)]
    /\ nodeSem' = [nodeSem EXCEPT ![p] = Posted(@)]
    /\ failed' = (failed \/ p = Pub) /\ fails' = fails + 1
    /\ UNCHANGED <<main, node, toStart, toStop, done, errno, pubVars, srvrVars,
                   connVars, signals>>

-----------------------------------------------------------------------------
(* The publisher's main thread *)

\* What ends with the publisher's program, s being how it ends
PubEnds(s) ==
    /\ main' = [main EXCEPT ![Pub] = s]
    /\ server' = "ended" /\ queue' = <<>> /\ threads' = 0
    /\ request' = [i \in Conn |-> "none"]

\* The node exists only now, after the server's thread was started
CreatePubNode ==
    /\ main[Pub] = "creating"
    /\ main' = [main EXCEPT ![Pub] = "created"]
    /\ UNCHANGED <<nodeVars, done, errno, pubVars, srvrVars, connVars, histVars>>

\* PubNode::create() throws: serverThread is destroyed although it is joinable
CreatePubNodeFails ==
    /\ main[Pub] = "creating" /\ fails < MaxFails
    /\ fails' = fails + 1 /\ failed' = TRUE
    /\ PubEnds("aborted")
    /\ UNCHANGED <<nodeVars, done, errno, pubVars, connVars, signals>>

\* sem_init() and setSigHandling(); then the node's thread is started
InitSem ==
    /\ main[Pub] = "created"
    /\ main' = [main EXCEPT ![Pub] = "waiting"]
    /\ pubSem' = 0
    /\ node' = [node EXCEPT ![Pub] = "starting"]
    /\ toStart' = [toStart EXCEPT ![Pub] = StartOrder(Pub)]
    /\ UNCHANGED <<toStop, comp, nodeSem, nodeEx, done, errno, pubEx, srvrVars,
                   connVars, histVars>>

\* A signal before setSigHandling() ends the program; one after that is a post
SignalPub ==
    /\ PubUp /\ signals < MaxSignals
    /\ signals' = signals + 1
    /\ IF main[Pub] \in {"creating", "created"}
       THEN PubEnds("aborted") /\ UNCHANGED pubSem
       ELSE pubSem' = pubSem + 1 /\ UNCHANGED <<main, srvrVars>>
    /\ UNCHANGED <<nodeVars, done, errno, pubEx, connVars, failed, fails>>

\* sem_wait() returns, the server's thread is cancelled and the node halted
HaltNode ==
    /\ main[Pub] = "waiting" /\ pubSem > 0
    /\ main' = [main EXCEPT ![Pub] = "halting"]
    /\ pubSem' = pubSem - 1
    /\ nodeSem' = [nodeSem EXCEPT ![Pub] = IF @ < 1 THEN Posted(@) ELSE @]
    /\ UNCHANGED <<node, toStart, toStop, comp, nodeEx, done, errno, pubEx,
                   srvrVars, connVars, histVars>>

\* Mutant of NodeIsJoined
NodeIsLeft == TRUE

\* nodeThread.join()
NodeIsJoined == node[Pub] = "ended"

\* Both threads are joined, and their exception decides about the exit status
ExitPub ==
    /\ main[Pub] = "halting" /\ server = "ended" /\ NodeIsJoined
    /\ PubEnds(IF pubEx THEN "exit2" ELSE "exit0")
    /\ UNCHANGED <<nodeVars, done, errno, pubVars, connVars, histVars>>

-----------------------------------------------------------------------------
(* The publisher's server: runServer() and runSubRequest() *)

Listening == server \in {"counting", "accepting"}

Listen ==
    /\ server = "starting"
    /\ server' = "counting"
    /\ UNCHANGED <<main, nodeVars, done, errno, pubVars, threads, queue, request, connVars,
                   histVars>>

\* Mutant of CanInc
CanIncTwice == threads <= MaxThreads

CanInc == threads < MaxThreads

WaitToInc ==
    /\ server = "counting" /\ CanInc
    /\ server' = "accepting"
    /\ threads' = threads + 1
    /\ UNCHANGED <<main, nodeVars, done, errno, pubVars, queue, request, connVars, histVars>>

\* accept(), and a thread for the request
AcceptConn ==
    /\ server = "accepting" /\ queue # <<>>
    /\ server' = "counting"
    /\ queue' = Tail(queue)
    /\ request' = [request EXCEPT ![Head(queue)] = "reading"]
    /\ UNCHANGED <<main, nodeVars, done, errno, pubVars, threads, connVars, histVars>>

\* The server's socket can't be made or fails, or a thread can't be created.  Until
\* sem_init() the post of setException() has no effect that lasts.
ServerFails ==
    /\ server \in {"starting", "accepting"} /\ PubUp /\ fails < MaxFails
    /\ server' = "ended" /\ queue' = <<>>
    /\ pubEx' = TRUE /\ pubSem' = pubSem + 1
    /\ fails' = fails + 1 /\ failed' = TRUE
    /\ UNCHANGED <<main, nodeVars, done, errno, threads, request, connVars, signals>>

\* pthread_cancel(), once the thread waits
ServerCancelled ==
    /\ main[Pub] = "halting" /\ Listening
    /\ server' = "ended" /\ queue' = <<>>
    /\ UNCHANGED <<main, nodeVars, done, errno, pubVars, threads, request, connVars,
                   histVars>>

\* What the remote program sent is read; then pubNode, which may not exist yet
ReadRequest(i) ==
    /\ request[i] = "reading" /\ end[i] = "sent"
    /\ IF main[Pub] = "creating"
       THEN PubEnds("crashed")
       ELSE /\ request' = [request EXCEPT ![i] = "writing"]
            /\ UNCHANGED <<main, server, threads, queue>>
    /\ UNCHANGED <<nodeVars, done, errno, pubVars, connVars, histVars>>

Reply(i) ==
    /\ request[i] = "writing" /\ end[i] = "sent"
    /\ request' = [request EXCEPT ![i] = "none"]
    /\ told' = told \cup {i}
    /\ threads' = threads - 1
    /\ UNCHANGED <<main, nodeVars, done, errno, pubVars, server, queue, peer, end, histVars>>

\* Mutant of AfterFailure
NotDecremented(n) == n

\* --numSubThreads in the handler of an exception
AfterFailure(n) == n - 1

\* The connection was closed by the remote program
RequestFails(i) ==
    /\ request[i] \in {"reading", "writing"} /\ end[i] = "closed"
    /\ request' = [request EXCEPT ![i] = "none"]
    /\ threads' = AfterFailure(threads)
    /\ UNCHANGED <<main, nodeVars, done, errno, pubVars, server, queue, connVars, histVars>>

-----------------------------------------------------------------------------
(* Programs that aren't subscribers: they connect, say nothing, and may leave *)

Connected(x, e) ==
    /\ Listening /\ Len(peer) < MaxConns
    /\ peer' = Append(peer, x)
    /\ end' = Append(end, e)
    /\ queue' = Append(queue, Len(peer) + 1)
    /\ request' = Append(request, "none")

Open(x) == \E i \in Conn : peer[i] = x /\ end[i] # "closed"
Close(x) == end' = [i \in Conn |-> IF peer[i] = x THEN "closed" ELSE end[i]]

Visit(x) ==
    /\ ~Open(x) /\ Connected(x, "silent")
    /\ UNCHANGED <<main, nodeVars, done, errno, pubVars, server, threads, told, histVars>>

\* It matters only while the publisher has to do with the connection
Leave(x) ==
    /\ \E i \in Conn : /\ peer[i] = x /\ end[i] # "closed"
                      /\ (request[i] # "none" \/ i \in ToSet(queue))
    /\ Close(x)
    /\ UNCHANGED <<main, nodeVars, done, errno, pubVars, srvrVars, peer, told, histVars>>

-----------------------------------------------------------------------------
(* A subscriber's main thread *)

\* The end of a turn of main()'s loop: it sleeps unless done is set
AfterTurn(s) == IF done[s] THEN "exit0" ELSE "sleeping"

\* connect() looks at errno although it succeeded: whether a refusal of an earlier
\* turn is still there depends on the calls in between
Subscribe(s) ==
    /\ main[s] = "subscribing"
    /\ \/ /\ Connected(s, "sent")
          /\ main' = [main EXCEPT ![s] = "reading"]
          /\ UNCHANGED errno
       \/ /\ errno[s] /\ Listening
          /\ main' = [main EXCEPT ![s] = AfterTurn(s)]
          /\ UNCHANGED <<peer, end, queue, request, errno>>
       \/ /\ ~Listening
          /\ main' = [main EXCEPT ![s] = AfterTurn(s)]
          /\ errno' = [errno EXCEPT ![s] = TRUE]
          /\ UNCHANGED <<peer, end, queue, request>>
    /\ UNCHANGED <<nodeVars, done, pubVars, server, threads, told, histVars>>

\* The subscriber's connection
ConnOf(s) == CHOOSE i \in Conn : peer[i] = s /\ end[i] # "closed"

\* Subscription information is read, and the connection closed
BeTold(s) ==
    /\ main[s] = "reading" /\ ConnOf(s) \in told
    /\ main' = [main EXCEPT ![s] = "creating"]
    /\ Close(s)
    /\ told' = told \ {ConnOf(s)}
    /\ UNCHANGED <<nodeVars, done, errno, pubVars, srvrVars, peer, histVars>>

\* The publisher closed the connection
LoseConn(s) ==
    LET i == ConnOf(s)
    IN  /\ main[s] = "reading" /\ i \notin told
        /\ request[i] = "none" /\ i \notin ToSet(queue)
        /\ main' = [main EXCEPT ![s] = AfterTurn(s)]
        /\ Close(s)
        /\ UNCHANGED <<nodeVars, done, errno, pubVars, srvrVars, peer, told, histVars>>

CreateSubNode(s) ==
    /\ main[s] = "creating"
    /\ main' = [main EXCEPT ![s] = "running"]
    /\ node' = [node EXCEPT ![s] = "starting"]
    /\ toStart' = [toStart EXCEPT ![s] = StartOrder(s)]
    /\ UNCHANGED <<toStop, comp, nodeSem, nodeEx, done, errno, pubVars, srvrVars,
                   connVars, histVars>>

\* The constructor of SubNode throws: only a RuntimeError is followed by another turn
CreateSubNodeFails(s) ==
    /\ main[s] = "creating" /\ fails < MaxFails
    /\ fails' = fails + 1
    /\ \E next \in {AfterTurn(s), "exit2"} : main' = [main EXCEPT ![s] = next]
    /\ UNCHANGED <<nodeVars, done, errno, pubVars, srvrVars, connVars, failed, signals>>

\* A new node has a semaphore of its own and no exception.
Renewed(s) == nodeSem' = [nodeSem EXCEPT ![s] = 0] /\ nodeEx' = [nodeEx EXCEPT ![s] = "none"]

\* trySession() ends with the node's run(), and the node with it: its threads are joined by then.
EndSession(s) ==
    /\ main[s] = "running" /\ node[s] = "ended"
    /\ main' = [main EXCEPT ![s] = IF nodeEx[s] = "other" THEN "exit2" ELSE AfterTurn(s)]
    /\ node' = [node EXCEPT ![s] = "off"]
    /\ Renewed(s)
    /\ UNCHANGED <<toStart, toStop, comp, done, errno, pubVars, srvrVars, connVars,
                   histVars>>

WakeUp(s) ==
    /\ main[s] = "sleeping"
    /\ main' = [main EXCEPT ![s] = IF done[s] THEN "exit0" ELSE "subscribing"]
    /\ UNCHANGED <<nodeVars, done, errno, pubVars, srvrVars, connVars, histVars>>

\* The signal is handled by the main thread: it ends a wait for the node's semaphore;
\* a read of the subscription information fails with a SystemError
SignalSub(s) ==
    /\ main[s] \notin Exited /\ signals < MaxSignals
    /\ signals' = signals + 1
    /\ done' = [done EXCEPT ![s] = TRUE]
    /\ IF main[s] = "running" /\ node[s] = "waiting"
       THEN /\ node' = [node EXCEPT ![s] = "stopping"]
            /\ toStop' = [toStop EXCEPT ![s] = StopOrder(s)]
       ELSE UNCHANGED <<node, toStop>>
    /\ IF main[s] = "reading"
       THEN main' = [main EXCEPT ![s] = "exit2"] /\ Close(s)
       ELSE UNCHANGED <<main, end>>
    /\ UNCHANGED <<toStart, comp, nodeSem, nodeEx, errno, pubVars, srvrVars, peer,
                   told, failed, fails>>

-----------------------------------------------------------------------------
Init ==
    /\ main = [p \in Prog |-> IF p = Pub THEN "creating" ELSE "subscribing"]
    /\ node = [p \in Prog |-> "off"]
    /\ toStart = [p \in Prog |-> <<>>] /\ toStop = [p \in Prog |-> <<>>]
    /\ comp = [p \in Prog |-> NoThread(p)]
    /\ nodeSem = [p \in Prog |-> 0] /\ nodeEx = [p \in Prog |-> "none"]
    /\ done = [s \in Sub |-> FALSE] /\ errno = [s \in Sub |-> FALSE]
    /\ pubSem = 0 /\ pubEx = FALSE
    /\ server = "starting" /\ threads = 0 /\ queue = <<>> /\ request = <<>>
    /\ peer = <<>> /\ end = <<>> /\ told = {}
    /\ failed = FALSE /\ fails = 0 /\ signals = 0

\* The threads of a node, and the one that runs it, while the program does
Up(p) == p # Pub \/ PubUp
RunNode(p) == Up(p) /\ (StartThread(p) \/ WaitReturns(p) \/ StopThread(p) \/ Run(p))
PubMain  == CreatePubNode \/ InitSem \/ HaltNode \/ ExitPub
Server   == Listen \/ WaitToInc \/ AcceptConn \/ ServerCancelled
Request(i) == ReadRequest(i) \/ Reply(i) \/ RequestFails(i)
SubMain(s) == Subscribe(s) \/ BeTold(s) \/ LoseConn(s) \/ CreateSubNode(s)
                \/ EndSession(s) \/ WakeUp(s)

Next ==
    \/ \E p \in Prog : RunNode(p) \/ (Up(p) /\ StartFails(p))
    \/ \E p \in Prog : \E c \in Threads(p) : Up(p) /\ Fail(p, c)
    \/ PubMain \/ CreatePubNodeFails \/ SignalPub
    \/ Server \/ ServerFails
    \/ \E i \in Conn : Request(i)
    \/ \E x \in Client : Visit(x) \/ Leave(x)
    \/ \E s \in Sub : SubMain(s) \/ CreateSubNodeFails(s) \/ SignalSub(s)

\* Each thread that can do something does it in the end
Fairness ==
    /\ \A p \in Prog : WF_vars(RunNode(p))
    /\ WF_vars(PubMain) /\ WF_vars(Server)
    /\ \A i \in 1 .. MaxConns : WF_vars(i \in Conn /\ Request(i))
    /\ \A s \in Sub : WF_vars(SubMain(s))

Spec == Init /\ [][Next]_vars /\ Fairness

-----------------------------------------------------------------------------
TypeOK ==
    /\ main \in [Prog -> {"creating", "created", "waiting", "halting", "aborted", "crashed",
                          "subscribing", "reading", "running", "sleeping", "exit0", "exit2"}]
    /\ node \in [Prog -> {"off", "starting", "waiting", "stopping", "ended"}]
    /\ \A p \in Prog :
           /\ comp[p] \in [Threads(p) -> {"off", "running", "ended"}]
           /\ ToSet(toStart[p]) \cup ToSet(toStop[p]) \subseteq Threads(p)
    /\ nodeSem \in [Prog -> 0 .. MaxFails + 1]
    /\ nodeEx \in [Prog -> {"none", "runtime", "other"}]
    /\ done \in [Sub -> BOOLEAN] /\ errno \in [Sub -> BOOLEAN] /\ pubEx \in BOOLEAN
    /\ pubSem \in 0 .. MaxFails + MaxSignals + 1
    /\ server \in {"starting", "counting", "accepting", "ended"}
    /\ threads \in 0 .. MaxThreads
    /\ peer \in Seq(Sub \cup Client) /\ Len(peer) <= MaxConns
    /\ request \in [Conn -> {"none", "reading", "writing"}]
    /\ end \in [Conn -> {"silent", "sent", "closed"}]
    /\ ToSet(queue) \subseteq Conn /\ told \subseteq Conn
    /\ failed \in BOOLEAN /\ fails \in 0 .. MaxFails /\ signals \in 0 .. MaxSignals

\* No thread of a node outlives it: neither a subscriber's next session nor the end of
\* a program ever meets a thread of an earlier session, whatever failed and when
\* (Node.cpp, "Stops all sub-threads").
ThreadsAreJoined ==
    \A p \in Prog :
        main[p] \in {"subscribing", "reading", "creating", "sleeping"} \cup Exited
            => comp[p] = NoThread(p)

\* The publisher exits with status 0 only if none of its threads failed, be it while
\* others were started, after a termination signal or while others were joined
\* (publish.cpp, "Throws if failure on a thread").
FailureIsReported == main[Pub] = "exit0" => ~failed

\* If a thread of a node ends, all do: a subscriber gets to another session and the
\* publisher to its exit.
FailureEndsSession ==
    \A p \in Prog :
        (\E c \in Threads(p) : comp[p][c] = "ended")
            ~> (p = Pub /\ ~PubUp) \/ comp[p] = NoThread(p)

\* A subscriber that waits for subscription information gets it or learns that it
\* can't, although others stay connected without a word or leave at any time.
EveryoneIsServed == \A s \in Sub : main[s] = "reading" ~> main[s] # "reading"

\* An exit or a new session finds all threads joined, and failures in the status.
ExitIsClean == ThreadsAreJoined /\ FailureIsReported

\* Nobody waits for ever: not for the end of a session in which a thread ended, and
\* not for subscription information.
WaitsEnd == FailureEndsSession /\ EveryoneIsServed

\* The publisher's main thread doesn't wait any longer once its server failed:
\* publish.cpp:505 says of sem_wait() that it "Returns if failure on a thread or
\* termination signal".
FailureEndsWait == pubEx ~> main[Pub] # "waiting"
=============================================================================
