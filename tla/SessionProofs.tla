--------------------------- MODULE SessionProofs ---------------------------
(***************************************************************************)
(* The safety of the programs and their nodes, for any subscribers, other  *)
(* programs and limits.  That no thread outlives its node needs what each  *)
(* phase of a node knows of its threads (PhasesOK) and each program of its *)
(* node (MainsOK).  That a failure is reported needs where it is kept      *)
(* until the program exits: in the node, in the program, or in the way in  *)
(* which the program died (FailuresAreKept).  The server's counter is at   *)
(* least the number of its threads (ThreadsAreCounted).                    *)
(***************************************************************************)
EXTENDS Session, FiniteSetTheorems, SeqLemmas

PubState == {"creating", "created", "waiting", "halting"} \cup Exited \cup Died
SubState == {"subscribing", "reading", "creating", "running", "sleeping"} \cup Exited
Phase    == {"off", "starting", "waiting", "stopping", "ended"}
Comp     == {"off", "running", "ended"}
CompSet  == UNION {[Threads(p) -> Comp] : p \in Prog}
Thread   == {"p2p", "sender", "mcast", "dispose"}

\* The node that a main thread has
MainsOK ==
    /\ main \in [Prog -> PubState \cup SubState]
    /\ main[Pub] \in PubState /\ \A s \in Sub : main[s] \in SubState
    /\ main[Pub] \in {"creating", "created"} => node[Pub] = "off"
    /\ main[Pub] \in Exited => node[Pub] = "ended"
    /\ \A s \in Sub : main[s] # "running" => node[s] = "off"

\* The threads that a node has
NodesOK ==
    /\ node \in [Prog -> Phase]
    /\ comp \in [Prog -> CompSet] /\ \A p \in Prog : comp[p] \in [Threads(p) -> Comp]
    /\ toStart \in [Prog -> Seq(Thread)] /\ \A p \in Prog : ToSet(toStart[p]) \subseteq Threads(p)
    /\ toStop \in [Prog -> Seq(Thread)] /\ \A p \in Prog : ToSet(toStop[p]) \subseteq Threads(p)

PhaseOf(p) ==
    /\ node[p] = "starting" => toStart[p] # <<>>
    /\ node[p] = "stopping" => \A c \in Threads(p) : comp[p][c] # "off" => c \in ToSet(toStop[p])
    /\ node[p] \in {"off", "ended"} => comp[p] = NoThread(p)

PhasesOK == \A p \in Prog : PhaseOf(p)

\* Every post has a reason
SemsOK ==
    /\ nodeSem \in [Prog -> Nat] /\ \A p \in Prog : nodeSem[p] <= fails + 1
    /\ pubSem \in Nat /\ pubSem <= fails + signals + (IF node[Pub] = "ended" THEN 1 ELSE 0)
    /\ fails \in 0 .. MaxFails /\ signals \in 0 .. MaxSignals

\* Where the failure of a thread of the publisher is known
FailuresAreKept ==
    /\ failed => pubEx \/ nodeEx[Pub] # "none" \/ main[Pub] \in Died
    /\ node[Pub] = "ended" /\ nodeEx[Pub] # "none" => pubEx
    /\ FailureIsReported

FlagsOK ==
    /\ nodeEx \in [Prog -> {"none", "runtime", "other"}]
    /\ done \in [Sub -> BOOLEAN] /\ errno \in [Sub -> BOOLEAN]
    /\ pubEx \in BOOLEAN /\ failed \in BOOLEAN

\* Connections
ReqState == {"none", "reading", "writing"}
EndState == {"silent", "sent", "closed"}

ConnsOK ==
    /\ peer \in Seq(Sub \cup Client) /\ Len(peer) <= MaxConns
    /\ request \in Seq(ReqState) /\ Len(request) = Len(peer)
    /\ end \in Seq(EndState) /\ Len(end) = Len(peer)
    /\ queue \in Seq(Conn) /\ told \subseteq Conn

\* The server's threads, and the one that it will start, are counted
Busy  == {i \in DOMAIN request : request[i] # "none"}
Taken == IF server = "accepting" THEN 1 ELSE 0

ServerOK ==
    /\ server \in {"starting", "counting", "accepting", "ended"}
    /\ threads \in 0 .. MaxThreads

ThreadsAreCounted == Cardinality(Busy) + Taken <= threads

IInv == /\ MainsOK /\ NodesOK /\ PhasesOK /\ SemsOK /\ FailuresAreKept /\ FlagsOK
        /\ ConnsOK /\ ServerOK /\ ThreadsAreCounted

-----------------------------------------------------------------------------
(* Steps, by the threads that take them *)

NodeStep(p) ==
    /\ Up(p)
    /\ \/ StartThread(p) \/ StartFails(p) \/ WaitReturns(p) \/ StopThread(p) \/ Run(p)
       \/ \E c \in Threads(p) : Fail(p, c)
PubStep == CreatePubNode \/ CreatePubNodeFails \/ InitSem \/ SignalPub \/ HaltNode \/ ExitPub
SrvrStep == \/ Listen \/ WaitToInc \/ AcceptConn \/ ServerFails \/ ServerCancelled
            \/ \E i \in Conn : ReadRequest(i) \/ Reply(i) \/ RequestFails(i)
VisitStep == \E x \in Client : Visit(x) \/ Leave(x)
SubStep(s) == \/ Subscribe(s) \/ BeTold(s) \/ LoseConn(s) \/ CreateSubNode(s)
              \/ CreateSubNodeFails(s) \/ EndSession(s) \/ WakeUp(s) \/ SignalSub(s)

LEMMA Steps ==
    ASSUME Next
    PROVE  \/ \E p \in Prog : NodeStep(p)
           \/ PubStep \/ SrvrStep \/ VisitStep
           \/ \E s \in Sub : SubStep(s)
<1>1. CASE \E p \in Prog : RunNode(p) \/ (Up(p) /\ StartFails(p))
    BY <1>1 DEF RunNode, NodeStep
<1>2. CASE \E p \in Prog : \E c \in Threads(p) : Up(p) /\ Fail(p, c)
    BY <1>2 DEF NodeStep
<1>3. CASE PubMain \/ CreatePubNodeFails \/ SignalPub
    BY <1>3 DEF PubMain, PubStep
<1>4. CASE Server \/ ServerFails \/ \E i \in Conn : Request(i)
    BY <1>4 DEF Server, Request, SrvrStep
<1>5. CASE \E x \in Client : Visit(x) \/ Leave(x)
    BY <1>5 DEF VisitStep
<1>6. CASE \E s \in Sub : SubMain(s) \/ CreateSubNodeFails(s) \/ SignalSub(s)
    BY <1>6 DEF SubMain, SubStep
<1>. QED BY <1>1, <1>2, <1>3, <1>4, <1>5, <1>6 DEF Next

LEMMA ProgIs == Pub \in Prog /\ Pub \notin Sub /\ Sub \subseteq Prog /\ \A p \in Prog : p = Pub \/ p \in Sub
BY ProgAssumption DEF Prog

(* The orders in which threads are started and stopped.                     *)
LEMMA OrderIs ==
    ASSUME NEW p \in Prog
    PROVE  /\ Threads(p) \subseteq Thread
           /\ StartOrder(p) \in Seq(Thread) /\ StartOrder(p) # <<>>
           /\ ToSet(StartOrder(p)) \subseteq Threads(p)
           /\ StopOrder(p) \in Seq(Thread) /\ ToSet(StopOrder(p)) = Threads(p)
<1>1. Threads(p) \subseteq Thread
    BY DEF Threads, Thread
<1>2. CASE p = Pub
    BY <1>1, <1>2 DEF StartOrder, StopOrder, PubStopOrder, Threads, Thread, ToSet
<1>3. CASE p # Pub
    <2>1. Threads(p) = {"dispose", "p2p", "mcast"}
        BY <1>3 DEF Threads
    <2>2. StopOrder(p) = <<"mcast", "p2p", "dispose">>
        BY <1>3 DEF StopOrder, SubStopOrder
    <2>3. StopOrder(p) \in Seq(Thread) /\ ToSet(StopOrder(p)) = Threads(p)
        BY <2>1, <2>2 DEF Thread, ToSet
    <2>4. CASE HasDisposer
        <3>1. StartOrder(p) = <<"dispose", "p2p", "mcast">>
            BY <1>3, <2>4 DEF StartOrder
        <3>2. /\ StartOrder(p) \in Seq(Thread) /\ StartOrder(p) # <<>>
              /\ ToSet(StartOrder(p)) \subseteq Threads(p)
            BY <2>1, <3>1 DEF Thread, ToSet
        <3>. QED BY <1>1, <2>3, <3>2
    <2>5. CASE ~HasDisposer
        <3>1. StartOrder(p) = <<"p2p", "mcast">>
            BY <1>3, <2>5 DEF StartOrder
        <3>2. /\ StartOrder(p) \in Seq(Thread) /\ StartOrder(p) # <<>>
              /\ ToSet(StartOrder(p)) \subseteq Threads(p)
            BY <2>1, <3>1 DEF Thread, ToSet
        <3>. QED BY <1>1, <2>3, <3>2
    <2>. QED BY <2>4, <2>5
<1>. QED BY <1>2, <1>3

LEMMA TailIs ==
    ASSUME NEW S, NEW s \in Seq(S), s # <<>>
    PROVE  /\ Tail(s) \in Seq(S) /\ Head(s) \in S /\ Head(s) \in ToSet(s)
           /\ ToSet(Tail(s)) \subseteq ToSet(s)
           /\ ToSet(s) \ {Head(s)} \subseteq ToSet(Tail(s))
BY TailWithout DEF Range, ToSet

LEMMA TailLeft ==
    ASSUME NEW S, NEW s \in Seq(S), s # <<>>, Len(s) # 1
    PROVE  Tail(s) # <<>>
<1>1. Len(s) \in Nat \ {0} /\ Len(Tail(s)) = Len(s) - 1
    OBVIOUS
<1>2. Len(Tail(s)) # 0 /\ Len(<<>>) = 0
    <2>1. \A n \in Nat \ {0} : n # 1 => n - 1 # 0
        OBVIOUS
    <2>2. Len(<<>>) = 0
        OBVIOUS
    <2>. QED BY <1>1, <2>1, <2>2
<1>. QED BY <1>2

-----------------------------------------------------------------------------
(* The threads of nodes *)

LEMMA NodesStep ==
    ASSUME MainsOK, NodesOK, PhasesOK, Next
    PROVE  NodesOK'
<1> USE ProgIs
<1>1. ASSUME NEW p \in Prog, NEW c \in Threads(p), NEW v \in Comp,
             comp' = [comp EXCEPT ![p][c] = v]
      PROVE  comp' \in [Prog -> CompSet] /\ \A q \in Prog : comp'[q] \in [Threads(q) -> Comp]
    <2>1. comp'[p] = [comp[p] EXCEPT ![c] = v] /\ \A q \in Prog \ {p} : comp'[q] = comp[q]
        BY <1>1 DEF NodesOK
    <2>2. \A q \in Prog : comp'[q] \in [Threads(q) -> Comp]
        BY <1>1, <2>1 DEF NodesOK
    <2>3. DOMAIN comp' = Prog /\ comp' = [q \in Prog |-> comp'[q]]
        BY <1>1 DEF NodesOK
    <2>4. \A q \in Prog : comp'[q] \in CompSet
        BY <2>2 DEF CompSet
    <2>. QED BY <2>2, <2>3, <2>4
<1>2. CASE \E p \in Prog : NodeStep(p)
    <2>1. PICK p \in Prog : NodeStep(p)
        BY <1>2
    <2>2. CASE StartThread(p)
        <3>1. toStart[p] \in Seq(Thread) /\ toStart[p] # <<>> /\ ToSet(toStart[p]) \subseteq Threads(p)
            BY <2>2 DEF StartThread, NodesOK, PhasesOK, PhaseOf
        <3>2. /\ Head(toStart[p]) \in Threads(p) /\ Tail(toStart[p]) \in Seq(Thread)
              /\ ToSet(Tail(toStart[p])) \subseteq Threads(p)
            BY <3>1, TailIs
        <3>3. comp' \in [Prog -> CompSet] /\ \A q \in Prog : comp'[q] \in [Threads(q) -> Comp]
            BY <1>1, <2>2, <3>2 DEF StartThread, Comp
        <3>4. node' \in [Prog -> Phase]
            BY <2>2 DEF StartThread, NodesOK, Phase
        <3>. QED BY <2>2, <3>2, <3>3, <3>4 DEF StartThread, NodesOK
    <2>3. CASE StartFails(p)
        <3>1. <<>> \in Seq(Thread) /\ ToSet(<<>>) = {}
            BY DEF ToSet
        <3>2. node' \in [Prog -> Phase]
            BY <2>3 DEF StartFails, NodesOK, Phase
        <3>. QED BY <2>3, <3>1, <3>2, OrderIs DEF StartFails, NodesOK
    <2>4. CASE WaitReturns(p)
        <3>1. node' \in [Prog -> Phase]
            BY <2>4 DEF WaitReturns, NodesOK, Phase
        <3>. QED BY <2>4, <3>1, OrderIs DEF WaitReturns, NodesOK
    <2>5. CASE StopThread(p)
        <3>1. toStop[p] \in Seq(Thread) /\ toStop[p] # <<>> /\ ToSet(toStop[p]) \subseteq Threads(p)
            BY <2>5 DEF StopThread, NodesOK
        <3>2. /\ Head(toStop[p]) \in Threads(p) /\ Tail(toStop[p]) \in Seq(Thread)
              /\ ToSet(Tail(toStop[p])) \subseteq Threads(p)
            BY <3>1, TailIs
        <3>3. comp' \in [Prog -> CompSet] /\ \A q \in Prog : comp'[q] \in [Threads(q) -> Comp]
            BY <1>1, <2>5, <3>2 DEF StopThread, Comp
        <3>. QED BY <2>5, <3>2, <3>3 DEF StopThread, NodesOK
    <2>6. CASE Run(p)
        BY <2>6 DEF Run, NodesOK, Phase
    <2>7. CASE \E c \in Threads(p) : Fail(p, c)
        <3>1. comp' \in [Prog -> CompSet] /\ \A q \in Prog : comp'[q] \in [Threads(q) -> Comp]
            BY <1>1, <2>7 DEF Fail, Comp
        <3>. QED BY <2>7, <3>1 DEF Fail, NodesOK
    <2>. QED BY <2>1, <2>2, <2>3, <2>4, <2>5, <2>6, <2>7 DEF NodeStep
<1>3. CASE UNCHANGED <<node, comp, toStart, toStop>>
    BY <1>3 DEF NodesOK
<1>4. CASE PubStep
    <2>1. CASE InitSem
        <3>1. node' \in [Prog -> Phase]
            BY <2>1 DEF InitSem, NodesOK, Phase
        <3>. QED BY <2>1, <3>1, OrderIs DEF InitSem, NodesOK
    <2>. QED BY <1>3, <1>4, <2>1 DEF PubStep, CreatePubNode, CreatePubNodeFails, SignalPub,
                                     HaltNode, ExitPub, nodeVars
<1>5. CASE SrvrStep
    BY <1>3, <1>5 DEF SrvrStep, Listen, WaitToInc, AcceptConn, ServerFails, ServerCancelled,
                      ReadRequest, Reply, RequestFails, nodeVars
<1>6. CASE VisitStep
    BY <1>3, <1>6 DEF VisitStep, Visit, Leave, nodeVars
<1>7. CASE \E s \in Sub : SubStep(s)
    <2>1. PICK s \in Sub : SubStep(s)
        BY <1>7
    <2>2. s \in Prog
        BY <2>1
    <2>3. CASE CreateSubNode(s)
        <3>1. node' \in [Prog -> Phase]
            BY <2>3 DEF CreateSubNode, NodesOK, Phase
        <3>. QED BY <2>2, <2>3, <3>1, OrderIs DEF CreateSubNode, NodesOK
    <2>4. CASE EndSession(s)
        BY <2>4 DEF EndSession, NodesOK, Phase
    <2>5. CASE SignalSub(s)
        <3>1. node' \in [Prog -> Phase]
            BY <2>5 DEF SignalSub, NodesOK, Phase
        <3>2. toStop' = toStop \/ toStop' = [toStop EXCEPT ![s] = StopOrder(s)]
            BY <2>5 DEF SignalSub
        <3>3. UNCHANGED <<comp, toStart>>
            BY <2>5 DEF SignalSub
        <3>. QED BY <2>2, <3>1, <3>2, <3>3, OrderIs DEF NodesOK
    <2>. QED BY <1>3, <2>1, <2>3, <2>4, <2>5
         DEF SubStep, Subscribe, BeTold, LoseConn, CreateSubNodeFails, WakeUp, nodeVars
<1>. QED BY <1>2, <1>4, <1>5, <1>6, <1>7, Steps

(* A node knows which of its threads may still run.                         *)
LEMMA PhasesStep ==
    ASSUME MainsOK, NodesOK, PhasesOK, Next
    PROVE  PhasesOK'
<1> USE ProgIs
<1>1. ASSUME NEW p \in Prog, PhaseOf(p)',
             \A q \in Prog \ {p} : /\ node'[q] = node[q] /\ comp'[q] = comp[q]
                                   /\ toStart'[q] = toStart[q] /\ toStop'[q] = toStop[q]
      PROVE  PhasesOK'
    BY <1>1 DEF PhasesOK, PhaseOf
<1>2. CASE \E p \in Prog : NodeStep(p)
    <2>1. PICK p \in Prog : NodeStep(p)
        BY <1>2
    <2>2. PhaseOf(p) /\ comp[p] \in [Threads(p) -> Comp]
        BY DEF PhasesOK, NodesOK
    <2>3. CASE StartThread(p)
        <3>1. toStart[p] \in Seq(Thread) /\ toStart[p] # <<>>
            BY <2>2, <2>3 DEF StartThread, PhaseOf, NodesOK
        <3>2. Len(toStart[p]) # 1 => Tail(toStart[p]) # <<>>
            BY <3>1, TailLeft
        <3>3. node'[p] \in {"starting", "waiting"} /\ (node'[p] = "starting" => toStart'[p] # <<>>)
            BY <2>3, <3>2 DEF StartThread, NodesOK
        <3>4. PhaseOf(p)'
            BY <3>3 DEF PhaseOf
        <3>. QED BY <1>1, <2>3, <3>4 DEF StartThread, NodesOK
    <2>4. CASE StartFails(p)
        <3>1. PhaseOf(p)'
            BY <2>4, OrderIs DEF StartFails, PhaseOf, NodesOK
        <3>. QED BY <1>1, <2>4, <3>1 DEF StartFails, NodesOK
    <2>5. CASE WaitReturns(p)
        <3>1. PhaseOf(p)'
            BY <2>5, OrderIs DEF WaitReturns, PhaseOf, NodesOK
        <3>. QED BY <1>1, <2>5, <3>1 DEF WaitReturns, NodesOK
    <2>6. CASE StopThread(p)
        <3> DEFINE h == Head(toStop[p])
        <3>1. toStop[p] \in Seq(Thread) /\ toStop[p] # <<>>
            BY <2>6 DEF StopThread, NodesOK
        <3>2. ToSet(toStop[p]) \ {h} \subseteq ToSet(Tail(toStop[p]))
            BY <3>1, TailIs
        <3>3. /\ comp'[p] = [comp[p] EXCEPT ![h] = "off"] /\ node'[p] = "stopping"
              /\ toStop'[p] = Tail(toStop[p])
            BY <2>6 DEF StopThread, NodesOK
        <3>4. ASSUME NEW c \in Threads(p), comp'[p][c] # "off"
              PROVE  c \in ToSet(toStop'[p])
            <4>1. c # h /\ comp[p][c] # "off"
                BY <2>2, <3>3, <3>4
            <4>2. c \in ToSet(toStop[p])
                BY <2>2, <2>6, <4>1 DEF PhaseOf, StopThread
            <4>. QED BY <3>2, <3>3, <4>1, <4>2
        <3>5. PhaseOf(p)'
            BY <3>3, <3>4 DEF PhaseOf
        <3>. QED BY <1>1, <2>6, <3>5 DEF StopThread, NodesOK
    <2>7. CASE Run(p)
        <3>1. \A c \in Threads(p) : comp[p][c] = "off"
            BY <2>2, <2>7 DEF Run, PhaseOf, ToSet
        <3>2. comp[p] = NoThread(p)
            BY <2>2, <3>1 DEF NoThread
        <3>3. PhaseOf(p)'
            BY <2>7, <3>2 DEF Run, PhaseOf, NodesOK, NoThread
        <3>. QED BY <1>1, <2>7, <3>3 DEF Run, NodesOK
    <2>8. CASE \E c \in Threads(p) : Fail(p, c)
        <3>1. PICK c \in Threads(p) : Fail(p, c)
            BY <2>8
        <3>2. node[p] \notin {"off", "ended"}
            BY <2>2, <3>1 DEF PhaseOf, NoThread, Fail
        <3>3. comp'[p] = [comp[p] EXCEPT ![c] = "ended"] /\ UNCHANGED <<node, toStart, toStop>>
            BY <3>1 DEF Fail, NodesOK
        <3>4. comp[p][c] # "off"
            BY <3>1 DEF Fail
        <3>5. \A d \in Threads(p) : comp'[p][d] # "off" => comp[p][d] # "off"
            BY <2>2, <3>3, <3>4
        <3>6. PhaseOf(p)'
            BY <2>2, <3>2, <3>3, <3>5 DEF PhaseOf
        <3>. QED BY <1>1, <3>1, <3>6 DEF Fail, NodesOK
    <2>. QED BY <2>1, <2>3, <2>4, <2>5, <2>6, <2>7, <2>8 DEF NodeStep
<1>3. CASE UNCHANGED <<node, comp, toStart, toStop>>
    BY <1>3 DEF PhasesOK, PhaseOf
<1>4. CASE PubStep
    <2>1. CASE InitSem
        <3>1. PhaseOf(Pub)'
            BY <2>1, OrderIs DEF InitSem, PhaseOf, NodesOK
        <3>. QED BY <1>1, <2>1, <3>1 DEF InitSem, NodesOK
    <2>. QED BY <1>3, <1>4, <2>1 DEF PubStep, CreatePubNode, CreatePubNodeFails, SignalPub,
                                     HaltNode, ExitPub, nodeVars
<1>5. CASE SrvrStep
    BY <1>3, <1>5 DEF SrvrStep, Listen, WaitToInc, AcceptConn, ServerFails, ServerCancelled,
                      ReadRequest, Reply, RequestFails, nodeVars
<1>6. CASE VisitStep
    BY <1>3, <1>6 DEF VisitStep, Visit, Leave, nodeVars
<1>7. CASE \E s \in Sub : SubStep(s)
    <2>1. PICK s \in Sub : SubStep(s)
        BY <1>7
    <2>2. s \in Prog /\ PhaseOf(s)
        BY DEF PhasesOK
    <2>3. CASE CreateSubNode(s)
        <3>1. PhaseOf(s)'
            BY <2>2, <2>3, OrderIs DEF CreateSubNode, PhaseOf, NodesOK
        <3>. QED BY <1>1, <2>2, <2>3, <3>1 DEF CreateSubNode, NodesOK
    <2>4. CASE EndSession(s)
        <3>1. PhaseOf(s)'
            BY <2>2, <2>4 DEF EndSession, PhaseOf, NodesOK, NoThread
        <3>. QED BY <1>1, <2>2, <2>4, <3>1 DEF EndSession, NodesOK
    <2>5. CASE SignalSub(s)
        <3>1. CASE node[s] = "waiting" /\ main[s] = "running"
            <4>1. PhaseOf(s)'
                BY <2>2, <2>5, <3>1, OrderIs DEF SignalSub, PhaseOf, NodesOK
            <4>. QED BY <1>1, <2>2, <2>5, <3>1, <4>1 DEF SignalSub, NodesOK
        <3>2. CASE ~(node[s] = "waiting" /\ main[s] = "running")
            BY <1>3, <2>5, <3>2 DEF SignalSub
        <3>. QED BY <3>1, <3>2
    <2>. QED BY <1>3, <2>1, <2>3, <2>4, <2>5
         DEF SubStep, Subscribe, BeTold, LoseConn, CreateSubNodeFails, WakeUp, nodeVars
<1>. QED BY <1>2, <1>4, <1>5, <1>6, <1>7, Steps

-----------------------------------------------------------------------------
(* The main threads of programs *)

(* While a node's thread takes a step, no node ends or begins that isn't   *)
(* that thread's, and no main thread moves.                                *)
LEMMA NodeStepIs ==
    ASSUME NodesOK, NEW p \in Prog, NodeStep(p)
    PROVE  /\ UNCHANGED <<main, done, errno, connVars, server, threads, queue, request>>
           /\ \A q \in Prog : node[q] = "off" \/ node[q] = "ended" => node'[q] = node[q]
<1>1. CASE StartThread(p) \/ StartFails(p) \/ WaitReturns(p)
    BY <1>1 DEF StartThread, StartFails, WaitReturns, NodesOK, connVars, srvrVars
<1>2. CASE StopThread(p) \/ Run(p) \/ \E c \in Threads(p) : Fail(p, c)
    BY <1>2 DEF StopThread, Run, Fail, NodesOK, connVars, srvrVars
<1>. QED BY <1>1, <1>2 DEF NodeStep

(* A subscriber's main thread only changes what is its own.                *)
LEMMA SubStepIs ==
    ASSUME MainsOK, NodesOK, NEW s \in Sub, SubStep(s)
    PROVE  /\ \E v \in SubState : main' = [main EXCEPT ![s] = v]
           /\ main'[s] # "running" => node'[s] = "off"
           /\ \A q \in Prog \ {s} : node'[q] = node[q]
<1> USE ProgIs
<1>1. AfterTurn(s) \in SubState \ {"running"} /\ main[s] \in SubState
    BY DEF AfterTurn, SubState, Exited, MainsOK
<1>2. main = [main EXCEPT ![s] = main[s]]
    BY DEF MainsOK
<1>3. CASE Subscribe(s)
    <2>1. /\ main[s] = "subscribing" /\ node' = node
          /\ \E v \in {"reading", AfterTurn(s)} : main' = [main EXCEPT ![s] = v]
        BY <1>3 DEF Subscribe, nodeVars
    <2>. QED BY <1>1, <2>1 DEF MainsOK, SubState
<1>4. CASE BeTold(s) \/ LoseConn(s)
    <2>1. /\ main[s] = "reading" /\ node' = node
          /\ \E v \in {"creating", AfterTurn(s)} : main' = [main EXCEPT ![s] = v]
        BY <1>4 DEF BeTold, LoseConn, nodeVars
    <2>. QED BY <1>1, <2>1 DEF MainsOK, SubState
<1>5. CASE CreateSubNode(s)
    BY <1>5 DEF CreateSubNode, MainsOK, NodesOK, SubState
<1>6. CASE CreateSubNodeFails(s) \/ WakeUp(s)
    <2>1. /\ main[s] \in {"creating", "sleeping"} /\ node' = node
          /\ \E v \in {"subscribing", AfterTurn(s), "exit0", "exit2"} :
                 main' = [main EXCEPT ![s] = v]
        BY <1>6 DEF CreateSubNodeFails, WakeUp, nodeVars
    <2>. QED BY <1>1, <2>1 DEF MainsOK, SubState, Exited
<1>7. CASE EndSession(s)
    <2>1. /\ node' = [node EXCEPT ![s] = "off"]
          /\ \E v \in {AfterTurn(s), "exit2"} : main' = [main EXCEPT ![s] = v]
        BY <1>7 DEF EndSession
    <2>. QED BY <1>1, <2>1 DEF NodesOK, SubState, Exited
<1>8. CASE SignalSub(s)
    <2>1. /\ \/ node' = node
             \/ main[s] = "running" /\ main' = main /\ node' = [node EXCEPT ![s] = "stopping"]
          /\ \/ main[s] = "reading" /\ main' = [main EXCEPT ![s] = "exit2"]
             \/ main' = main
        BY <1>8 DEF SignalSub
    <2>2. main'[s] # "running" => main[s] # "running"
        BY <1>2, <2>1
    <2>3. main'[s] # "running" => node' = node
        BY <1>2, <2>1
    <2>4. main'[s] # "running" => node'[s] = "off"
        BY <2>2, <2>3 DEF MainsOK
    <2>5. \A q \in Prog \ {s} : node'[q] = node[q]
        BY <2>1 DEF NodesOK
    <2>6. \E v \in SubState : main' = [main EXCEPT ![s] = v]
        BY <1>1, <1>2, <2>1 DEF SubState, Exited
    <2>. QED BY <2>4, <2>5, <2>6
<1>. QED BY <1>3, <1>4, <1>5, <1>6, <1>7, <1>8 DEF SubStep

LEMMA MainsStep ==
    ASSUME MainsOK, NodesOK, Next
    PROVE  MainsOK'
<1> USE ProgIs
<1>1. CASE \E p \in Prog : NodeStep(p)
    BY <1>1, NodeStepIs DEF MainsOK
<1>2. CASE UNCHANGED <<main, node>>
    BY <1>2 DEF MainsOK
<1>3. ASSUME NEW v \in Died \cup {"created"}, main' = [main EXCEPT ![Pub] = v], node' = node,
             v = "created" => main[Pub] = "creating"
      PROVE  MainsOK'
    BY <1>3 DEF MainsOK, PubState, Exited, Died
<1>4. CASE PubStep
    <2>1. CASE CreatePubNode
        BY <1>3, <2>1 DEF CreatePubNode, nodeVars
    <2>2. CASE CreatePubNodeFails
        BY <1>3, <2>2 DEF CreatePubNodeFails, PubEnds, Died, nodeVars
    <2>3. CASE InitSem
        <3>1. /\ main' = [main EXCEPT ![Pub] = "waiting"]
              /\ \A s \in Sub : node'[s] = node[s]
            BY <2>3 DEF InitSem, NodesOK
        <3>. QED BY <3>1 DEF MainsOK, PubState, Exited, Died
    <2>4. CASE SignalPub
        BY <1>2, <1>3, <2>4 DEF SignalPub, PubEnds, Died, nodeVars
    <2>5. CASE HaltNode
        <3>1. main' = [main EXCEPT ![Pub] = "halting"] /\ node' = node
            BY <2>5 DEF HaltNode
        <3>. QED BY <3>1 DEF MainsOK, PubState, Exited, Died
    <2>6. CASE ExitPub
        <3>1. /\ node[Pub] = "ended" /\ node' = node
              /\ \E v \in Exited : main' = [main EXCEPT ![Pub] = v]
            BY <2>6 DEF ExitPub, NodeIsJoined, PubEnds, Exited, nodeVars
        <3>. QED BY <3>1 DEF MainsOK, PubState, Exited, Died
    <2>. QED BY <1>4, <2>1, <2>2, <2>3, <2>4, <2>5, <2>6 DEF PubStep
<1>5. CASE SrvrStep
    <2>1. CASE \E i \in Conn : ReadRequest(i)
        BY <1>2, <1>3, <2>1 DEF ReadRequest, PubEnds, Died, nodeVars
    <2>. QED BY <1>2, <1>5, <2>1 DEF SrvrStep, Listen, WaitToInc, AcceptConn, ServerFails,
                                     ServerCancelled, Reply, RequestFails, nodeVars
<1>6. CASE VisitStep
    BY <1>2, <1>6 DEF VisitStep, Visit, Leave, nodeVars
<1>7. CASE \E s \in Sub : SubStep(s)
    <2>1. PICK s \in Sub : SubStep(s)
        BY <1>7
    <2>2. PICK v \in SubState : main' = [main EXCEPT ![s] = v]
        BY <2>1, SubStepIs
    <2>3. main'[s] # "running" => node'[s] = "off"
        BY <2>1, SubStepIs
    <2>4. \A q \in Prog \ {s} : node'[q] = node[q] /\ main'[q] = main[q]
        BY <2>1, <2>2, SubStepIs DEF MainsOK
    <2>5. main' \in [Prog -> PubState \cup SubState] /\ main'[s] \in SubState
        BY <2>2 DEF MainsOK
    <2>. QED BY <2>3, <2>4, <2>5 DEF MainsOK
<1>. QED BY <1>1, <1>4, <1>5, <1>6, <1>7, Steps

-----------------------------------------------------------------------------
(* Flags, semaphores and exceptions *)

LEMMA FlagsStep ==
    ASSUME FlagsOK, Next
    PROVE  FlagsOK'
<1> USE ProgIs
<1>1. CASE UNCHANGED <<nodeEx, done, errno, pubEx, failed>>
    BY <1>1 DEF FlagsOK
<1>2. CASE \E p \in Prog : NodeStep(p)
    <2>1. PICK p \in Prog : NodeStep(p)
        BY <1>2
    <2>2. CASE StartFails(p)
        BY <2>2 DEF StartFails, FlagsOK, pubVars
    <2>3. CASE Run(p)
        BY <2>3 DEF Run, FlagsOK, pubVars, histVars
    <2>4. CASE \E c \in Threads(p) : Fail(p, c)
        BY <2>4 DEF Fail, Kinds, First, FlagsOK, pubVars
    <2>. QED BY <1>1, <2>1, <2>2, <2>3, <2>4
         DEF NodeStep, StartThread, WaitReturns, StopThread, pubVars, histVars
<1>3. CASE PubStep
    <2>1. CASE CreatePubNodeFails
        BY <2>1 DEF CreatePubNodeFails, FlagsOK, nodeVars, pubVars
    <2>. QED BY <1>1, <1>3, <2>1 DEF PubStep, CreatePubNode, InitSem, SignalPub, HaltNode, ExitPub,
                                     nodeVars, pubVars, histVars
<1>4. CASE SrvrStep
    <2>1. CASE ServerFails
        BY <2>1 DEF ServerFails, FlagsOK, nodeVars
    <2>. QED BY <1>1, <1>4, <2>1 DEF SrvrStep, Listen, WaitToInc, AcceptConn, ServerCancelled,
                                     ReadRequest, Reply, RequestFails, nodeVars, pubVars, histVars
<1>5. CASE VisitStep
    BY <1>1, <1>5 DEF VisitStep, Visit, Leave, nodeVars, pubVars, histVars
<1>6. CASE \E s \in Sub : SubStep(s)
    <2>1. PICK s \in Sub : SubStep(s)
        BY <1>6
    <2>2. CASE Subscribe(s)
        BY <2>2 DEF Subscribe, FlagsOK, nodeVars, pubVars, histVars
    <2>3. CASE EndSession(s)
        BY <2>3 DEF EndSession, Renewed, FlagsOK, pubVars, histVars
    <2>4. CASE SignalSub(s)
        BY <2>4 DEF SignalSub, FlagsOK, pubVars
    <2>. QED BY <1>1, <2>1, <2>2, <2>3, <2>4
         DEF SubStep, BeTold, LoseConn, CreateSubNode, CreateSubNodeFails, WakeUp,
             nodeVars, pubVars, histVars
<1>. QED BY <1>2, <1>3, <1>4, <1>5, <1>6, Steps

(* A semaphore is only posted for a failure, for a signal, or once by the  *)
(* end of a node.                                                          *)
LEMMA SemsStep ==
    ASSUME MainsOK, NodesOK, SemsOK, Next
    PROVE  SemsOK'
<1> USE ProgIs
<1>1. CASE UNCHANGED <<nodeSem, pubSem, node, fails, signals>>
    BY <1>1 DEF SemsOK
<1>2. fails \in Nat /\ signals \in Nat /\ pubSem \in Nat /\ nodeSem \in [Prog -> Nat]
    BY BoundAssumption DEF SemsOK
<1>3. CASE \E p \in Prog : NodeStep(p)
    <2>1. PICK p \in Prog : NodeStep(p)
        BY <1>3
    <2>2. CASE StartThread(p) \/ WaitReturns(p) \/ StopThread(p)
        <3>1. /\ UNCHANGED <<pubSem, fails, signals>> /\ (node[Pub] = "ended" => node'[Pub] = "ended")
              /\ \/ nodeSem' = nodeSem
                 \/ nodeSem[p] > 0 /\ nodeSem' = [nodeSem EXCEPT ![p] = @ - 1]
            BY <2>1, <2>2, NodeStepIs DEF StartThread, WaitReturns, StopThread, pubVars, histVars
        <3>2. nodeSem' \in [Prog -> Nat] /\ \A q \in Prog : nodeSem'[q] <= nodeSem[q]
            BY <1>2, <3>1
        <3>. QED BY <1>2, <3>1, <3>2 DEF SemsOK
    <2>3. CASE StartFails(p)
        <3>1. /\ UNCHANGED <<pubSem, signals, nodeSem>> /\ fails' = fails + 1 /\ fails < MaxFails
              /\ (node[Pub] = "ended" => node'[Pub] = "ended")
            BY <2>1, <2>3, NodeStepIs DEF StartFails, pubVars
        <3>. QED BY <1>2, <3>1, BoundAssumption DEF SemsOK
    <2>4. CASE Run(p)
        <3>1. /\ UNCHANGED <<nodeSem, fails, signals>> /\ node[p] = "stopping"
              /\ node' = [node EXCEPT ![p] = "ended"]
              /\ \/ pubSem' = pubSem
                 \/ p = Pub /\ pubSem' = pubSem + 1
            BY <2>4 DEF Run, pubVars, histVars
        <3>2. CASE p = Pub
            <4>1. node[Pub] # "ended" /\ node'[Pub] = "ended"
                BY <3>1, <3>2 DEF NodesOK
            <4>. QED BY <1>2, <3>1, <4>1 DEF SemsOK
        <3>3. CASE p # Pub
            <4>1. node'[Pub] = node[Pub] /\ pubSem' = pubSem
                BY <3>1, <3>3 DEF NodesOK
            <4>. QED BY <1>2, <3>1, <4>1 DEF SemsOK
        <3>. QED BY <3>2, <3>3
    <2>5. CASE \E c \in Threads(p) : Fail(p, c)
        <3>1. /\ UNCHANGED <<pubSem, signals, node>> /\ fails' = fails + 1 /\ fails < MaxFails
              /\ nodeSem' = [nodeSem EXCEPT ![p] = @ + 1]
            BY <2>5 DEF Fail, Posted, pubVars
        <3>2. nodeSem' \in [Prog -> Nat] /\ \A q \in Prog : nodeSem'[q] <= nodeSem[q] + 1
            BY <1>2, <3>1
        <3>. QED BY <1>2, <3>1, <3>2, BoundAssumption DEF SemsOK
    <2>. QED BY <2>1, <2>2, <2>3, <2>4, <2>5 DEF NodeStep
<1>4. ASSUME fails' = fails + 1, fails < MaxFails, UNCHANGED <<nodeSem, node, signals>>,
             pubSem' = pubSem \/ pubSem' = pubSem + 1
      PROVE  SemsOK'
    BY <1>2, <1>4, BoundAssumption DEF SemsOK
<1>5. CASE PubStep
    <2>1. CASE CreatePubNodeFails
        BY <1>4, <2>1 DEF CreatePubNodeFails, nodeVars, pubVars
    <2>2. CASE InitSem
        <3>1. pubSem' = 0 /\ UNCHANGED <<nodeSem, fails, signals>>
            BY <2>2 DEF InitSem, histVars
        <3>. QED BY <1>2, <3>1 DEF SemsOK
    <2>3. CASE SignalPub
        <3>1. /\ UNCHANGED <<nodeSem, node, fails>> /\ signals' = signals + 1 /\ signals < MaxSignals
              /\ pubSem' = pubSem \/ pubSem' = pubSem + 1
            BY <2>3 DEF SignalPub, nodeVars
        <3>. QED BY <1>2, <3>1, BoundAssumption DEF SemsOK
    <2>4. CASE HaltNode
        <3>1. /\ UNCHANGED <<node, fails, signals>> /\ pubSem > 0 /\ pubSem' = pubSem - 1
              /\ nodeSem' = [nodeSem EXCEPT ![Pub] = IF @ < 1 THEN @ + 1 ELSE @]
            BY <2>4 DEF HaltNode, Posted, histVars
        <3>2. nodeSem' \in [Prog -> Nat] /\ \A q \in Prog : nodeSem'[q] <= fails + 1
            BY <1>2, <3>1 DEF SemsOK
        <3>. QED BY <1>2, <3>1, <3>2 DEF SemsOK
    <2>. QED BY <1>1, <1>5, <2>1, <2>2, <2>3, <2>4
         DEF PubStep, CreatePubNode, ExitPub, nodeVars, pubVars, histVars
<1>6. CASE SrvrStep
    <2>1. CASE ServerFails
        BY <1>4, <2>1 DEF ServerFails, nodeVars
    <2>. QED BY <1>1, <1>6, <2>1 DEF SrvrStep, Listen, WaitToInc, AcceptConn, ServerCancelled,
                                     ReadRequest, Reply, RequestFails, nodeVars, pubVars, histVars
<1>7. CASE VisitStep
    BY <1>1, <1>7 DEF VisitStep, Visit, Leave, nodeVars, pubVars, histVars
<1>8. CASE \E s \in Sub : SubStep(s)
    <2>1. PICK s \in Sub : SubStep(s)
        BY <1>8
    <2>2. node'[Pub] = node[Pub]
        BY <2>1, SubStepIs
    <2>3. CASE CreateSubNodeFails(s)
        BY <1>4, <2>3 DEF CreateSubNodeFails, nodeVars, pubVars
    <2>4. CASE EndSession(s)
        <3>1. UNCHANGED <<pubSem, fails, signals>> /\ nodeSem' = [nodeSem EXCEPT ![s] = 0]
            BY <2>4 DEF EndSession, Renewed, pubVars, histVars
        <3>2. nodeSem' \in [Prog -> Nat] /\ \A q \in Prog : nodeSem'[q] <= fails + 1
            BY <1>2, <3>1 DEF SemsOK
        <3>. QED BY <1>2, <2>2, <3>1, <3>2 DEF SemsOK
    <2>5. CASE SignalSub(s)
        <3>1. /\ UNCHANGED <<nodeSem, pubSem, fails>> /\ signals' = signals + 1
              /\ signals < MaxSignals
            BY <2>5 DEF SignalSub, pubVars
        <3>. QED BY <1>2, <2>2, <3>1, BoundAssumption DEF SemsOK
    <2>6. CASE UNCHANGED <<nodeSem, pubSem, fails, signals>>
        BY <2>2, <2>6 DEF SemsOK
    <2>. QED BY <2>1, <2>3, <2>4, <2>5, <2>6
         DEF SubStep, Subscribe, BeTold, LoseConn, CreateSubNode, WakeUp,
             nodeVars, pubVars, histVars
<1>. QED BY <1>3, <1>5, <1>6, <1>7, <1>8, Steps

(* The failure of a thread of the publisher is never forgotten: the node    *)
(* keeps it until it ends and passes it on, and no thread of a node can     *)
(* fail once that ended.                                                    *)
LEMMA FailuresStep ==
    ASSUME MainsOK, NodesOK, PhasesOK, FlagsOK, FailuresAreKept, Next
    PROVE  FailuresAreKept'
<1> USE ProgIs
<1>1. CASE UNCHANGED <<failed, pubEx, nodeEx, node, main>>
    BY <1>1 DEF FailuresAreKept, FailureIsReported
<1>2. CASE \E p \in Prog : NodeStep(p)
    <2>1. PICK p \in Prog : NodeStep(p)
        BY <1>2
    <2>2. main' = main /\ Up(p)
        BY <2>1, NodeStepIs DEF NodeStep
    <2>3. p = Pub => main[Pub] # "exit0" /\ main[Pub] \notin Died
        BY <2>2 DEF Up, PubUp, Exited
    <2>4. CASE p # Pub
        <3>1. UNCHANGED <<failed, pubEx>> /\ node'[Pub] = node[Pub] /\ nodeEx'[Pub] = nodeEx[Pub]
            BY <2>1, <2>4 DEF NodeStep, StartThread, StartFails, WaitReturns, StopThread, Run, Fail,
                              NodesOK, FlagsOK, pubVars, histVars
        <3>. QED BY <2>2, <3>1 DEF FailuresAreKept, FailureIsReported
    <2>5. CASE p = Pub /\ (StartThread(p) \/ WaitReturns(p) \/ StopThread(p))
        <3>1. /\ UNCHANGED <<failed, pubEx, nodeEx>> /\ node[Pub] # "ended"
              /\ node'[Pub] # "ended"
            BY <2>5 DEF StartThread, WaitReturns, StopThread, NodesOK, pubVars, histVars
        <3>. QED BY <2>2, <3>1 DEF FailuresAreKept, FailureIsReported
    <2>6. CASE p = Pub /\ StartFails(p)
        <3>1. nodeEx'[Pub] = "other" /\ node'[Pub] = "stopping"
            BY <2>6 DEF StartFails, NodesOK, FlagsOK
        <3>. QED BY <2>2, <2>3, <2>6, <3>1 DEF FailuresAreKept, FailureIsReported
    <2>7. CASE p = Pub /\ Run(p)
        <3>1. UNCHANGED <<failed, nodeEx>> /\ (nodeEx[Pub] # "none" => pubEx') /\ (pubEx => pubEx')
            BY <2>7 DEF Run, pubVars, histVars
        <3>. QED BY <2>2, <2>3, <2>7, <3>1 DEF FailuresAreKept, FailureIsReported
    <2>8. CASE p = Pub /\ \E c \in Threads(p) : Fail(p, c)
        <3>1. PICK c \in Threads(p) : Fail(p, c)
            BY <2>8
        <3>2. comp[Pub][c] = "running" /\ node' = node
            BY <2>8, <3>1 DEF Fail
        <3>3. node[Pub] # "ended"
            BY <2>8, <3>2 DEF PhasesOK, PhaseOf, NoThread
        <3>4. nodeEx'[Pub] # "none"
            BY <2>8, <3>1 DEF Fail, Kinds, First, FlagsOK
        <3>. QED BY <2>2, <2>3, <2>8, <3>2, <3>3, <3>4 DEF FailuresAreKept, FailureIsReported
    <2>. QED BY <2>1, <2>4, <2>5, <2>6, <2>7, <2>8 DEF NodeStep
<1>3. ASSUME main'[Pub] \in Died, node' = node, nodeEx' = nodeEx, pubEx' = pubEx
      PROVE  FailuresAreKept'
    BY <1>3 DEF FailuresAreKept, FailureIsReported, Died
<1>4. CASE PubStep
    <2>1. CASE CreatePubNode \/ InitSem \/ HaltNode
        <3>1. /\ UNCHANGED <<failed, pubEx, nodeEx>> /\ main'[Pub] # "exit0"
              /\ main[Pub] \notin Died
              /\ node'[Pub] = "ended" => node[Pub] = "ended"
            BY <2>1 DEF CreatePubNode, InitSem, HaltNode, MainsOK, NodesOK, Died,
                        nodeVars, pubVars, histVars
        <3>. QED BY <3>1 DEF FailuresAreKept, FailureIsReported
    <2>2. CASE CreatePubNodeFails
        <3>1. main'[Pub] = "aborted"
            BY <2>2 DEF CreatePubNodeFails, PubEnds, MainsOK
        <3>. QED BY <1>3, <2>2, <3>1 DEF CreatePubNodeFails, Died, nodeVars, pubVars
    <2>3. CASE SignalPub
        <3>1. main' = main \/ main'[Pub] = "aborted"
            BY <2>3 DEF SignalPub, PubEnds, MainsOK
        <3>. QED BY <1>1, <1>3, <2>3, <3>1 DEF SignalPub, Died, nodeVars
    <2>4. CASE ExitPub
        <3>1. /\ main[Pub] \notin Died /\ node[Pub] = "ended"
              /\ main'[Pub] = "exit0" => ~pubEx
              /\ UNCHANGED <<failed, pubEx, nodeEx, node>>
            BY <2>4 DEF ExitPub, NodeIsJoined, PubEnds, MainsOK, Died, nodeVars, pubVars, histVars
        <3>. QED BY <3>1 DEF FailuresAreKept, FailureIsReported
    <2>. QED BY <1>4, <2>1, <2>2, <2>3, <2>4 DEF PubStep
<1>5. CASE SrvrStep
    <2>1. CASE ServerFails
        BY <2>1 DEF ServerFails, PubUp, Exited, FailuresAreKept, FailureIsReported, nodeVars
    <2>2. CASE \E i \in Conn : ReadRequest(i)
        <3>1. main' = main \/ main'[Pub] = "crashed"
            BY <2>2 DEF ReadRequest, PubEnds, MainsOK
        <3>. QED BY <1>1, <1>3, <2>2, <3>1 DEF ReadRequest, Died, nodeVars, pubVars, histVars
    <2>. QED BY <1>1, <1>5, <2>1, <2>2 DEF SrvrStep, Listen, WaitToInc, AcceptConn, ServerCancelled,
                                           Reply, RequestFails, nodeVars, pubVars, histVars
<1>6. CASE VisitStep
    BY <1>1, <1>6 DEF VisitStep, Visit, Leave, nodeVars, pubVars, histVars
<1>7. CASE \E s \in Sub : SubStep(s)
    <2>1. PICK s \in Sub : SubStep(s)
        BY <1>7
    <2>2. main'[Pub] = main[Pub] /\ node'[Pub] = node[Pub]
        BY <2>1, SubStepIs DEF MainsOK
    <2>3. UNCHANGED <<failed, pubEx>> /\ nodeEx'[Pub] = nodeEx[Pub]
        BY <2>1 DEF SubStep, Subscribe, BeTold, LoseConn, CreateSubNode, CreateSubNodeFails,
                    EndSession, Renewed, WakeUp, SignalSub, FlagsOK, nodeVars, pubVars, histVars
    <2>. QED BY <2>2, <2>3 DEF FailuresAreKept, FailureIsReported
<1>. QED BY <1>2, <1>4, <1>5, <1>6, <1>7, Steps

-----------------------------------------------------------------------------
(* The publisher's server and its connections *)

(* A function of the numbers from 1 to n is a sequence of n elements.       *)
LEMMA FunIsSeq ==
    ASSUME NEW S, NEW n \in Nat, NEW t \in [1 .. n -> S]
    PROVE  t \in Seq(S) /\ Len(t) = n
OBVIOUS

(* All connections' ends but a program's stay as they are.                  *)
LEMMA CloseKeeps ==
    ASSUME ConnsOK, NEW x, Close(x), UNCHANGED <<peer, queue, request>>, told' \subseteq told
    PROVE  ConnsOK'
<1>1. Len(peer) \in Nat /\ Conn = 1 .. Len(peer) /\ \A i \in Conn : end[i] \in EndState
    BY ElementOfSeq, LenProperties DEF ConnsOK, Conn
<1>2. end' \in [1 .. Len(peer) -> EndState]
    BY <1>1 DEF Close, EndState
<1>3. end' \in Seq(EndState) /\ Len(end') = Len(peer)
    BY <1>1, <1>2, FunIsSeq
<1>. QED BY <1>3 DEF ConnsOK, Conn

(* A new connection waits to be accepted.                                   *)
LEMMA ConnectedKeeps ==
    ASSUME ConnsOK, NEW x \in Sub \cup Client, NEW e \in EndState, Connected(x, e), told' = told
    PROVE  /\ ConnsOK' /\ Busy' = Busy
<1>1. Len(peer) \in Nat /\ Len(peer) < MaxConns
    BY LenProperties DEF ConnsOK, Connected
<1>2. peer' \in Seq(Sub \cup Client) /\ Len(peer') = Len(peer) + 1
    BY DEF ConnsOK, Connected
<1>3. end' \in Seq(EndState) /\ Len(end') = Len(peer) + 1
    BY DEF ConnsOK, Connected
<1>4. /\ request' \in Seq(ReqState) /\ Len(request') = Len(peer) + 1
      /\ DOMAIN request' = 1 .. Len(peer) + 1 /\ DOMAIN request = 1 .. Len(peer)
      /\ \A i \in 1 .. Len(peer) : request'[i] = request[i]
      /\ request'[Len(peer) + 1] = "none"
    <2>1. "none" \in ReqState /\ request' = Append(request, "none")
        BY DEF ReqState, Connected
    <2>. QED BY <1>1, <2>1 DEF ConnsOK
<1>5. Conn' = 1 .. Len(peer) + 1 /\ Conn \subseteq Conn' /\ Len(peer) + 1 \in Conn'
    BY <1>1, <1>2 DEF Conn
<1>6. queue' \in Seq(Conn')
    <2>1. queue \in Seq(Conn')
        BY <1>5, SeqMonotonic DEF ConnsOK
    <2>. QED BY <1>5, <2>1 DEF Connected
<1>7. Busy' = Busy
    BY <1>1, <1>4 DEF Busy
<1>. QED BY <1>1, <1>2, <1>3, <1>4, <1>5, <1>6, <1>7, BoundAssumption DEF ConnsOK

(* Nothing is left of the server when its program ends.                     *)
LEMMA NothingLeft ==
    ASSUME ConnsOK, NEW v, PubEnds(v), UNCHANGED connVars
    PROVE  /\ ConnsOK' /\ Busy' = {} /\ Taken' = 0 /\ threads' = 0
           /\ server' = "ended"
<1>1. Len(peer) \in Nat /\ request' = [i \in 1 .. Len(peer) |-> "none"]
    BY LenProperties DEF ConnsOK, PubEnds, Conn
<1>2. request' \in [1 .. Len(peer) -> ReqState]
    BY <1>1 DEF ReqState
<1>3. request' \in Seq(ReqState) /\ Len(request') = Len(peer)
    BY <1>1, <1>2, FunIsSeq
<1>4. <<>> \in Seq(Conn) /\ queue' = <<>>
    BY DEF PubEnds
<1>5. ConnsOK'
    BY <1>3, <1>4 DEF ConnsOK, Conn, connVars
<1>6. Busy' = {}
    BY <1>1 DEF Busy
<1>. QED BY <1>5, <1>6 DEF PubEnds, Taken

(* The state of a request changes.                                          *)
LEMMA RequestIs ==
    ASSUME ConnsOK, NEW i \in Conn, NEW v \in ReqState, request' = [request EXCEPT ![i] = v]
    PROVE  /\ request' \in Seq(ReqState) /\ Len(request') = Len(peer)
           /\ Busy' = IF v = "none" THEN Busy \ {i} ELSE Busy \cup {i}
<1>1. /\ i \in 1 .. Len(request) /\ request \in Seq(ReqState) /\ Len(request) = Len(peer)
      /\ DOMAIN request = 1 .. Len(request)
    BY LenProperties DEF ConnsOK, Conn
<1>2. request' \in Seq(ReqState) /\ Len(request') = Len(peer)
    BY <1>1, ExceptSeq
<1>3. Busy' = IF v = "none" THEN Busy \ {i} ELSE Busy \cup {i}
    BY <1>1 DEF Busy
<1>. QED BY <1>2, <1>3

LEMMA ConnsStep ==
    ASSUME ConnsOK, NodesOK, Next
    PROVE  ConnsOK'
<1>1. CASE UNCHANGED <<connVars, queue, request>>
    BY <1>1 DEF ConnsOK, Conn, connVars
<1>2. ASSUME NEW v, PubEnds(v), UNCHANGED connVars
      PROVE  ConnsOK'
    BY <1>2, NothingLeft
<1>3. CASE \E p \in Prog : NodeStep(p)
    BY <1>1, <1>3, NodeStepIs
<1>4. CASE PubStep
    BY <1>1, <1>2, <1>4 DEF PubStep, CreatePubNode, CreatePubNodeFails, InitSem, SignalPub,
                            HaltNode, ExitPub, srvrVars
<1>5. CASE SrvrStep
    <2>1. CASE Listen \/ WaitToInc
        BY <1>1, <2>1 DEF Listen, WaitToInc
    <2>2. CASE AcceptConn
        <3>1. Head(queue) \in Conn /\ Tail(queue) \in Seq(Conn)
            BY <2>2, HeadTailProperties DEF AcceptConn, ConnsOK
        <3>2. request' \in Seq(ReqState) /\ Len(request') = Len(peer)
            BY <2>2, <3>1, RequestIs DEF AcceptConn, ReqState
        <3>. QED BY <2>2, <3>1, <3>2 DEF AcceptConn, ConnsOK, Conn, connVars
    <2>3. CASE ServerFails \/ ServerCancelled
        <3>1. <<>> \in Seq(Conn)
            OBVIOUS
        <3>. QED BY <2>3, <3>1 DEF ServerFails, ServerCancelled, ConnsOK, Conn, connVars
    <2>4. ASSUME NEW i \in Conn, ReadRequest(i)
          PROVE  ConnsOK'
        <3>1. CASE main[Pub] = "creating"
            BY <1>2, <2>4, <3>1 DEF ReadRequest
        <3>2. CASE main[Pub] # "creating"
            <4>1. request' \in Seq(ReqState) /\ Len(request') = Len(peer)
                BY <2>4, <3>2, RequestIs DEF ReadRequest, ReqState
            <4>. QED BY <2>4, <3>2, <4>1 DEF ReadRequest, ConnsOK, Conn, connVars
        <3>. QED BY <3>1, <3>2
    <2>5. ASSUME NEW i \in Conn, Reply(i) \/ RequestFails(i)
          PROVE  ConnsOK'
        <3>1. request' = [request EXCEPT ![i] = "none"] /\ "none" \in ReqState
            BY <2>5 DEF Reply, RequestFails, ReqState
        <3>2. request' \in Seq(ReqState) /\ Len(request') = Len(peer)
            BY <3>1, RequestIs
        <3>3. UNCHANGED <<peer, end, queue>> /\ (told' = told \/ told' = told \cup {i})
            BY <2>5 DEF Reply, RequestFails, connVars
        <3>. QED BY <3>2, <3>3 DEF ConnsOK, Conn
    <2>. QED BY <1>5, <2>1, <2>2, <2>3, <2>4, <2>5 DEF SrvrStep
<1>6. CASE VisitStep
    <2>1. PICK x \in Client : Visit(x) \/ Leave(x)
        BY <1>6 DEF VisitStep
    <2>2. CASE Visit(x)
        BY <2>2, ConnectedKeeps DEF Visit, EndState
    <2>3. CASE Leave(x)
        BY <2>3, CloseKeeps DEF Leave, srvrVars
    <2>. QED BY <2>1, <2>2, <2>3
<1>7. CASE \E s \in Sub : SubStep(s)
    <2>1. PICK s \in Sub : SubStep(s)
        BY <1>7
    <2>2. CASE Subscribe(s)
        <3>1. CASE Connected(s, "sent")
            BY <2>2, <3>1, ConnectedKeeps DEF Subscribe, EndState
        <3>. QED BY <1>1, <2>2, <3>1 DEF Subscribe, connVars
    <2>3. CASE BeTold(s) \/ LoseConn(s)
        <3>1. Close(s) /\ UNCHANGED <<peer, queue, request>> /\ told' \subseteq told
            BY <2>3 DEF BeTold, LoseConn, srvrVars
        <3>. QED BY <3>1, CloseKeeps
    <2>4. CASE SignalSub(s)
        <3>1. CASE Close(s)
            BY <2>4, <3>1, CloseKeeps DEF SignalSub, srvrVars
        <3>. QED BY <1>1, <2>4, <3>1 DEF SignalSub, connVars, srvrVars
    <2>. QED BY <1>1, <2>1, <2>2, <2>3, <2>4
         DEF SubStep, CreateSubNode, CreateSubNodeFails, EndSession, WakeUp, srvrVars
<1>. QED BY <1>3, <1>4, <1>5, <1>6, <1>7, Steps

LEMMA BusyIsFinite ==
    ASSUME ConnsOK
    PROVE  IsFiniteSet(Busy) /\ Cardinality(Busy) \in Nat
<1>1. Busy \in SUBSET (1 .. Len(request)) /\ Len(request) \in Nat
    BY LenProperties DEF Busy, ConnsOK
<1>2. IsFiniteSet(1 .. Len(request))
    BY <1>1, FS_Interval
<1>3. IsFiniteSet(Busy)
    BY <1>1, <1>2, FS_Subset
<1>. QED BY <1>3, FS_CardinalityType

(* The server counts the thread that it will start before it accepts the    *)
(* connection, and a thread that ends is counted until then.                *)
LEMMA ServerStep ==
    ASSUME ConnsOK, NodesOK, ServerOK, ThreadsAreCounted, Next
    PROVE  ServerOK' /\ ThreadsAreCounted'
<1> DEFINE n == Cardinality(Busy)
<1>1. IsFiniteSet(Busy) /\ n \in Nat
    BY BusyIsFinite
<1>2. threads \in Nat /\ threads <= MaxThreads /\ n + Taken <= threads /\ Taken \in {0, 1}
    BY BoundAssumption DEF ServerOK, ThreadsAreCounted, Taken
<1>3. CASE Busy' = Busy /\ UNCHANGED <<server, threads>>
    BY <1>3 DEF ServerOK, ThreadsAreCounted, Taken
<1>4. CASE UNCHANGED <<request, server, threads>>
    BY <1>3, <1>4 DEF Busy
<1>5. ASSUME NEW v, PubEnds(v), UNCHANGED connVars
      PROVE  ServerOK' /\ ThreadsAreCounted'
    <2>1. Busy' = {} /\ Taken' = 0 /\ threads' = 0 /\ server' = "ended"
        BY <1>5, NothingLeft
    <2>2. Cardinality(Busy') = 0
        BY <2>1, FS_EmptySet
    <2>. QED BY <2>1, <2>2, BoundAssumption DEF ServerOK, ThreadsAreCounted
<1>6. CASE \E p \in Prog : NodeStep(p)
    BY <1>4, <1>6, NodeStepIs
<1>7. CASE PubStep
    BY <1>4, <1>5, <1>7 DEF PubStep, CreatePubNode, CreatePubNodeFails, InitSem, SignalPub,
                            HaltNode, ExitPub, srvrVars
<1>8. CASE SrvrStep
    <2>1. CASE Listen \/ ServerCancelled \/ ServerFails
        <3>1. /\ Busy' = Busy /\ threads' = threads /\ server' \in {"counting", "ended"}
              /\ Taken' = 0
            BY <2>1 DEF Listen, ServerCancelled, ServerFails, Busy, Taken
        <3>. HIDE DEF n
        <3>2. n + Taken' <= threads
            BY <1>1, <1>2, <3>1
        <3>. QED BY <1>2, <3>1, <3>2 DEF ServerOK, ThreadsAreCounted, n
    <2>2. CASE WaitToInc
        <3>1. /\ Busy' = Busy /\ threads' = threads + 1 /\ server' = "accepting"
              /\ Taken = 0 /\ Taken' = 1 /\ threads < MaxThreads
            BY <2>2 DEF WaitToInc, CanInc, Busy, Taken
        <3>. HIDE DEF n
        <3>2. n + 1 <= threads + 1
            BY <1>1, <1>2, <3>1
        <3>3. threads' \in 0 .. MaxThreads
            BY <1>2, <3>1, BoundAssumption
        <3>. QED BY <3>1, <3>2, <3>3 DEF ServerOK, ThreadsAreCounted, n
    <2>3. CASE AcceptConn
        <3>1. Head(queue) \in Conn
            BY <2>3, HeadTailProperties DEF AcceptConn, ConnsOK
        <3>2. /\ request' = [request EXCEPT ![Head(queue)] = "reading"] /\ "reading" \in ReqState
              /\ threads' = threads /\ server' = "counting" /\ Taken = 1 /\ Taken' = 0
            BY <2>3 DEF AcceptConn, Taken, ReqState
        <3>3. Busy' = Busy \cup {Head(queue)}
            BY <3>1, <3>2, RequestIs
        <3> DEFINE n1 == Cardinality(Busy')
        <3>4. n1 \in {n, n + 1}
            BY <1>1, <3>3, FS_AddElement
        <3>. HIDE DEF n, n1
        <3>5. n1 + Taken' <= threads
            BY <1>1, <1>2, <3>2, <3>4
        <3>. QED BY <1>2, <3>2, <3>5 DEF ServerOK, ThreadsAreCounted, n1
    <2>4. ASSUME NEW i \in Conn, ReadRequest(i)
          PROVE  ServerOK' /\ ThreadsAreCounted'
        <3>1. CASE main[Pub] = "creating"
            BY <1>5, <2>4, <3>1 DEF ReadRequest
        <3>2. CASE main[Pub] # "creating"
            <4>1. /\ request' = [request EXCEPT ![i] = "writing"] /\ "writing" \in ReqState
                  /\ request[i] = "reading"
                BY <2>4, <3>2 DEF ReadRequest, ReqState
            <4>2. Busy' = Busy \cup {i}
                BY <4>1, RequestIs
            <4>3. i \in Busy
                BY <4>1, LenProperties DEF Busy, ConnsOK, Conn
            <4>. QED BY <1>3, <2>4, <3>2, <4>2, <4>3 DEF ReadRequest
        <3>. QED BY <3>1, <3>2
    <2>5. ASSUME NEW i \in Conn, Reply(i) \/ RequestFails(i)
          PROVE  ServerOK' /\ ThreadsAreCounted'
        <3>1. /\ request' = [request EXCEPT ![i] = "none"] /\ "none" \in ReqState
              /\ request[i] # "none" /\ threads' = threads - 1 /\ server' = server
            BY <2>5 DEF Reply, RequestFails, AfterFailure, ReqState
        <3>2. Busy' = Busy \ {i}
            BY <3>1, RequestIs
        <3>3. i \in Busy
            BY <3>1, LenProperties DEF Busy, ConnsOK, Conn
        <3> DEFINE n1 == Cardinality(Busy')
        <3>4. n1 = n - 1 /\ n1 \in Nat
            BY <1>1, <3>2, <3>3, FS_RemoveElement, FS_CardinalityType
        <3>5. Taken' = Taken
            BY <3>1 DEF Taken
        <3>. HIDE DEF n, n1
        <3>6. n1 + Taken <= threads - 1 /\ threads - 1 \in 0 .. MaxThreads
            BY <1>1, <1>2, <3>4, BoundAssumption
        <3>. QED BY <3>1, <3>5, <3>6 DEF ServerOK, ThreadsAreCounted, n1
    <2>. QED BY <1>8, <2>1, <2>2, <2>3, <2>4, <2>5 DEF SrvrStep
<1>9. CASE VisitStep
    <2>1. PICK x \in Client : Visit(x) \/ Leave(x)
        BY <1>9 DEF VisitStep
    <2>2. CASE Visit(x)
        BY <1>3, <2>2, ConnectedKeeps DEF Visit, EndState
    <2>3. CASE Leave(x)
        BY <1>4, <2>3 DEF Leave, srvrVars
    <2>. QED BY <2>1, <2>2, <2>3
<1>10. CASE \E s \in Sub : SubStep(s)
    <2>1. PICK s \in Sub : SubStep(s)
        BY <1>10
    <2>2. CASE Subscribe(s)
        <3>1. CASE Connected(s, "sent")
            BY <1>3, <2>2, <3>1, ConnectedKeeps DEF Subscribe, EndState
        <3>. QED BY <1>4, <2>2, <3>1 DEF Subscribe
    <2>. QED BY <1>4, <2>1, <2>2
         DEF SubStep, BeTold, LoseConn, CreateSubNode, CreateSubNodeFails, EndSession, WakeUp,
             SignalSub, srvrVars
<1>. QED BY <1>6, <1>7, <1>8, <1>9, <1>10, Steps

-----------------------------------------------------------------------------
(* The programs *)

LEMMA InitIInv == Init => IInv
<1> USE ProgIs
<1>1. SUFFICES ASSUME Init PROVE IInv
    OBVIOUS
<1>2. MainsOK
    BY <1>1 DEF Init, MainsOK, PubState, SubState, Exited, Died
<1>3. NodesOK
    <2>1. /\ node \in [Prog -> Phase]
          /\ \A p \in Prog : comp[p] \in [Threads(p) -> Comp]
          /\ comp = [p \in Prog |-> NoThread(p)]
        BY <1>1 DEF Init, Phase, Comp, NoThread
    <2>2. comp \in [Prog -> CompSet]
        BY <2>1 DEF CompSet
    <2>3. <<>> \in Seq(Thread) /\ ToSet(<<>>) = {}
        BY DEF ToSet
    <2>4. toStart = [p \in Prog |-> <<>>] /\ toStop = [p \in Prog |-> <<>>]
        BY <1>1 DEF Init
    <2>. QED BY <2>1, <2>2, <2>3, <2>4 DEF NodesOK
<1>4. PhasesOK
    BY <1>1 DEF Init, PhasesOK, PhaseOf
<1>5. SemsOK
    BY <1>1, BoundAssumption DEF Init, SemsOK
<1>6. FailuresAreKept /\ FlagsOK
    BY <1>1 DEF Init, FailuresAreKept, FailureIsReported, FlagsOK
<1>7. ConnsOK
    <2>1. /\ \A S : <<>> \in Seq(S)
          /\ Len(<<>>) = 0
        BY EmptySeq
    <2>2. peer = <<>> /\ request = <<>> /\ end = <<>> /\ queue = <<>> /\ told = {}
        BY <1>1 DEF Init
    <2>. QED BY <2>1, <2>2, BoundAssumption DEF ConnsOK
<1>8. Busy = {} /\ Taken = 0 /\ threads = 0
    <2>1. DOMAIN request = {}
        BY <1>1 DEF Init
    <2>. QED BY <1>1, <2>1 DEF Init, Busy, Taken
<1>9. ThreadsAreCounted
    BY <1>8, FS_EmptySet DEF ThreadsAreCounted
<1>10. ServerOK
    BY <1>1, BoundAssumption DEF Init, ServerOK
<1>. QED BY <1>2, <1>3, <1>4, <1>5, <1>6, <1>7, <1>9, <1>10 DEF IInv

LEMMA StepIInv == IInv /\ [Next]_vars => IInv'
<1>1. ASSUME IInv, Next
      PROVE  IInv'
    <2>1. MainsOK' /\ NodesOK' /\ PhasesOK'
        BY <1>1, MainsStep, NodesStep, PhasesStep DEF IInv
    <2>2. SemsOK' /\ FlagsOK' /\ FailuresAreKept'
        BY <1>1, SemsStep, FlagsStep, FailuresStep DEF IInv
    <2>3. ConnsOK' /\ ServerOK' /\ ThreadsAreCounted'
        BY <1>1, ConnsStep, ServerStep DEF IInv
    <2>. QED BY <2>1, <2>2, <2>3 DEF IInv
<1>2. ASSUME IInv, UNCHANGED vars
      PROVE  IInv'
    <2>. USE <1>2 DEF IInv, vars, nodeVars, pubVars, srvrVars, connVars, histVars
    <2>1. MainsOK' /\ NodesOK' /\ PhasesOK'
        BY DEF MainsOK, NodesOK, PhasesOK, PhaseOf
    <2>2. SemsOK' /\ FlagsOK' /\ FailuresAreKept'
        BY DEF SemsOK, FlagsOK, FailuresAreKept, FailureIsReported
    <2>3. ConnsOK' /\ ServerOK' /\ ThreadsAreCounted'
        BY DEF ConnsOK, Conn, ServerOK, ThreadsAreCounted, Busy, Taken
    <2>. QED BY <2>1, <2>2, <2>3
<1>. QED BY <1>1, <1>2

LEMMA InvariantHolds == Spec => []IInv
BY InitIInv, StepIInv, PTL DEF Spec

(* Every value has its type and keeps its bound: semaphores are posted for  *)
(* failures, signals and one end only, and the server never counts more     *)
(* threads than it may have.                                                *)
THEOREM TypeCorrect == Spec => []TypeOK
<1>1. ASSUME IInv
      PROVE  TypeOK
    <2>. USE <1>1 DEF IInv
    <2>1. /\ main \in [Prog -> {"creating", "created", "waiting", "halting", "aborted", "crashed",
                          "subscribing", "reading", "running", "sleeping", "exit0", "exit2"}]
          /\ node \in [Prog -> {"off", "starting", "waiting", "stopping", "ended"}]
        BY DEF MainsOK, NodesOK, PubState, SubState, Exited, Died, Phase
    <2>2. \A p \in Prog :
              /\ comp[p] \in [Threads(p) -> {"off", "running", "ended"}]
              /\ ToSet(toStart[p]) \cup ToSet(toStop[p]) \subseteq Threads(p)
        BY DEF NodesOK, Comp
    <2>3. nodeSem \in [Prog -> 0 .. MaxFails + 1] /\ pubSem \in 0 .. MaxFails + MaxSignals + 1
        <3>1. fails <= MaxFails /\ signals <= MaxSignals /\ fails \in Nat /\ signals \in Nat
            BY BoundAssumption DEF SemsOK
        <3>2. \A p \in Prog : nodeSem[p] \in 0 .. MaxFails + 1
            BY <3>1, BoundAssumption DEF SemsOK
        <3>3. pubSem <= MaxFails + MaxSignals + 1
            <4>1. pubSem <= fails + signals + 1
                BY <3>1 DEF SemsOK
            <4>. QED BY <3>1, <4>1, BoundAssumption DEF SemsOK
        <3>. QED BY <3>2, <3>3, BoundAssumption DEF SemsOK
    <2>4. /\ Len(peer) \in Nat /\ Len(request) = Len(peer) /\ Len(end) = Len(peer)
          /\ request \in [1 .. Len(request) -> ReqState]
          /\ end \in [1 .. Len(end) -> EndState]
        BY LenProperties DEF ConnsOK
    <2>5. /\ request \in [Conn -> {"none", "reading", "writing"}]
          /\ end \in [Conn -> {"silent", "sent", "closed"}]
        BY <2>4 DEF Conn, ReqState, EndState
    <2>6. ToSet(queue) \subseteq Conn
        BY DEF ConnsOK, ToSet
    <2>. QED BY <2>1, <2>2, <2>3, <2>5, <2>6
         DEF TypeOK, FlagsOK, ServerOK, SemsOK, ConnsOK
<1>. QED BY <1>1, InvariantHolds, PTL

(* No thread of a node outlives it, and a publisher whose status is 0 had   *)
(* no failure: whatever fails while threads are started, run, or are        *)
(* joined, and in whatever order signals arrive (NodeImpl::run(),           *)
(* stopThreads(), publish.cpp's main()).                                    *)
THEOREM ExitIsCleanHolds == Spec => []ExitIsClean
<1>1. ASSUME IInv
      PROVE  ExitIsClean
    <2>. USE <1>1, ProgIs DEF IInv
    <2>1. ASSUME NEW p \in Prog,
                 main[p] \in {"subscribing", "reading", "creating", "sleeping"} \cup Exited
          PROVE  comp[p] = NoThread(p)
        <3>1. node[p] \in {"off", "ended"}
            <4>1. CASE p = Pub
                BY <2>1, <4>1 DEF MainsOK, PubState, Exited, Died
            <4>2. CASE p \in Sub
                BY <2>1, <4>2 DEF MainsOK, Exited
            <4>. QED BY <4>1, <4>2
        <3>. QED BY <3>1 DEF PhasesOK, PhaseOf
    <2>. QED BY <2>1 DEF ExitIsClean, ThreadsAreJoined, FailuresAreKept
<1>. QED BY <1>1, InvariantHolds, PTL

(* The server never has more threads for requests than it may have, though  *)
(* it decrements its counter in other threads than the one that waits until *)
(* it may increment it (runServer(), runSubRequest()).                      *)
THEOREM RequestsAreBounded == Spec => [](Cardinality(Busy) <= MaxThreads)
<1>1. ASSUME IInv
      PROVE  Cardinality(Busy) <= MaxThreads
    <2> DEFINE n == Cardinality(Busy)
    <2>1. n \in Nat
        BY <1>1, BusyIsFinite DEF IInv
    <2>2. n + Taken <= threads /\ threads <= MaxThreads /\ threads \in Nat /\ Taken \in {0, 1}
        BY <1>1, BoundAssumption DEF IInv, ServerOK, ThreadsAreCounted, Taken
    <2>. HIDE DEF n
    <2>3. n <= MaxThreads
        BY <2>1, <2>2, BoundAssumption
    <2>. QED BY <2>3 DEF n
<1>. QED BY <1>1, InvariantHolds, PTL

=============================================================================
