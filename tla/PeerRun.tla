------------------------------- MODULE PeerRun -------------------------------
(***************************************************************************)
(* The life of the two peers at the ends of a connection: BasePeerImpl,    *)
(* PubPeerImpl and SubPeerImpl of src/main/p2p/Peer.cpp and run() of       *)
(* PeerConnImpl in src/main/p2p/PeerConn.cpp, thread by thread.            *)
(*                                                                         *)
(* Each peer has a thread that executes run(), one that runs the           *)
(* connection, a reader for each of the three transports, a writer of      *)
(* notices, a thread for heartbeats and, once the remote peer has told what*)
(* products it has, a detached thread for the backlog. A transport holds a *)
(* few messages (the socket buffers): writers wait for room.               *)
(***************************************************************************)
EXTENDS Naturals, Sequences, SequencesExt, FiniteSets

CONSTANTS
  A, B,      \* The two peers
  Data,      \* Data: products or segments
  Setups,    \* Initial states: which peers are a publisher's, who has which data and
             \* which of "beat", "halt", "cut", "save" and "delete" may happen, once each
  Cap,       \* Number of messages that a transport holds in each direction
  None       \* No thread, no datum

Peers == {A, B}
Other(s) == IF s = A THEN B ELSE A
Xprts == {"notice", "request", "data"}
Threads == Xprts \cup {"run", "conn", "writer", "heart", "backlog"}

ASSUME PeersAssumption == A # B /\ Cap \in Nat \ {0} /\ None \notin Data

VARIABLES
  pub,       \* Peers that are a publisher's
  has,       \* What each node's repository has: "no", "yes" or "deleted"
  asked,     \* Data that the node's bookkeeper knows as requested
  wire,      \* Messages to each peer by transport
  pc,        \* Where each thread of each peer is
  item,      \* The message a reader or the notice writer handles
  backlog,   \* Data that the backlog thread has to announce
  owner,     \* Thread that holds stateMutex
  noticeQ,   \* Queue of notices
  stopNotices,
  connected, \* Connected to the remote peer?
  logged,    \* Lost connection has been logged?
  failed,    \* Peer's threadEx is set
  connEx,    \* Connection's threadEx is set
  stopSem,   \* Peer's stopSem was posted
  connSem,   \* Connection's stopSem was posted
  shut,      \* Reading of the transports was shut down
  requested, \* SubPeerImpl::requested
  cut,       \* What the network has done to the connection
  events     \* What may still happen

flags == <<connected, logged, failed, connEx, stopSem, connSem>>
node  == <<has, asked>>
vars  == <<pub, node, wire, pc, item, backlog, owner, noticeQ, stopNotices, flags, shut,
           requested, cut, events>>

-----------------------------------------------------------------------------
(* Messages and transports *)

Msg(kind, d) == [kind |-> kind, d |-> d]
Idle == Msg("none", None)
Held(s) == {d \in Data : has[s][d] = "yes"}

\* PeerConnImpl: the transport of each kind of message.
Shared(kind) == "notice"
XprtOf(kind) == CASE kind \in {"notice", "heartbeat"} -> "notice"
                  [] kind \in {"have", "request"}     -> "request"
                  [] kind = "datum"                   -> "data"

Gone(s) == pc[s]["run"] = "gone"
Lost(s) == cut # "no" \/ Gone(Other(s))
LossIsSeen(s) == Lost(s) /\ cut # "silent"
HasRoomForOneMore(q) == Len(q) <= Cap
HasRoom(q) == Len(q) < Cap
At(s, th, p) == pc[s][th] = p
Event(kind) == kind \in events /\ events' = events \ {kind}
Goto(s, th, p) == pc' = [pc EXCEPT ![s][th] = p]

\* connectionLost() and exceptionThrown(): run() is told to stop. The loss is
\* logged once, and only then sets "connected".
ConnectionLost(s) ==
  /\ logged' = [logged EXCEPT ![s] = TRUE]
  /\ connected' = [connected EXCEPT ![s] = logged[s] /\ @]
  /\ stopSem' = [stopSem EXCEPT ![s] = TRUE]
ExceptionThrown(s) ==
  /\ failed' = [failed EXCEPT ![s] = TRUE]
  /\ stopSem' = [stopSem EXCEPT ![s] = TRUE]

\* A write waits for room, and its result is what the peer takes for connected.
\* If the connection is lost it fails, or the operating system still accepts it.
Put(s, m) == LET x == XprtOf(m.kind)  q == wire[Other(s)][x] IN
  /\ connected' = [connected EXCEPT ![s] = TRUE]
  /\ \/ ~Lost(s) /\ HasRoom(q) /\ wire' = [wire EXCEPT ![Other(s)][x] = Append(q, m)]
     \/ LossIsSeen(s) /\ UNCHANGED wire
  /\ UNCHANGED <<logged, failed, connEx, stopSem, connSem>>
PutFails(s) ==
  /\ Lost(s)
  /\ connected' = [connected EXCEPT ![s] = FALSE]
  /\ logged' = [logged EXCEPT ![s] = TRUE]
  /\ stopSem' = [stopSem EXCEPT ![s] = TRUE]
  /\ UNCHANGED <<wire, failed, connEx, connSem>>

No == [s \in Peers |-> FALSE]
Init ==
  \E setup \in Setups :
    /\ pub = setup.pub
    /\ has = [s \in Peers |-> [d \in Data |-> IF d \in setup.has[s] THEN "yes" ELSE "no"]]
    /\ asked = [s \in Peers |-> {}]
    /\ wire = [s \in Peers |-> [x \in Xprts |-> <<>>]]
    /\ pc = [s \in Peers |-> [th \in Threads |-> IF th = "run" THEN "init" ELSE "none"]]
    /\ item = [s \in Peers |-> [th \in Xprts \cup {"writer"} |-> Idle]]
    /\ backlog = [s \in Peers |-> {}]
    /\ owner = [s \in Peers |-> None]
    /\ noticeQ = [s \in Peers |-> <<>>]
    /\ requested = [s \in Peers |-> <<>>]
    /\ connected = [s \in Peers |-> TRUE]
    /\ stopNotices = No /\ logged = No /\ failed = No /\ connEx = No
    /\ stopSem = No /\ connSem = No /\ shut = No
    /\ cut = "no" /\ events = setup.events

-----------------------------------------------------------------------------
(* The thread that executes run() *)

\* startImpl(), with startThreads() of the connection: no message is read before.
\* A subscriber's peer then requests the backlog.
Start(s) ==
  /\ At(s, "run", "init")
  /\ pc' = [pc EXCEPT ![s] = [th \in Threads |->
              CASE th = "run" -> IF s \in pub THEN "wait" ELSE "have"
                [] th = "writer" -> "wait"
                [] th = "heart" -> "sleep"
                [] th = "conn" -> "wait"
                [] th \in Xprts -> "read"
                [] OTHER -> "none"]]
  /\ owner' = [owner EXCEPT ![s] = IF s \in pub THEN None ELSE "run"]
  /\ UNCHANGED <<pub, node, wire, item, backlog, noticeQ, stopNotices, flags, shut, requested, cut, events>>

\* requestBacklog(): with stateMutex locked.
RequestBacklog(s) ==
  /\ At(s, "run", "have")
  /\ Goto(s, "run", "wait") /\ owner' = [owner EXCEPT ![s] = None]
  /\ Put(s, [kind |-> "have", d |-> Held(s)]) \/ PutFails(s)
  /\ UNCHANGED <<pub, node, item, backlog, noticeQ, stopNotices, shut, requested, cut, events>>

\* stopImpl(): with stateMutex locked, halts the connection and joins its thread.
StopConn(s) ==
  /\ At(s, "run", "wait") /\ stopSem[s] /\ owner[s] = None
  /\ Goto(s, "run", "joinConn")
  /\ owner' = [owner EXCEPT ![s] = "run"]
  /\ connSem' = [connSem EXCEPT ![s] = TRUE]
  /\ UNCHANGED <<pub, node, wire, item, backlog, noticeQ, stopNotices, connected, logged, failed,
                 connEx, stopSem, shut, requested, cut, events>>

\* stopHeartbeat() cancels the thread and joins it; the notice writer is told.
NotCancelled(th, p) == p
Cancelled(th, p) == IF th = "heart" THEN "ended" ELSE p
StopWriters(s) ==
  /\ At(s, "run", "joinConn") /\ At(s, "conn", "ended")
  /\ pc' = [pc EXCEPT ![s] = [th \in Threads |->
              IF th = "run" THEN "joinWriter" ELSE Cancelled(th, @[th])]]
  /\ stopNotices' = [stopNotices EXCEPT ![s] = TRUE]
  /\ UNCHANGED <<pub, node, wire, item, backlog, owner, noticeQ, flags, shut, requested, cut, events>>

Return(s) ==
  /\ At(s, "run", "joinWriter") /\ At(s, "writer", "ended")
  /\ Goto(s, "run", "returned")
  /\ owner' = [owner EXCEPT ![s] = None]
  /\ UNCHANGED <<pub, node, wire, item, backlog, noticeQ, stopNotices, flags, shut, requested, cut, events>>

\* runPeer(): drains the requests, removes the peer and so destroys it, which
\* closes the transports.
RemovePeer(s) ==
  /\ At(s, "run", "returned") /\ owner[s] = None
  /\ Goto(s, "run", "gone")
  /\ requested' = [requested EXCEPT ![s] = <<>>]
  /\ noticeQ' = [noticeQ EXCEPT ![s] = <<>>]
  /\ wire' = [wire EXCEPT ![s] = [x \in Xprts |-> <<>>]]
  /\ UNCHANGED <<pub, node, item, backlog, owner, stopNotices, flags, shut, cut, events>>

-----------------------------------------------------------------------------
(* The thread that runs the connection *)

\* stopThreads(): shuts reading down and joins the readers.
NotShutDown(f, s) == f
ShutDown(f, s) == [f EXCEPT ![s] = TRUE]
StopThreads(s) ==
  /\ At(s, "conn", "wait") /\ connSem[s]
  /\ Goto(s, "conn", "join")
  /\ shut' = ShutDown(shut, s)
  /\ UNCHANGED <<pub, node, wire, item, backlog, owner, noticeQ, stopNotices, flags, requested, cut, events>>

\* runConn() after the connection's run() has returned or thrown.
EndConn(s) ==
  /\ At(s, "conn", "join") /\ \A x \in Xprts : At(s, x, "ended")
  /\ Goto(s, "conn", "ended")
  /\ IF connEx[s] THEN ExceptionThrown(s) /\ UNCHANGED <<connected, logged>>
                  ELSE ConnectionLost(s) /\ UNCHANGED failed
  /\ UNCHANGED <<pub, node, wire, item, backlog, owner, noticeQ, stopNotices, connEx, connSem,
                 shut, requested, cut, events>>

-----------------------------------------------------------------------------
(* The readers *)

\* runReader() ends when a read finds nothing more or fails, or the peer throws.
EndReaders(s, xs, thrown) ==
  /\ pc' = [pc EXCEPT ![s] = [th \in Threads |-> IF th \in xs THEN "ended" ELSE @[th]]]
  /\ connEx' = [connEx EXCEPT ![s] = @ \/ thrown]
  /\ connSem' = [connSem EXCEPT ![s] = TRUE]
  /\ UNCHANGED <<connected, logged, failed, stopSem>>

\* A reader reads on after a shutdown until the buffer is empty. The data of a
\* lost connection may or may not be read. Readers that wait see the end at once.
AtEof(s, x) == At(s, x, "read") /\ (LossIsSeen(s) \/ (shut[s] /\ wire[s][x] = <<>>))
Eof(s) ==
  /\ \E x \in Xprts : AtEof(s, x)
  /\ EndReaders(s, {x \in Xprts : AtEof(s, x)}, cut = "error")
  /\ UNCHANGED <<pub, node, wire, item, backlog, owner, noticeQ, stopNotices, shut, requested, cut, events>>

\* The manager wants what the node doesn't have and hasn't requested.
Wanted(s, d) == has[s][d] # "yes" /\ d \notin asked[s]

\* recv(): reads a message and dispatches it.
Read(s, x) ==
  LET m == Head(wire[s][x]) IN
  /\ At(s, x, "read") /\ wire[s][x] # <<>>
  /\ wire' = [wire EXCEPT ![s][x] = Tail(@)]
  /\ \/ /\ m.kind = "notice" /\ Wanted(s, m.d)
        /\ asked' = [asked EXCEPT ![s] = @ \cup {m.d}]
        /\ Goto(s, x, "push") /\ item' = [item EXCEPT ![s][x] = Msg("request", m.d)]
        /\ UNCHANGED backlog
     \/ /\ m.kind = "have" \* recvHaveProds(): only once
        /\ pc' = [pc EXCEPT ![s]["backlog"] = IF @ = "none" THEN "run" ELSE @]
        /\ backlog' = [backlog EXCEPT ![s] = IF At(s, "backlog", "none") THEN Held(s) \ m.d ELSE @]
        /\ UNCHANGED <<asked, item>>
     \/ /\ m.kind = "request" /\ m.d \in Held(s)
        /\ Goto(s, x, "write") /\ item' = [item EXCEPT ![s][x] = Msg("datum", m.d)]
        /\ UNCHANGED <<asked, backlog>>
     \/ /\ m.kind = "datum"
        /\ Goto(s, x, "take") /\ item' = [item EXCEPT ![s][x] = m]
        /\ UNCHANGED <<asked, backlog>>
     \/ /\ \/ m.kind = "heartbeat"
           \/ m.kind = "notice" /\ ~Wanted(s, m.d)
           \/ m.kind = "request" /\ m.d \notin Held(s)
        /\ UNCHANGED <<pc, item, asked, backlog>>
  /\ UNCHANGED <<pub, has, owner, noticeQ, stopNotices, flags, shut, requested, cut, events>>

\* request(): the request is queued with stateMutex locked ...
PushedAtHead(q, d) == <<d>> \o q
Pushed(q, d) == Append(q, d)
PushRequest(s, x) ==
  /\ At(s, x, "push") /\ owner[s] = None
  /\ requested' = [requested EXCEPT ![s] = Pushed(@, item[s][x].d)]
  /\ Goto(s, x, "write")
  /\ UNCHANGED <<pub, node, wire, item, backlog, owner, noticeQ, stopNotices, flags, shut, cut, events>>

\* ... and written after it was unlocked; so is an answer in recvRequest().
Write(s, x) ==
  /\ At(s, x, "write")
  /\ Goto(s, x, "read") /\ item' = [item EXCEPT ![s][x] = Idle]
  /\ Put(s, item[s][x]) \/ PutFails(s)
  /\ UNCHANGED <<pub, node, backlog, owner, noticeQ, stopNotices, shut, requested, cut, events>>

\* processDatum(): with stateMutex locked. The requests before the one for the
\* datum are missed. A datum that wasn't requested ends the reader.
After(q, d) == SubSeq(q, (CHOOSE k \in DOMAIN q : q[k] = d) + 1, Len(q))
TakeDatum(s, x) ==
  LET d == item[s][x].d IN
  /\ At(s, x, "take") /\ owner[s] = None
  /\ item' = [item EXCEPT ![s][x] = Idle]
  /\ IF d \in Range(requested[s])
     THEN /\ requested' = [requested EXCEPT ![s] = After(@, d)]
          /\ has' = [has EXCEPT ![s][d] = "yes"]
          /\ asked' = [asked EXCEPT ![s] = @ \ {d}]
          /\ Goto(s, x, "read") /\ UNCHANGED flags
     ELSE EndReaders(s, {x}, TRUE) /\ UNCHANGED <<requested, node>>
  /\ UNCHANGED <<pub, wire, backlog, owner, noticeQ, stopNotices, shut, cut, events>>

Reader(s, x) == Read(s, x) \/ PushRequest(s, x) \/ Write(s, x) \/ TakeDatum(s, x)

-----------------------------------------------------------------------------
(* Notices and heartbeats *)

\* addNotice(): a publisher's peer gets no notices. It throws if the peer has
\* failed, which is its caller's problem.
AddNotice(s, d) ==
  noticeQ' = [noticeQ EXCEPT ![s] =
                IF connected[s] /\ Other(s) \notin pub /\ ~failed[s] THEN Append(@, Msg("notice", d)) ELSE @]

\* runNoticeWriter()
WriterEnds(s) ==
  /\ At(s, "writer", "wait") /\ (stopNotices[s] \/ ~connected[s])
  /\ Goto(s, "writer", "ended")
  /\ ConnectionLost(s)
  /\ UNCHANGED <<pub, node, wire, item, backlog, owner, noticeQ, stopNotices, failed, connEx,
                 connSem, shut, requested, cut, events>>
TakeNotice(s) ==
  /\ At(s, "writer", "wait") /\ ~stopNotices[s] /\ connected[s] /\ noticeQ[s] # <<>>
  /\ Goto(s, "writer", "write")
  /\ item' = [item EXCEPT ![s]["writer"] = Head(noticeQ[s])]
  /\ noticeQ' = [noticeQ EXCEPT ![s] = Tail(@)]
  /\ UNCHANGED <<pub, node, wire, backlog, owner, stopNotices, flags, shut, requested, cut, events>>
WriteNotice(s) ==
  /\ At(s, "writer", "write")
  /\ Goto(s, "writer", "wait") /\ item' = [item EXCEPT ![s]["writer"] = Idle]
  /\ \/ Put(s, item[s]["writer"])
     \/ /\ Lost(s) /\ connected' = [connected EXCEPT ![s] = FALSE]
        /\ UNCHANGED <<wire, logged, failed, connEx, stopSem, connSem>>
  /\ UNCHANGED <<pub, node, backlog, owner, noticeQ, stopNotices, shut, requested, cut, events>>
Writer(s) == WriterEnds(s) \/ TakeNotice(s) \/ WriteNotice(s)

\* runHeartbeat(): a heartbeat is queued if the queue is empty.
BeatsUnlessPub(s) == Other(s) \notin pub
Beats(s) == TRUE
Beat(s) ==
  /\ At(s, "heart", "sleep") /\ noticeQ[s] = <<>> /\ Beats(s)
  /\ IF cut = "silent" THEN UNCHANGED events ELSE Event("beat")
  /\ IF failed[s] \/ ~connected[s]
     THEN /\ Goto(s, "heart", "ended")
          /\ IF failed[s] THEN ExceptionThrown(s) ELSE UNCHANGED <<failed, stopSem>>
          /\ UNCHANGED noticeQ
     ELSE /\ noticeQ' = [noticeQ EXCEPT ![s] = <<Msg("heartbeat", None)>>]
          /\ UNCHANGED <<pc, failed, stopSem>>
  /\ UNCHANGED <<pub, node, wire, item, backlog, owner, stopNotices, connected, logged, connEx,
                 connSem, shut, requested, cut>>

\* runBacklog(): announces what the remote peer misses. The thread is detached:
\* once its peer is gone there is nothing left that it may use.
Backlog(s) ==
  /\ At(s, "backlog", "run") /\ ~Gone(s)
  /\ IF backlog[s] = {} \/ failed[s]
     THEN /\ Goto(s, "backlog", "ended")
          /\ IF failed[s] THEN ExceptionThrown(s) ELSE UNCHANGED <<failed, stopSem>>
          /\ UNCHANGED <<backlog, noticeQ>>
     ELSE \E d \in backlog[s] :
            /\ backlog' = [backlog EXCEPT ![s] = @ \ {d}]
            /\ AddNotice(s, d)
            /\ UNCHANGED <<pc, failed, stopSem>>
  /\ UNCHANGED <<pub, node, wire, item, owner, stopNotices, connected, logged, connEx, connSem,
                 shut, requested, cut, events>>

-----------------------------------------------------------------------------
(* The nodes and the network *)

\* The node gets a datum from elsewhere and notifies the peer.
Save(s, d) ==
  /\ Event("save") /\ has[s][d] = "no" /\ pc[s]["run"] \in {"have", "wait", "joinConn", "joinWriter"}
  /\ has' = [has EXCEPT ![s][d] = "yes"]
  /\ AddNotice(s, d)
  /\ UNCHANGED <<pub, asked, wire, pc, item, backlog, owner, stopNotices, flags, shut, requested, cut>>

Delete(s, d) ==
  /\ Event("delete") /\ has[s][d] = "yes" /\ has' = [has EXCEPT ![s][d] = "deleted"]
  /\ UNCHANGED <<pub, asked, wire, pc, item, backlog, owner, noticeQ, stopNotices, flags, shut, requested, cut>>

Halt(s) ==
  /\ Event("halt") /\ ~Gone(s) /\ ~stopSem[s] /\ stopSem' = [stopSem EXCEPT ![s] = TRUE]
  /\ UNCHANGED <<pub, node, wire, pc, item, backlog, owner, noticeQ, stopNotices, connected, logged,
                 failed, connEx, connSem, shut, requested, cut>>

\* The connection is reset, reads fail, or the remote host just can't be reached
\* any more, which only a write finds out.
Cut ==
  /\ Event("cut") /\ cut = "no" /\ cut' \in {"reset", "error", "silent"}
  /\ UNCHANGED <<pub, node, wire, pc, item, backlog, owner, noticeQ, stopNotices, flags, shut, requested>>

Run(s) == Start(s) \/ RequestBacklog(s) \/ StopConn(s) \/ StopWriters(s) \/ Return(s) \/ RemovePeer(s)
Conn(s) == StopThreads(s) \/ EndConn(s)
PeerStep(s) == \/ Run(s) \/ Conn(s) \/ Writer(s) \/ Beat(s) \/ Backlog(s) \/ Eof(s)
               \/ \E x \in Xprts : Reader(s, x)
Environment == \/ \E s \in Peers : Halt(s) \/ \E d \in Data : Save(s, d) \/ Delete(s, d)
               \/ Cut
Next == (\E s \in Peers : PeerStep(s)) \/ Environment

Spec == Init /\ [][Next]_vars

\* As long as a thread of a peer can go on, one does. Nobody needs to halt a
\* peer, and data needn't come or go.
FairSpec == Spec /\ WF_vars(\E s \in Peers : PeerStep(s))

-----------------------------------------------------------------------------
(* Properties *)

Msgs == {Idle, Msg("heartbeat", None)} \cup {Msg(k, d) : k \in {"notice", "request", "datum"}, d \in Data}
          \cup {[kind |-> "have", d |-> ds] : ds \in SUBSET Data}

\* The variables have their types, no transport holds more than it has room for,
\* and when run() has returned, no thread uses the peer but the one for the
\* backlog, which is detached (Peer.cpp, stopImpl()).
TypeOK ==
  /\ pub \subseteq Peers
  /\ has \in [Peers -> [Data -> {"no", "yes", "deleted"}]] /\ asked \in [Peers -> SUBSET Data]
  /\ pc \in [Peers -> [Threads -> {"none", "init", "have", "wait", "joinConn", "joinWriter", "returned",
                                   "gone", "start", "join", "read", "push", "write", "take", "sleep",
                                   "run", "ended"}]]
  /\ \A s \in Peers, x \in Xprts : wire[s][x] \in Seq(Msgs) /\ Len(wire[s][x]) <= Cap
  /\ item \in [Peers -> [Xprts \cup {"writer"} -> Msgs]]
  /\ backlog \in [Peers -> SUBSET Data] /\ owner \in [Peers -> {None, "run"}]
  /\ \A s \in Peers : noticeQ[s] \in Seq(Msgs) /\ requested[s] \in Seq(Data)
  /\ \A f \in {stopNotices, connected, logged, failed, connEx, stopSem, connSem, shut} :
       f \in [Peers -> BOOLEAN]
  /\ cut \in {"no", "reset", "error", "silent"} /\ events \subseteq {"beat", "halt", "cut", "save", "delete"}
  /\ \A s \in Peers : pc[s]["run"] \in {"returned", "gone"} =>
        \A th \in Threads \ {"run", "backlog"} : pc[s][th] \in {"none", "ended"}

\* The requests and answers under way between two peers, oldest first.
Ds(q) == [k \in DOMAIN q |-> q[k].d]
Has(s, x, kind) == IF item[s][x].kind = kind THEN <<item[s][x].d>> ELSE <<>>
Written(s) == LET t == Other(s) IN
  Has(s, "data", "datum") \o Ds(wire[s]["data"]) \o Has(t, "request", "datum")
    \o Ds(SelectSeq(wire[t]["request"], LAMBDA m : m.kind = "request"))

\* Answers come in the order of the requests: what is under way is, in order,
\* among the requests that the peer remembers, so that no datum is taken for one
\* that wasn't requested or makes the peer give up a request that is answered
\* later (RequestQ, processDatum()).
InFlightIsRequested ==
  \A s \in Peers : ~Gone(s) =>
      SelectSeq(requested[s], LAMBDA d : d \in Range(Written(s))) = Written(s)

\* Nothing is amiss with a peer: it runs and nobody has told it to stop.
Up(s) == ~stopSem[s] /\ ~connSem[s] /\ cut = "no"

\* The transports don't block each other, however few messages they hold: what
\* one peer's node has gets to the other as long as both peers run ("it won't
\* deadlock", PeerConnImpl), and unless it is deleted meanwhile.
Delivered ==
  \A s \in Peers, d \in Data :
    (s \notin pub /\ has[Other(s)][d] = "yes") ~>
      (has[s][d] # "no" \/ has[Other(s)][d] = "deleted" \/ \E t \in Peers : ~Up(t))

\* A thread of s waits for a mutex that run() holds while it waits for the
\* thread, or for room at the remote peer, which doesn't read any more.
Hangs(s) ==
  \/ pc[s]["run"] = "joinConn" /\ \E x \in Xprts : pc[s][x] \in {"push", "take"}
  \/ \E th \in Xprts \cup {"writer", "run"} : pc[s][th] \in {"write", "have"}
       /\ \E x \in Xprts : pc[Other(s)][x] # "read" /\ Len(wire[Other(s)][x]) = Cap

\* A peer that was told to stop is removed, or hangs for one of two reasons.
StopsOrHangs == \A s \in Peers : stopSem[s] ~> (Gone(s) \/ []Hangs(s))

\* A peer stops when its remote peer can't be reached, because it sends
\* heartbeats, even if it has nothing to say (runHeartbeat()).
LossIsNoticed == \A s \in Peers : (cut = "silent") ~> stopSem[s]

\* Every peer comes to its end: when it was told to, and when its remote peer is lost.
PeersEnd == StopsOrHangs /\ LossIsNoticed

\* "halt(): Halts this instance. Causes run() to return." (Peer.h)
RunReturns == \A s \in Peers : stopSem[s] ~> pc[s]["run"] \in {"returned", "gone"}

=============================================================================
