---------------------------- MODULE PeerConnSrvr ----------------------------
(***************************************************************************)
(* How peers get connected: the client side of PeerConnImpl (connect())    *)
(* and PeerConnSrvrImpl of src/main/p2p/PeerConn.cpp.                      *)
(*                                                                         *)
(* A connection consists of three TCP connections ("transports"). They are *)
(* made concurrently, reach the server in any order and are recognized by  *)
(* what the client writes on each: the port number of the first, then the  *)
(* number of the transport. One thread of the server accepts sockets, reads*)
(* the port numbers, gathers transports with the same key in a factory and *)
(* puts a complete connection in acceptQ. accept() takes it from there.    *)
(***************************************************************************)
EXTENDS Naturals, Sequences, SequencesExt, FiniteSets

CONSTANTS
  Attempts,  \* Attempts of clients to connect
  HostOf,    \* Internet address of the client of each attempt
  Ports,     \* Local port numbers of notice transports
  QSize,     \* maxPendConn: size of the queue of accepted connections
  NoPort,    \* No port number
  Sentinel   \* The "done" sentinel of acceptQ: a connection that tests false

XprtIds == 0..2
Xprts == Attempts \X XprtIds

ASSUME AttemptsAssumption ==
  /\ HostOf \in [Attempts -> Range(HostOf)]
  /\ QSize \in Nat \ {0}
  /\ NoPort \notin Ports

VARIABLES
  st,        \* State of each attempt
  port,      \* Port number of its notice transport
  conn,      \* Its transports that are connected
  sent,      \* Number of items that it has written: two on each transport
  backlog,   \* Sockets that wait to be accepted
  lst,       \* State of the thread that accepts sockets
  factory,   \* PeerConnFactory::peerConns: incomplete connections by key
  acceptQ,   \* Queue of accepted connections
  closed,    \* Transports that the server's side has closed
  served,    \* Connections that accept() has returned
  stop,      \* "no", "halted", "done" (accept() has returned false), "gone"
  dropped    \* History: transports closed because acceptQ was full

client == <<st, port, conn, sent>>
server == <<lst, factory, acceptQ, closed, served, stop, dropped>>
vars   == <<client, backlog, server>>

-----------------------------------------------------------------------------
(* The two ends of a transport *)

Open(a) == st[a] \in {"connecting", "sending", "waiting", "served"}

\* Items that were written on a transport: its port number, then its ID.
Written(t) == Cardinality({n \in {2 * t[2], 2 * t[2] + 1} : n < sent[t[1]]})
AtEof(t, n) == ~Open(t[1]) /\ Written(t) < n

\* A transport's key in the factory: its remote address with the notice port.
KeyOfHost(t) == <<HostOf[t[1]], NoPort>>
Key(t) == <<HostOf[t[1]], port[t[1]]>>

Entry(k) == IF k \in DOMAIN factory THEN factory[k] ELSE <<>>
Kept(f, k) == f
Removed(f, k) == [x \in DOMAIN f \ {k} |-> f[x]]
InFactory == UNION {ToSet(factory[k]) : k \in DOMAIN factory}

Conns == {c \in ToSet(acceptQ) : c # Sentinel} \cup served
InConn(c) == {c[r] : r \in XprtIds}
NoConn == <<>>
Accepting == [pc |-> "accept", xprt |-> NoConn, xprts |-> <<>>, k |-> 0]

Init ==
  /\ st = [a \in Attempts |-> "idle"]
  /\ port = [a \in Attempts |-> NoPort]
  /\ conn = [a \in Attempts |-> {}]
  /\ sent = [a \in Attempts |-> 0]
  /\ backlog = <<>>
  /\ lst = Accepting
  /\ factory = <<>>
  /\ acceptQ = <<>>
  /\ closed = {}
  /\ served = {}
  /\ stop = "no"
  /\ dropped = {}

-----------------------------------------------------------------------------
(* A client *)

\* The operating system chooses a port that no other socket of the host uses.
Start(a) ==
  /\ st[a] = "idle"
  /\ \E p \in Ports :
       /\ \A b \in Attempts : Open(b) /\ HostOf[b] = HostOf[a] => port[b] # p
       /\ port' = [port EXCEPT ![a] = p]
  /\ st' = [st EXCEPT ![a] = "connecting"]
  /\ UNCHANGED <<conn, sent, backlog, server>>

\* asyncConnectXprt(): the listening socket queues three sockets per connection.
Connect(a, i) ==
  /\ st[a] = "connecting" /\ i \notin conn[a] /\ stop = "no"
  /\ Len(backlog) < 3 * QSize
  /\ conn' = [conn EXCEPT ![a] = @ \cup {i}]
  /\ backlog' = Append(backlog, <<a, i>>)
  /\ st' = [st EXCEPT ![a] = IF conn'[a] = XprtIds THEN "sending" ELSE @]
  /\ UNCHANGED <<port, sent, server>>

\* sendXprtIds(): all transports are connected; each gets the port, then its ID.
InOrder(a) == sent[a] \div 2
SendXprtId(a) ==
  /\ st[a] = "sending"
  /\ <<a, InOrder(a)>> \notin closed
  /\ sent' = [sent EXCEPT ![a] = @ + 1]
  /\ st' = [st EXCEPT ![a] = IF sent'[a] = 6 THEN "waiting" ELSE @]
  /\ UNCHANGED <<port, conn, backlog, server>>

\* The peer's construction has returned; the peer reads its notice transport.
BeServed(a) ==
  /\ st[a] = "waiting"
  /\ \E c \in served : c[0] = <<a, 0>>
  /\ st' = [st EXCEPT ![a] = "served"]
  /\ UNCHANGED <<port, conn, sent, backlog, server>>

\* A transport couldn't be connected or written, the connection was lost or the
\* client ends. The operating system closes all transports.
Sees(a) == \/ st[a] = "connecting" /\ (stop # "no" \/ Len(backlog) = 3 * QSize)
           \/ st[a] = "sending" /\ <<a, InOrder(a)>> \in closed
           \/ st[a] \in {"waiting", "served"} /\ <<a, 0>> \in closed
Closed(a) ==
  /\ st' = [st EXCEPT ![a] = "closed"]
  /\ UNCHANGED <<port, conn, sent, backlog, server>>
Lose(a) == Open(a) /\ Sees(a) /\ Closed(a)
Leave(a) == Open(a) /\ Closed(a)

-----------------------------------------------------------------------------
(* The thread that accepts sockets *)

\* The server's side of some transports is closed: nothing refers to them.
Close(ts) == closed' = closed \cup ts

AcceptSock ==
  /\ lst.pc = "accept" /\ stop = "no" /\ backlog # <<>>
  /\ lst' = [lst EXCEPT !.pc = "port", !.xprt = Head(backlog)]
  /\ backlog' = Tail(backlog)
  /\ UNCHANGED <<client, factory, acceptQ, closed, served, stop, dropped>>

\* processSock(): the thread blocks until the port number arrives. A transport
\* that comes when the queue is full isn't kept.
FullByOne == Len(acceptQ) > QSize
Full == Len(acceptQ) >= QSize
ReadPort ==
  LET t == lst.xprt  k == Key(t)  xprts == Append(Entry(k), t) IN
  /\ lst.pc = "port" /\ Written(t) >= 1
  /\ IF Full
     THEN /\ Close({t}) /\ dropped' = dropped \cup {t}
          /\ lst' = Accepting
          /\ UNCHANGED factory
     ELSE /\ IF Len(xprts) = 3
             THEN /\ lst' = [Accepting EXCEPT !.pc = "ids", !.xprts = xprts]
                  /\ factory' = Removed(factory, k)
             ELSE /\ lst' = Accepting
                  /\ factory' = [x \in DOMAIN factory \cup {k} |-> IF x = k THEN xprts ELSE factory[x]]
          /\ UNCHANGED <<closed, dropped>>
  /\ UNCHANGED <<client, backlog, acceptQ, served, stop>>

ReadPortEof ==
  /\ lst.pc = "port" /\ AtEof(lst.xprt, 1)
  /\ lst' = Accepting
  /\ Close({lst.xprt})
  /\ UNCHANGED <<client, backlog, factory, acceptQ, served, stop, dropped>>

\* setXprts(): the ID-s are read with the mutex locked.
InOrderOfArrival(ids, idx) == \A r \in XprtIds : idx[r] = r + 1
XprtIndexes(ids, idx) ==
  \A k \in 1..3 : (\A j \in 1..3 : ids[j] = ids[k] => j <= k) => idx[ids[k]] = k

\* The transports of a connection by their ID. An index that wasn't set is
\* an uninitialized integer: any element of the array, or no transport.
SetXprts ==
  LET ids == [k \in 1..3 |-> lst.xprts[k][2]] IN
  \E idx \in [XprtIds -> 1..3] :
    /\ XprtIndexes(ids, idx)
    /\ acceptQ' = Append(acceptQ, [r \in XprtIds |-> lst.xprts[idx[r]]])
    /\ Close(ToSet(lst.xprts) \ {lst.xprts[idx[r]] : r \in XprtIds})
    /\ lst' = Accepting

ReadXprtId ==
  /\ lst.pc = "ids" /\ Written(lst.xprts[lst.k + 1]) = 2
  /\ IF lst.k < 2 THEN lst' = [lst EXCEPT !.k = @ + 1] /\ UNCHANGED <<acceptQ, closed>>
                  ELSE SetXprts
  /\ UNCHANGED <<client, backlog, factory, served, stop, dropped>>

\* setXprts() throws: acceptSocks() logs the exception and returns.
ReadXprtIdEof ==
  /\ lst.pc = "ids" /\ AtEof(lst.xprts[lst.k + 1], 2)
  /\ lst' = [Accepting EXCEPT !.pc = "failed"]
  /\ Close(ToSet(lst.xprts))
  /\ UNCHANGED <<client, backlog, factory, acceptQ, served, stop, dropped>>

\* An integer that wasn't set isn't an index: the process ends, and all with it.
Garbage ==
  /\ lst.pc = "ids" /\ lst.k = 2 /\ Written(lst.xprts[3]) = 2
  /\ Cardinality({lst.xprts[k][2] : k \in 1..3}) < 3
  /\ lst' = [Accepting EXCEPT !.pc = "failed"]
  /\ Close(Xprts)
  /\ stop' = "gone"
  /\ UNCHANGED <<client, backlog, factory, acceptQ, served, dropped>>

\* accept() returned no socket because the listening socket was shut down.
NotEmptied == acceptQ
Emptied == <<Sentinel>>
AcceptNone ==
  /\ lst.pc = "accept" /\ stop \in {"halted", "done"}
  /\ lst' = [Accepting EXCEPT !.pc = "ended"]
  /\ acceptQ' = Emptied
  /\ Close(UNION {InConn(c) : c \in ToSet(acceptQ)})
  /\ UNCHANGED <<client, backlog, factory, served, stop, dropped>>

Listener == AcceptSock \/ ReadPort \/ ReadPortEof \/ ReadXprtId \/ ReadXprtIdEof
              \/ Garbage \/ AcceptNone

-----------------------------------------------------------------------------
(* Users of the server *)

MutexIsFree == lst.pc # "ids"

\* accept(): the sentinel stays in the queue.
Accept ==
  /\ MutexIsFree /\ acceptQ # <<>> /\ stop \in {"no", "halted"}
  /\ IF Head(acceptQ) = Sentinel
     THEN stop' = "done" /\ UNCHANGED <<acceptQ, served>>
     ELSE /\ acceptQ' = Tail(acceptQ)
          /\ served' = served \cup {Head(acceptQ)}
          /\ UNCHANGED stop
  /\ UNCHANGED <<client, backlog, lst, factory, closed, dropped>>

\* A peer's run() ends when it reads the end of one of its transports.
Hangup(c) ==
  /\ c \in served /\ \E t \in InConn(c) : ~Open(t[1]) \/ t \in closed
  /\ served' = served \ {c}
  /\ Close(InConn(c))
  /\ UNCHANGED <<client, backlog, lst, factory, acceptQ, stop, dropped>>

\* halt(): shutting the listening socket down resets what wasn't accepted.
Halt ==
  /\ stop = "no"
  /\ stop' = "halted"
  /\ backlog' = <<>>
  /\ Close(ToSet(backlog))
  /\ UNCHANGED <<client, lst, factory, acceptQ, served, dropped>>

\* The server is destroyed once its user has seen the sentinel.
Destroy ==
  /\ stop = "done"
  /\ stop' = "gone"
  /\ factory' = <<>>
  /\ Close(InFactory)
  /\ UNCHANGED <<client, backlog, lst, acceptQ, served, dropped>>

ServerNext == Listener \/ Accept \/ Halt \/ Destroy \/ \E c \in served : Hangup(c)
ClientNext(a) == \/ Start(a) \/ SendXprtId(a) \/ BeServed(a) \/ Lose(a) \/ Leave(a)
                 \/ \E i \in XprtIds : Connect(a, i)
Next == ServerNext \/ \E a \in Attempts : ClientNext(a)

Spec == Init /\ [][Next]_vars

\* Threads run and clients go on; a client needn't start, leave or be halted.
ClientFairness(a) == /\ WF_vars(SendXprtId(a)) /\ WF_vars(BeServed(a)) /\ WF_vars(Lose(a))
                     /\ WF_vars(\E i \in XprtIds : Connect(a, i))
ServerFairness == WF_vars(Listener) /\ WF_vars(Accept) /\ WF_vars(Destroy)
                    /\ WF_vars(\E c \in served : Hangup(c))
FairSpec == Spec /\ ServerFairness /\ \A a \in Attempts : ClientFairness(a)

-----------------------------------------------------------------------------
(* Properties *)

States == {"idle", "connecting", "sending", "waiting", "served", "closed"}

\* Types; no connection stays in the factory once it is complete, and the queue
\* keeps its limit.
TypeOK ==
  /\ st \in [Attempts -> States]
  /\ port \in [Attempts -> Ports \cup {NoPort}]
  /\ conn \in [Attempts -> SUBSET XprtIds] /\ sent \in [Attempts -> 0..6]
  /\ backlog \in Seq(Xprts) /\ closed \subseteq Xprts /\ dropped \subseteq Xprts
  /\ lst.pc \in {"accept", "port", "ids", "failed", "ended"}
  /\ \A k \in DOMAIN factory : factory[k] \in Seq(Xprts) /\ Len(factory[k]) \in {1, 2}
  /\ \A c \in Conns : c \in [XprtIds -> Xprts]
  /\ Len(acceptQ) <= QSize
  /\ stop \in {"no", "halted", "done", "gone"}

\* Three transports make a connection only if they come from one attempt and
\* each has its role, in whatever order they reached the server, unless an
\* earlier attempt with the same key was given up (PeerConnFactory, setXprts()).
\* And a transport belongs to one connection, complete or not: it is neither used
\* by two peers nor kept in the factory after it was handed over or closed.
ConnectionsAreWhole ==
  /\ \A c \in Conns :
      \/ \E a \in Attempts : \A r \in XprtIds : c[r] = <<a, r>>
      \/ \E r \in XprtIds : \E a \in Attempts \ {c[r][1]} : st[a] = "closed" /\ Key(<<a, 0>>) = Key(c[r])
  /\ \A c, d \in Conns : c # d => InConn(c) \cap InConn(d) = {}
  /\ \A c \in Conns : InConn(c) \cap (InFactory \cup ToSet(backlog)) = {}
  /\ InFactory \cap (closed \cup ToSet(backlog) \cup ToSet(lst.xprts)) = {} \/ stop = "gone"
  /\ \A k, l \in DOMAIN factory : k # l => ToSet(factory[k]) \cap ToSet(factory[l]) = {}

\* After halt(), accept() returns false (PeerConn.h), unless the thread that
\* accepts sockets has already ended with an exception.
HaltIsSeen == (stop = "halted") ~> (stop \in {"done", "gone"} \/ lst.pc = "failed")

\* A client that has written everything is served or learns that it isn't. All
\* that can keep it waiting for ever: the server's thread has failed, one of its
\* transports met a full queue, or an attempt with the same key was given up.
Hindered(a) == \/ lst.pc = "failed" \/ \E i \in XprtIds : <<a, i>> \in dropped
               \/ \E b \in Attempts \ {a} : st[b] = "closed" /\ Key(<<b, 0>>) = Key(<<a, 0>>)
AttemptsEnd == \A a \in Attempts : (st[a] = "waiting") ~> (st[a] # "waiting" \/ Hindered(a))

\* Nobody waits for ever: not accept() after a halt, and not a client for its answer.
WaitsEnd == HaltIsSeen /\ AttemptsEnd

=============================================================================
