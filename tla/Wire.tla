-------------------------------- MODULE Wire --------------------------------
(***************************************************************************)
(* Messages on a transport: how objects are written and read field by field*)
(* (BicastProto.cpp, DataSeg.cpp, P2pSrvrInfo.cpp, Tracker.cpp, SubInfo.h, *)
(* InetAddr.cpp, SockAddr.cpp), how protocol data units are sent and       *)
(* dispatched (Rpc.cpp, PeerConn.cpp, mcast.cpp) and what the sockets below*)
(* do with the bytes (Xprt.cpp, Socket.cpp).                               *)
(*                                                                         *)
(* A field is a width in bytes and a value. One direction of one transport *)
(* is modelled: a TCP connection, which several threads may write to, or   *)
(* the publisher's multicast. Fields are read by their widths only: what   *)
(* is read next depends on what was read before.                           *)
(***************************************************************************)
EXTENDS Naturals, Sequences, SequencesExt, FiniteSets, FiniteSetsExt

CONSTANTS
  Writers,      \* Threads that write to the transport
  Setups,       \* Initial states: protocol, objects that are exchanged before the first
                \* protocol data unit, messages of each writer, segment size
  Room,         \* Number of fields that a connection's socket buffers hold
  MaxPayload,   \* UdpSock::MAX_PAYLOAD
  MaxPackets    \* Bound: number of datagrams that arrive

VARIABLES
  proto,    \* "TCP" or "UDP"
  segSize,  \* RunPar::maxSegSize
  raw,      \* Types of the objects still to be read before the first protocol data unit
  todo,     \* Messages that each writer has still to send
  left,     \* Fields of its current message that each writer has still to write
  out,      \* UdpSock: datagram under construction
  net,      \* Datagrams that may arrive
  wire,     \* What the receiver can read: the connection, or the datagram in its buffer
  lost,     \* Is the connection lost, or the receiver's socket shut down?
  want,     \* What the receiver reads next
  got,      \* Values of the object that the receiver reads
  reader,   \* "reading"; "eof": the receiver has seen the loss; "threw": it got an exception
  packets,  \* Number of datagrams received
  sent,     \* History: what was sent, in order, by what it means
  rcvd      \* What the receiver was called with: call, type and values of the argument

writing == <<todo, left, sent>>
reading == <<raw, want, got, reader, rcvd>>
vars == <<proto, segSize, writing, out, net, wire, lost, reading, packets>>

-----------------------------------------------------------------------------
(* Objects, written *)

\* DataSeg::size()
SegLen(prodSize, offset) == Min({prodSize - offset, segSize})

W(width, value) == <<width, value>>
Widths(fields) == FoldSeq(LAMBDA f, n : f[1] + n, 0, fields)
Contents(fields) == [k \in DOMAIN fields |-> fields[k][2]]

WProdId(id) == <<W(8, id)>>
WDataSegId(seg) == WProdId(seg.id) \o <<W(4, seg.offset)>>
WProdInfo(info) ==
  WProdId(info.id) \o <<W(2, info.nameLen), W(info.nameLen, info.name), W(4, info.size), W(8, info.time)>>
WDataSeg(seg) ==
  WDataSegId(seg) \o <<W(4, seg.prodSize), W(SegLen(seg.prodSize, seg.offset), seg.data)>>
WProdIds(ids) == <<W(4, Len(ids))>> \o FlattenSeq([i \in DOMAIN ids |-> WProdId(ids[i])])

IPv4 == 0  IPv6 == 1  Name == 2
WInetAddr(addr) == <<W(1, addr.type)>> \o
  CASE addr.type = IPv4 -> <<W(4, addr.value)>>
    [] addr.type = IPv6 -> <<W(16, addr.value)>>
    [] addr.type = Name -> <<W(1, addr.len), W(addr.len, addr.value)>>
WSockAddr(sock) == WInetAddr(sock.addr) \o <<W(2, sock.port)>>
WSrvrInfo(info) == WSockAddr(info.sock) \o
  <<W(2, info.tier), W(2, info.avail), W(8, info.secs), W(4, info.usecs)>>
WTracker(infos) == <<W(4, Len(infos))>> \o FlattenSeq([i \in DOMAIN infos |-> WSrvrInfo(infos[i])])
WSubInfo(sub) ==
  <<W(2, sub.version), W(1, sub.nameLen), W(sub.nameLen, sub.name), W(2, segSize)>>
    \o WSockAddr(sub.dst) \o WInetAddr(sub.src) \o WTracker(sub.tracker) \o <<W(8, sub.keep)>>

\* PduId::Id
SrvrInfo == 1  TrackerPdu == 2  SrvrInfoNotice == 3  ProdInfoNotice == 4  DataSegNotice == 5
PreviouslyReceived == 6  ProdInfoRequest == 7  DataSegRequest == 8
ProdInfo == 9  DataSeg == 10  Heartbeat == 11

\* The identifiers by method and type of its argument (RpcImpl, McastPubImpl)
PduOf ==
  [send      |-> [SrvrInfo |-> SrvrInfo, Tracker |-> TrackerPdu, ProdInfo |-> ProdInfo, DataSeg |-> DataSeg],
   notify    |-> [SrvrInfo |-> SrvrInfoNotice, ProdId |-> ProdInfoNotice, DataSegId |-> DataSegNotice],
   request   |-> [ProdId |-> ProdInfoRequest, DataSegId |-> DataSegRequest, ProdIds |-> PreviouslyReceived],
   beat      |-> [none |-> Heartbeat],
   multicast |-> [ProdInfo |-> ProdInfo, DataSeg |-> DataSeg]]

Object(m) ==
  CASE m.type = "SrvrInfo"  -> WSrvrInfo(m.body)
    [] m.type = "Tracker"   -> WTracker(m.body)
    [] m.type = "SubInfo"   -> WSubInfo(m.body)
    [] m.type = "ProdId"    -> WProdId(m.body)
    [] m.type = "DataSegId" -> WDataSegId(m.body)
    [] m.type = "ProdIds"   -> WProdIds(m.body)
    [] m.type = "ProdInfo"  -> WProdInfo(m.body)
    [] m.type = "DataSeg"   -> WDataSeg(m.body)
    [] m.type = "none"      -> <<>>

\* A message is a method's name and its argument. What is exchanged before the
\* first protocol data unit bypasses them (PeerConnImpl::send(), SubInfo::write()).
Fields(m) == (IF m.op = "exchange" THEN <<>> ELSE <<W(2, PduOf[m.op][m.type])>>) \o Object(m)

\* What the methods are for: the call at the other side, the type of its
\* argument and its values (Peer.h, mcast.h)
Means(m) ==
  <<CASE m.op = "exchange"  -> "recv"
      [] m.op = "send"      -> IF m.type \in {"ProdInfo", "DataSeg"} THEN "recvData" ELSE "recv"
      [] m.op = "notify"    -> "recvNotice"
      [] m.op = "request"   -> IF m.type = "ProdIds" THEN "recvHaveProds" ELSE "recvRequest"
      [] m.op = "multicast" -> "recvMcastData"
      [] m.op = "beat"      -> "none",
    m.type, Contents(Object(m))>>

-----------------------------------------------------------------------------
(* Objects, read: the width of each field and what reading it leads to *)

R(width) == [width |-> width, then |-> "none"]
RThen(width, then) == [width |-> width, then |-> then]

RPduId == <<RThen(2, "payload")>>
RProdId == <<R(8)>>
RDataSegId == RProdId \o <<R(4)>>
RProdInfo == RProdId \o <<RThen(2, "bytes"), R(4), R(8)>>
RDataSeg == RDataSegId \o <<RThen(4, "data")>>
RInetAddr == <<RThen(1, "address")>>
RSockAddr == RInetAddr \o <<R(2)>>
RSrvrInfo == RSockAddr \o <<R(2), R(2), R(8), R(4)>>
RTracker == <<RThen(4, "infos")>>
RProdIds == <<RThen(4, "ids")>>
RSubInfo == <<R(2), RThen(1, "bytes"), R(2)>> \o RSockAddr \o RInetAddr \o RTracker \o <<R(8)>>

\* RpcImpl::dispatch(), McastSubImpl::run(): the call to make and the type to
\* read by the protocol data unit's identifier
Dispatched ==
  <<<<"recv", "SrvrInfo">>, <<"recv", "Tracker">>, <<"recvNotice", "SrvrInfo">>, <<"recvNotice", "ProdId">>,
    <<"recvNotice", "DataSegId">>, <<"recvHaveProds", "ProdIds">>, <<"recvRequest", "ProdId">>,
    <<"recvRequest", "DataSegId">>, <<"recvData", "ProdInfo">>, <<"recvData", "DataSeg">>, <<"none", "none">>>>
Known(id) == id \in IF proto = "TCP" THEN DOMAIN Dispatched ELSE {ProdInfo, DataSeg}
Call(id) == IF proto = "TCP" THEN Dispatched[id] ELSE <<"recvMcastData", Dispatched[id][2]>>
Format(type) ==
  CASE type = "SrvrInfo"  -> RSrvrInfo
    [] type = "Tracker"   -> RTracker
    [] type = "SubInfo"   -> RSubInfo
    [] type = "ProdId"    -> RProdId
    [] type = "DataSegId" -> RDataSegId
    [] type = "ProdIds"   -> RProdIds
    [] type = "ProdInfo"  -> RProdInfo
    [] type = "DataSeg"   -> RDataSeg
    [] type = "none"      -> <<>>

\* What follows a field that was read with value v, after the values vs.
Follow(then, v, vs) ==
  CASE then = "payload" -> Format(Call(v)[2])
    [] then = "bytes"   -> <<R(v)>>
    [] then = "data"    -> <<R(SegLen(v, Last(vs)))>>
    [] then = "ids"     -> FlattenSeq([i \in 1..v |-> RProdId])
    [] then = "infos"   -> FlattenSeq([i \in 1..v |-> RSrvrInfo])
    [] then = "address" -> CASE v = IPv4 -> <<RThen(4, "addressed")>>
                             [] v = IPv6 -> <<RThen(16, "addressed")>>
                             [] OTHER    -> <<RThen(1, "name")>>
    [] then = "name"    -> <<RThen(v, "addressed")>>
    [] OTHER            -> <<>>

FirstOf(types) == IF types = <<>> THEN RPduId ELSE Format(Head(types))

\* RpcImpl::processNotice(), processRequest(), processData(), and the objects that
\* PeerConnImpl::recv() reads: what the receiver is called with.
Handed(values) ==
  IF raw = <<>> THEN Append(Call(values[1]), Tail(values)) ELSE <<"recv", Head(raw), values>>

-----------------------------------------------------------------------------

Init ==
  \E setup \in Setups :
    /\ proto = setup.proto /\ segSize = setup.segSize /\ raw = setup.raw /\ todo = setup.todo
    /\ left = [w \in Writers |-> <<>>]
    /\ out = <<>> /\ net = {} /\ wire = <<>> /\ lost = FALSE
    /\ want = FirstOf(raw) /\ got = <<>> /\ reader = "reading" /\ packets = 0
    /\ sent = <<>> /\ rcvd = <<>>

(* Writers *)

\* PeerConnImpl: a message is written with the transport's mutex held. Nothing
\* else writes before the objects have been exchanged.
NoMutex(w) == TRUE
MutexIsFree(w) == \A v \in Writers : left[v] = <<>>
Exchanged == \A w \in Writers : \A k \in DOMAIN todo[w] : todo[w][k].op # "exchange"
Lock(w) ==
  /\ todo[w] # <<>> /\ left[w] = <<>> /\ MutexIsFree(w)
  /\ LET m == Head(todo[w]) IN
       /\ m.op # "exchange" => Exchanged
       /\ left' = [left EXCEPT ![w] = Fields(m)]
       /\ sent' = Append(sent, Means(m))
  /\ todo' = [todo EXCEPT ![w] = Tail(@)]
  /\ UNCHANGED <<proto, segSize, out, net, wire, lost, reading, packets>>

HasRoomForOneMore == Len(wire) <= Room
HasRoom == Len(wire) < Room

\* TcpSock::writeBytes(): waits for room. After a loss the operating system may
\* take the bytes all the same.
WriteField(w) ==
  /\ proto = "TCP" /\ left[w] # <<>>
  /\ \/ ~lost /\ HasRoom /\ wire' = Append(wire, Head(left[w]))
     \/ lost /\ UNCHANGED wire
  /\ left' = [left EXCEPT ![w] = Tail(@)]
  /\ UNCHANGED <<proto, segSize, todo, sent, out, net, lost, reading, packets>>

\* A write finds the connection lost: its writer stops.
WriteFails(w) ==
  /\ proto = "TCP" /\ lost /\ left[w] # <<>>
  /\ left' = [left EXCEPT ![w] = <<>>] /\ todo' = [todo EXCEPT ![w] = <<>>]
  /\ UNCHANGED <<proto, segSize, sent, out, net, wire, lost, reading, packets>>

\* UdpSock::writeBytes() gathers the fields, and flush() makes a datagram of them.
Fits(fields) == Widths(fields) <= MaxPayload
FlushIfLast(w, fields) ==
  IF Len(left[w]) = 1 THEN net' = net \cup {fields} /\ out' = <<>>
                      ELSE out' = fields /\ UNCHANGED net
Gather(w) ==
  /\ proto = "UDP" /\ left[w] # <<>>
  /\ LET fields == Append(out, Head(left[w])) IN
       /\ Fits(fields)
       /\ FlushIfLast(w, fields)
  /\ left' = [left EXCEPT ![w] = Tail(@)]
  /\ UNCHANGED <<proto, segSize, todo, sent, wire, lost, reading, packets>>

\* More than the maximum payload is an exception, which ends the sender.
Overflow(w) ==
  /\ proto = "UDP" /\ left[w] # <<>> /\ ~Fits(Append(out, Head(left[w])))
  /\ left' = [left EXCEPT ![w] = <<>>] /\ todo' = [todo EXCEPT ![w] = <<>>]
  /\ UNCHANGED <<proto, segSize, sent, out, net, wire, lost, reading, packets>>

(* Network *)

\* The connection is lost with an end of what it held, or the receiver halted.
Lose ==
  /\ ~lost /\ lost' = TRUE
  /\ IF proto = "TCP" THEN \E n \in 0..Len(wire) : wire' = SubSeq(wire, 1, n) ELSE UNCHANGED wire
  /\ UNCHANGED <<proto, segSize, writing, out, net, reading, packets>>

(* Receiver *)

\* UdpSock::readPacket(): any datagram may arrive next, and may arrive again.
ReadPacket ==
  /\ proto = "UDP" /\ ~lost /\ reader = "reading" /\ wire = <<>> /\ packets < MaxPackets
  /\ \E d \in net : wire' = d /\ net' \in {net, net \ {d}}
  /\ packets' = packets + 1
  /\ UNCHANGED <<proto, segSize, writing, out, lost, reading>>

\* RpcImpl::recv(), McastSubImpl::run(): fields are read until the object is
\* complete, which is handed to the peer or node. Then the datagram is cleared.
Misread == 99
Cleared(w) == IF proto = "UDP" THEN <<>> ELSE Tail(w)
\* An unknown identifier is an exception over a connection, ignored if it was multicast.
Refused == IF proto = "TCP" THEN "threw" ELSE reader
ReadField ==
  /\ reader = "reading" /\ wire # <<>>
  /\ LET field == Head(wire)
         first == Head(want)
         v     == IF field[1] = first.width THEN field[2] ELSE Misread
         vs    == Append(got, v)
         more  == Follow(first.then, v, got) \o Tail(want)
     IN IF first.then = "payload" /\ ~Known(v)
        THEN wire' = Cleared(wire) /\ reader' = Refused /\ UNCHANGED <<raw, want, got, rcvd>>
        ELSE /\ IF more # <<>>
                THEN want' = more /\ got' = vs /\ wire' = Tail(wire) /\ UNCHANGED <<raw, rcvd>>
                ELSE /\ raw' = IF raw = <<>> THEN raw ELSE Tail(raw)
                     /\ want' = FirstOf(raw') /\ got' = <<>>
                     /\ rcvd' = Append(rcvd, Handed(vs))
                     /\ wire' = Cleared(wire)
             /\ UNCHANGED reader
  /\ UNCHANGED <<proto, segSize, writing, out, net, lost, packets>>

\* The end of the input: read() returns false, except that the constructors of
\* addresses make an exception of it (InetAddr::read()).
Eof ==
  /\ reader = "reading" /\ wire = <<>> /\ lost
  /\ reader' = IF Head(want).then \in {"addressed", "name"} THEN "threw" ELSE "eof"
  /\ UNCHANGED <<proto, segSize, writing, out, net, wire, lost, raw, want, got, rcvd, packets>>

Writer(w) == Lock(w) \/ WriteField(w) \/ WriteFails(w) \/ Gather(w) \/ Overflow(w)
Next == (\E w \in Writers : Writer(w)) \/ Lose \/ ReadPacket \/ ReadField \/ Eof

Spec == Init /\ [][Next]_vars
\* Threads that can go on do; nothing need be lost, and no datagram arrive.
Fairness == (\A w \in Writers : WF_vars(Writer(w))) /\ WF_vars(ReadField) /\ WF_vars(Eof)

-----------------------------------------------------------------------------
(* Properties *)

TypeOK ==
  /\ proto \in {"TCP", "UDP"} /\ lost \in BOOLEAN /\ reader \in {"reading", "eof", "threw"}
  /\ \A w \in Writers : \A k \in DOMAIN left[w] : left[w][k] \in Nat \X Nat
  /\ \A k \in DOMAIN wire : wire[k] \in Nat \X Nat
  /\ Len(wire) <= Room \/ proto = "UDP"
  /\ want # <<>> /\ packets \in 0..MaxPackets /\ \A k \in DOMAIN got : got[k] \in Nat

\* The transports carry whole messages: over a connection each one once, in
\* the order in which their writers got the mutex, until the connection is lost
\* (Xprt, Rpc); by multicast any of those that were sent (McastPub, McastSub).
Transport == INSTANCE Channel WITH
  ordered <- proto = "TCP",
  todo <- [w \in Writers |-> [k \in DOMAIN todo[w] |-> Means(todo[w][k])]],
  open <- reader = "reading"
CarriesMessages == Transport!Spec

\* vetRunPars(): the sizes of segments that the publisher takes.
Admitted == segSize <= MaxPayload

\* "Maximum size of a data-segment is greater than UDP maximum" (publish.cpp): a
\* size that isn't can be multicast.
SegmentsFit ==
  proto = "UDP" /\ Admitted => \A w \in Writers : Fits(out \o left[w])
=============================================================================
