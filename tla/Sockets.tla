------------------------------ MODULE Sockets -------------------------------
(***************************************************************************)
(* Sockets (inet/Socket.cpp): how one is made, one system call after the   *)
(* other, what its users' calls do while another thread shuts it down or   *)
(* the connection is lost, and when its descriptor is closed.              *)
(*                                                                         *)
(* One socket at a time is modelled, of each class: a server's, a client's,*)
(* and the sending and the receiving multicast sockets. A client's thread  *)
(* makes another one when it couldn't connect. The operating system is     *)
(* modelled by what its calls may return.                                  *)
(***************************************************************************)
EXTENDS InetAddr

CONSTANTS
  Endpoints,  \* Classes of sockets and the addresses that they are made with
  SendRoom,   \* Bytes that the socket's send buffer holds
  CallSize,   \* Bytes that one read() or write() transfers
  MaxBytes,   \* Bound: bytes, datagrams or connections that arrive
  MaxTries    \* Bound: client sockets that are made

VARIABLES
  endpoint, \* What is made, an element of Endpoints
  at,       \* Number of system calls and checks that making it has passed
  family,   \* Address family of the descriptor
  fd,       \* Is the descriptor open?
  outcome,  \* "making", "made", the exception that ended it, or "abort"
  errno,    \* The making thread's errno: 0, a temporary failure to connect, another failure
  linked,   \* Has the operating system connected the socket?
  index,    \* Index of the interface it multicasts on; 0 if the operating system chooses
  tries,    \* Number of sockets made
  shut,     \* Has the operating system shut the socket down?
  flag,     \* Socket::Impl::shutdownCalled
  halter,   \* Thread that shuts down: "idle", "locked", "shut", "done"
  arrived,  \* Numbers of the bytes, datagrams or connections that wait to be read
  total,    \* Number of those that have arrived
  fin,      \* Has the remote end closed the connection?
  reset,    \* Is the connection reset?
  room,     \* Free bytes of the send buffer
  pc,       \* Where each thread's call is
  rest,     \* Bytes still to be transferred by each thread's call
  taken,    \* Numbers of what was read
  trouble   \* History: has a call failed for want of resources?

making == <<endpoint, at, family, outcome, errno, linked, index, tries>>
kernel == <<arrived, total, fin, reset, room>>
halting == <<shut, flag, halter>>
calls == <<pc, rest, taken>>
vars == <<making, fd, kernel, halting, calls, trouble>>

-----------------------------------------------------------------------------
(* Making a socket *)

ServerCalls == <<"socket", "option", "bind", "option", "listen">>
ClientCalls == <<"socket", "port", "connect">>
SenderCalls(dest) ==
  <<"socket">> \o (IF \E ip \in IpAddrs(dest) : IsMulticast(ip) THEN <<"option", "option">> ELSE <<>>)
    \o <<"interface", "attach">>
ReceiverCalls == <<"socket", "families", "group", "option", "option", "bind", "join">>
Calls ==
  CASE endpoint.class = "server"   -> ServerCalls
    [] endpoint.class = "client"   -> ClientCalls
    [] endpoint.class = "sender"   -> SenderCalls(endpoint.addr.inet)
    [] endpoint.class = "receiver" -> ReceiverCalls

\* Classes of sockets whose threads read, write, accept
Stream == endpoint.class = "client"
Users ==
  CASE endpoint.class = "server"   -> {"acceptor"}
    [] endpoint.class = "client"   -> {"reader", "writer"}
    [] endpoint.class = "sender"   -> {}
    [] endpoint.class = "receiver" -> {"receiver"}

Families(inet) == {ip.type : ip \in IpAddrs(inet)}
AnyFamily == {"ipv4", "ipv6"}

\* The family of the descriptor, and what it must be of
CreateSocket == fd' = TRUE /\ family' \in Families(endpoint.addr.inet)
BindMatches == family \in Families(endpoint.addr.inet)
IfaceMatches == family \in Families(endpoint.iface)

\* Every use of a hostname resolves it anew: what a call or check may end in,
\* besides success, and the families for which it may succeed.
Failure(call) ==
  CASE call = "socket"    -> "abort"            \* The constructor is noexcept
    [] call = "port"      -> "LogicError"
    [] call = "interface" -> "LogicError"
    [] call = "families"  -> "LogicError"
    [] call = "group"     -> "InvalidArgument"
    [] OTHER              -> "SystemError"
Possible(call) ==
  CASE call = "port"      -> endpoint.addr.port # 0
    [] call = "families"  -> Families(endpoint.addr.inet) \cap Families(endpoint.source)
                               \cap Families(endpoint.iface) # {}
    [] call = "group"     -> \E ip \in IpAddrs(endpoint.addr.inet) : IsSsm(ip)
    [] call = "interface" -> IfaceMatches
    [] call = "bind"      -> BindMatches
    [] call = "join"      -> \E group \in IpAddrs(endpoint.addr.inet), source \in IpAddrs(endpoint.source) :
                               family = group.type /\ family = source.type
    [] OTHER              -> TRUE
\* Checks of addresses that aren't names always have the same result.
Certain(call) ==
  CASE call = "port"     -> endpoint.addr.port # 0
    [] call = "families" -> Cardinality(Families(endpoint.addr.inet) \cup Families(endpoint.source)
                               \cup Families(endpoint.iface)) = 1
    [] call = "group"    -> \A ip \in IpAddrs(endpoint.addr.inet) : IsSsm(ip)
    [] OTHER             -> FALSE

Init ==
  /\ endpoint \in Endpoints /\ at = 0 /\ family = "none" /\ fd = FALSE
  /\ outcome = "making" /\ errno = "none" /\ linked = FALSE /\ index = 0 /\ tries = 1
  /\ shut = FALSE /\ flag = FALSE /\ halter = "idle"
  /\ arrived = <<>> /\ total = 0 /\ fin = FALSE /\ reset = FALSE /\ room = SendRoom
  /\ pc = [u \in Users |-> "idle"] /\ rest = [u \in Users |-> CallSize] /\ taken = <<>>
  /\ trouble = FALSE

Next1 == Calls[at + 1]
ThrowOnly(exception) == outcome' = exception /\ UNCHANGED <<fd, at, family, pc>>
Throw(exception) ==
  \* ~Impl() of the base, which is complete by then, closes the descriptor
  /\ outcome' = exception /\ fd' = FALSE
  /\ UNCHANGED <<at, family, pc>>
Pass ==
  /\ at' = at + 1
  /\ IF at + 1 = Len(Calls)
     THEN outcome' = "made" /\ pc' = [u \in Users |-> "call"]
     ELSE UNCHANGED <<outcome, pc>>

\* makeIface(), join(): an IPv4 sender is given the address itself.
UsesInterface == IF Next1 = "interface" /\ family = "ipv4" THEN UNCHANGED index
                 ELSE index' \in {IfaceIndex(ip) : ip \in IpAddrs(endpoint.iface)}

\* A system call, or a check that needs none.
Call ==
  /\ outcome = "making" /\ Next1 # "connect"
  /\ \/ /\ Possible(Next1) /\ Pass
        /\ IF Next1 = "socket" THEN CreateSocket
                               ELSE UNCHANGED <<fd, family>>
        /\ Next1 \in {"interface", "join"} => UsesInterface
        /\ Next1 \notin {"interface", "join"} => UNCHANGED index
        /\ UNCHANGED errno
     \/ /\ ~Certain(Next1) /\ Throw(Failure(Next1))
        /\ errno' \in IF Next1 \in {"port", "families", "group"} THEN {errno} ELSE {errno, "other"}
        /\ UNCHANGED index
  /\ UNCHANGED <<endpoint, linked, tries, kernel, halting, rest, taken, trouble>>

\* TcpClntSock::Impl::connect(): tests errno, which success leaves as it was.
Verdict(connected, error) ==
  IF error = "temporary" THEN "RuntimeError" ELSE IF connected THEN "made" ELSE "SystemError"
Connect ==
  /\ outcome = "making" /\ Next1 = "connect"
  /\ linked' \in BOOLEAN /\ (linked' => family \in Families(endpoint.addr.inet))
  /\ errno' \in IF linked' THEN {errno} ELSE {"temporary", "other"}
  /\ IF Verdict(linked', errno') = "made" THEN Pass /\ UNCHANGED <<fd, family>>
                                          ELSE Throw(Verdict(linked', errno'))
  /\ UNCHANGED <<endpoint, index, tries, kernel, halting, rest, taken, trouble>>

\* A remote server that couldn't be connected to: the thread tries another.
TryAgain ==
  /\ outcome = "RuntimeError" /\ tries < MaxTries
  /\ tries' = tries + 1 /\ outcome' = "making" /\ at' = 0 /\ family' = "none" /\ linked' = FALSE
  /\ UNCHANGED <<endpoint, errno, fd, index, kernel, halting, calls, trouble>>

-----------------------------------------------------------------------------
(* The other end and the operating system *)

Open == outcome = "made" /\ fd

Arrive ==
  /\ Open /\ ~shut /\ ~fin /\ ~reset /\ total < MaxBytes
  /\ total' = total + 1 /\ arrived' = Append(arrived, total')
  /\ UNCHANGED <<making, fd, fin, reset, room, halting, calls, trouble>>

RemoteCloses ==
  /\ Open /\ Stream /\ ~fin /\ ~reset /\ fin' = TRUE
  /\ UNCHANGED <<making, fd, arrived, total, reset, room, halting, calls, trouble>>

RemoteResets ==
  /\ Open /\ Stream /\ ~reset /\ reset' = TRUE
  /\ UNCHANGED <<making, fd, arrived, total, fin, room, halting, calls, trouble>>

RemoteReads ==
  /\ Open /\ Stream /\ ~reset /\ room < SendRoom /\ room' = SendRoom
  /\ UNCHANGED <<making, fd, arrived, total, fin, reset, halting, calls, trouble>>

\* poll(2)
HangUp == shut \/ reset
Readable == arrived # <<>> \/ fin
Writable == room > 0

-----------------------------------------------------------------------------
(* Shutting down: shutdown() and shut() *)

Lock ==
  /\ Open /\ halter = "idle" /\ halter' = "locked"
  /\ UNCHANGED <<making, fd, kernel, shut, flag, calls, trouble>>
\* ENOTCONN isn't an error. Listening and datagram sockets drop what waits.
Shut ==
  /\ halter = "locked" /\ halter' = "shut" /\ shut' = TRUE
  /\ arrived' = IF Stream THEN arrived ELSE <<>>
  /\ UNCHANGED <<making, fd, total, fin, reset, room, flag, calls, trouble>>
SetFlag ==
  /\ halter = "shut" /\ halter' = "done" /\ flag' = TRUE
  /\ UNCHANGED <<making, fd, kernel, shut, calls, trouble>>
NoMutex == TRUE
MutexIsFree == halter \in {"idle", "done"}

-----------------------------------------------------------------------------
(* Calls of the socket's users *)

Goto(user, place) == pc' = [pc EXCEPT ![user] = place]
Keep == UNCHANGED <<making, fd, halting>>

\* TcpSrvrSock::Impl::accept()
Accept ==
  /\ "acceptor" \in Users /\ pc["acceptor"] = "call"
  /\ \/ ~shut /\ arrived # <<>> /\ taken' = Append(taken, Head(arrived)) /\ arrived' = Tail(arrived)
        /\ UNCHANGED <<pc, trouble>>
     \/ shut /\ Goto("acceptor", "failed") /\ UNCHANGED <<arrived, taken, trouble>>
     \/ ~shut /\ arrived # <<>> /\ ~trouble /\ trouble' = TRUE
        /\ Goto("acceptor", "failed") /\ UNCHANGED <<arrived, taken>>
  /\ UNCHANGED <<total, fin, reset, room, rest>> /\ Keep
AcceptFails ==
  /\ "acceptor" \in Users /\ pc["acceptor"] = "failed" /\ MutexIsFree
  /\ Goto("acceptor", IF flag THEN "null" ELSE "threw")
  /\ UNCHANGED <<kernel, rest, taken, trouble>> /\ Keep

\* TcpSock::Impl::readBytes()
LossIsIgnored(user) == FALSE
LossIsSeen(user) == HangUp
ReadPoll ==
  /\ "reader" \in Users /\ pc["reader"] = "call" /\ (HangUp \/ Readable)
  /\ Goto("reader", IF LossIsSeen("reader") THEN "lost" ELSE "transfer")
  /\ UNCHANGED <<kernel, rest, taken, trouble>> /\ Keep
Take(n) ==
  /\ taken' = taken \o SubSeq(arrived, 1, n)
  /\ arrived' = SubSeq(arrived, n + 1, Len(arrived))
Transfer(user, n) ==
  /\ rest' = [rest EXCEPT ![user] = IF @ = n THEN CallSize ELSE @ - n]
  /\ Goto(user, "call")
ReadSome ==
  /\ "reader" \in Users /\ pc["reader"] = "transfer"
  /\ IF arrived # <<>>
     THEN \E n \in 1..rest["reader"] : n <= Len(arrived) /\ Take(n) /\ Transfer("reader", n)
     ELSE /\ fin \/ HangUp
          /\ Goto("reader", IF reset /\ ~fin THEN "threw" ELSE "lost")
          /\ UNCHANGED <<arrived, taken, rest>>
  /\ UNCHANGED <<total, fin, reset, room, trouble>> /\ Keep

\* TcpSock::Impl::writeBytes()
WritePoll ==
  /\ "writer" \in Users /\ pc["writer"] = "call" /\ (HangUp \/ Writable)
  /\ Goto("writer", IF LossIsSeen("writer") THEN "lost" ELSE "transfer")
  /\ UNCHANGED <<kernel, rest, taken, trouble>> /\ Keep
\* Writing to a connection that was shut down, or reset after the remote end had
\* closed it, raises SIGPIPE, which the programs don't ignore.
WriteSome ==
  /\ "writer" \in Users /\ pc["writer"] = "transfer"
  /\ IF HangUp
     THEN Goto("writer", IF shut \/ fin THEN "killed" ELSE "lost") /\ UNCHANGED <<room, rest>>
     ELSE \E n \in 1..rest["writer"] : n <= room /\ room' = room - n /\ Transfer("writer", n)
  /\ UNCHANGED <<arrived, total, fin, reset, taken, trouble>> /\ Keep

\* UdpSock::Impl::readPacket(): the flag is read without the mutex. A datagram
\* may be empty, and readBytes() then waits for the next one.
PacketPoll ==
  /\ "receiver" \in Users /\ pc["receiver"] = "call" /\ (HangUp \/ Readable)
  /\ \E seen \in {FALSE, flag} :
       Goto("receiver", IF seen \/ LossIsSeen("receiver") THEN "lost" ELSE "transfer")
  /\ UNCHANGED <<kernel, rest, taken, trouble>> /\ Keep
Receive ==
  /\ "receiver" \in Users /\ pc["receiver"] = "transfer" /\ (arrived # <<>> \/ shut)
  /\ IF arrived = <<>> THEN UNCHANGED <<arrived, taken>>
     ELSE /\ arrived' = Tail(arrived)
          /\ \E empty \in BOOLEAN : taken' = IF empty THEN taken ELSE Append(taken, Head(arrived))
  /\ Goto("receiver", "call")
  /\ UNCHANGED <<total, fin, reset, room, rest, trouble>> /\ Keep

\* The socket is destroyed when its users' calls have returned.
Returned(user) == pc[user] \in {"null", "lost", "threw", "killed"}
Destroy ==
  /\ Open /\ MutexIsFree /\ \A user \in Users : Returned(user)
  /\ fd' = FALSE
  /\ UNCHANGED <<making, kernel, halting, calls, trouble>>

Acceptor == Accept \/ AcceptFails
Reader == ReadPoll \/ ReadSome
Writer == WritePoll \/ WriteSome
Receiver == PacketPoll \/ Receive
Halter == Lock \/ Shut \/ SetFlag
Next ==
  \/ Call \/ Connect \/ TryAgain
  \/ Arrive \/ RemoteCloses \/ RemoteResets \/ RemoteReads
  \/ Halter \/ Acceptor \/ Reader \/ Writer \/ Receiver \/ Destroy

Spec == Init /\ [][Next]_vars
\* Threads that can go on do; nobody need shut down, and nothing need arrive.
Fairness ==
  /\ WF_vars(Acceptor) /\ WF_vars(Reader) /\ WF_vars(Writer) /\ WF_vars(Receiver)
  /\ WF_vars(Shut) /\ WF_vars(SetFlag)

-----------------------------------------------------------------------------
(* Properties *)

TypeOK ==
  /\ endpoint \in Endpoints /\ at \in 0..Len(Calls) /\ tries \in 1..MaxTries
  /\ outcome \in {"making", "made", "abort", "SystemError", "RuntimeError", "LogicError", "InvalidArgument"}
  /\ errno \in {"none", "temporary", "other"} /\ family \in AnyFamily \cup {"none"}
  /\ fd \in BOOLEAN /\ flag \in BOOLEAN /\ (flag => shut) /\ room \in 0..SendRoom
  /\ \A u \in Users : rest[u] \in 1..CallSize
  /\ index \in {0} \cup {Interfaces[k].index : k \in DOMAIN Interfaces}

\* Being shut down or losing its connection isn't an error to a socket's users:
\* accept() throws only for want of resources, the others never
\* (Socket.h, shutdown(); writeBytes(), readBytes(), readPacket(), accept()).
LossIsNoError == \A user \in Users : pc[user] = "threw" => trouble

\* Bytes are read as they came, whatever the portions, up to the loss
\* (TcpSock::Impl::readBytes()); a descriptor is open exactly while its socket
\* is being made or used.
NothingSkipped ==
  /\ Stream => \A k \in DOMAIN taken : taken[k] = k
  /\ fd => outcome \in {"making", "made"}
  /\ outcome = "making" => (fd <=> at > 0)

\* Whoever is in a call on a socket when it is shut down gets out of it
\* (P2pSrvr, PeerConn, McastSub: halt() of each only shuts sockets down).
ShutdownEndsCalls == \A user \in {"acceptor", "reader", "writer", "receiver"} :
  halter = "done" ~> (user \in Users => Returned(user))

\* "false: Lost connection" (Socket.cpp, write()): the loss doesn't end the program.
LossIsReported == \A user \in Users : pc[user] # "killed"

\* "Couldn't connect to remote server at this time" (Socket.cpp, TcpClntSock): the
\* exception means what it says.
RefusedIsUnconnected == outcome = "RuntimeError" => ~linked

\* "LogicError  No interface has this address" (InetAddr.cpp, getIfaceIndex()): a
\* socket that was made uses the interface that has the address it was given.
InterfaceIsUsed == (outcome = "made" /\ endpoint.class = "receiver") =>
  index # 0 \/ \E ip \in IpAddrs(endpoint.iface) : IsAny(ip)
=============================================================================
