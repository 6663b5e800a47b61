------------------------------ MODULE AddrMap -------------------------------
(***************************************************************************)
(* The text of socket addresses and the containers that are keyed by them: *)
(* the addresses of servers and peers, which are read from arguments       *)
(* (SockAddr::SockAddr(String)) or received, are the keys of ordered       *)
(* containers (std::map, external), which rely on their order only.        *)
(***************************************************************************)
EXTENDS InetAddr

CONSTANTS
  Specs,        \* Texts that are given as socket addresses
  DefaultPort,  \* Port number if the text has none
  Received      \* Socket addresses that remote peers send

VARIABLES
  known,    \* Names that resolve now
  keys,     \* Keys of the container, in its order
  inserted  \* History: the socket addresses that it was asked to hold

vars == <<known, keys, inserted>>

HostNames == {spec \in {SplitSpec(s)[1] : s \in {t \in Specs : SplitSpec(t) # <<>>}} : IsName(InetOf(spec))}

\* SockAddr::SockAddr(String, port): {} if it throws
Read(spec) ==
  LET parts == SplitSpec(spec)
  IN IF \/ parts = <<>> \/ ~NameIsValid(parts[1], known)
        \/ parts[2] # <<>> /\ ~PortIsValid(parts[2])
     THEN {}
     ELSE {[inet |-> InetOf(parts[1]),
            port |-> IF parts[2] = <<>> THEN DefaultPort ELSE PortValue[Head(parts[2])]]}

\* SockAddr::Impl::to_string(): the family of a name is that of its IP address.
BareText(sock, family, portText) == InetText(sock.inet) \o <<Colon, portText>>
Text(sock, family, portText) ==
  (IF family = "ipv6" THEN Bracketed(InetText(sock.inet)) ELSE InetText(sock.inet)) \o <<Colon, portText>>

-----------------------------------------------------------------------------
(* Structures of the operating system *)

\* A number of 16 bits as the host stores it, and what htons() and ntohs() do to it
Swapped(n) == 256 * (n % 256) + n \div 256
InMemory(n) == IF LittleEndian THEN <<n % 256, n \div 256>> ELSE <<n \div 256, n % 256>>
Htons(n) == IF LittleEndian THEN Swapped(n) ELSE n

\* Mutant of Storage: the port as it is
HostOrder(ip, port) == [family |-> ip.type, addr |-> ip.value, port |-> InMemory(port)]
\* get_sockaddr() of the classes of InetAddr; a name has the one of its IP address.
Storage(ip, port) == [family |-> ip.type, addr |-> ip.value, port |-> InMemory(Htons(port))]
Storages(inet, port) == {Storage(ip, port) : ip \in IpAddrs(inet)}
GetSockaddr(sock) == Storages(sock.inet, sock.port)

\* SockAddr::SockAddr(sockaddr_storage)
FromStorage(storage) ==
  LET port == IF LittleEndian THEN storage.port[1] + 256 * storage.port[2] ELSE 256 * storage.port[1] + storage.port[2]
  IN [inet |-> [type |-> storage.family, value |-> storage.addr], port |-> Htons(port)]

-----------------------------------------------------------------------------

\* std::map: a key goes after those that precede it, unless the next one is equal.
Position(sock) == Cardinality({k \in DOMAIN keys : SockLess(keys[k], sock)}) + 1
Holds(sock) == Position(sock) <= Len(keys) /\ SockEqual(sock, keys[Position(sock)])

Init == known = {} /\ keys = <<>> /\ inserted = {}

Insert(sock) ==
  /\ keys' = IF Holds(sock) THEN keys ELSE InsertAt(keys, Position(sock), sock)
  /\ inserted' = inserted \cup {sock}
  /\ UNCHANGED known

Configure(spec) == \E sock \in Read(spec) : Insert(sock)
Receive(sock) == Insert(sock)

\* A connection from there is accepted: the operating system has its address in network order.
Network(sock) == [family |-> sock.inet.type, addr |-> sock.inet.value, port |-> <<sock.port \div 256, sock.port % 256>>]
Accept(sock) == ~ IsName(sock.inet) /\ Insert(FromStorage(Network(sock)))

Erase(sock) ==
  /\ Holds(sock)
  /\ keys' = RemoveAt(keys, Position(sock)) /\ inserted' = inserted \ {sock}
  /\ UNCHANGED known

\* The name service's answers change.
Resolve == known' \in SUBSET HostNames /\ UNCHANGED <<keys, inserted>>

Next ==
  \/ \E spec \in Specs : Configure(spec)
  \/ \E sock \in Received : Receive(sock) \/ Accept(sock)
  \/ \E sock \in inserted : Erase(sock)
  \/ Resolve
Spec == Init /\ [][Next]_vars

-----------------------------------------------------------------------------
(* Properties *)

TypeOK ==
  /\ known \subseteq HostNames
  /\ \A sock \in inserted : sock.inet.type \in {"ipv4", "ipv6", "name"} /\ sock.port \in 0..MaxPort

\* Addresses can be keys, whatever their types and whatever their names resolve
\* to: the container holds each once, in one order, and finds it again
\* (operator<() of the classes of InetAddr, SockAddr::Impl::operator<()).
KeysAreFound ==
  /\ {keys[k] : k \in DOMAIN keys} = inserted /\ Len(keys) = Cardinality(inserted)
  /\ \A sock \in inserted : Holds(sock)
  /\ \A i, j \in DOMAIN keys : SockLess(keys[i], keys[j]) <=> i < j

\* What to_string() makes of an address is read as that address, in brackets or
\* not (SockAddr::Impl::to_string(), splitSpec(), decodePort()).
TextIsReadBack == \A sock \in inserted, family \in {"ipv4", "ipv6"}, p \in DOMAIN PortValue :
  /\ IF IsName(sock.inet) THEN sock.inet.value \in known ELSE sock.inet.type = family
  /\ PortValue[p] = sock.port
  => Read(Text(sock, family, p)) = {sock}

\* The operating system gets addresses in network order, whatever the host's, and the address of
\* a connection that it accepts is the one that its other end is known by, unless it is known by
\* name (get_sockaddr(), SockAddr::SockAddr(sockaddr_storage)).
OrderIsNetworks ==
  \A sock \in inserted : ~ IsName(sock.inet) =>
    GetSockaddr(sock) = {Network(sock)} /\ FromStorage(Network(sock)) = sock
=============================================================================
