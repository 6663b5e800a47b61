------------------------------ MODULE InetAddr ------------------------------
(***************************************************************************)
(* Internet addresses and socket addresses (inet/InetAddr.cpp,             *)
(* inet/SockAddr.cpp): their order, which the maps of peers and servers    *)
(* rely on, the reading of their text, what names resolve to, and which    *)
(* addresses are multicast.                                                *)
(*                                                                         *)
(* An address is a record of its type and its bytes in network order, or   *)
(* the characters of a hostname. A text is a sequence of the codes of ":",  *)
(* "[", "]" and of words that contain none of these.                       *)
(***************************************************************************)
EXTENDS Naturals, Sequences, SequencesExt, FiniteSets

CONSTANTS
  Numeric,    \* inet_pton(): numeric addresses by their texts (external)
  Lookup,     \* getaddrinfo(): lists of addresses that a name may have at a time;
              \* an unknown name has no entry (external)
  PortValue,  \* sscanf("%llu"): number that a word starts with; other words aren't in it (external)
  Interfaces, \* getifaddrs(): sequence of interfaces, each with an address and an index (external)
  LittleEndian \* Does the host store the least significant byte first?

Unset == [type |-> "unset"]
IsName(addr) == addr.type = "name"

-----------------------------------------------------------------------------
(* Order *)

\* Bytes or characters s precede t.
Precedes(s, t) == \E k \in 1..Len(t) :
  /\ k <= Len(s) + 1 /\ \A j \in 1..(k - 1) : s[j] = t[j]
  /\ k = Len(s) + 1 \/ s[k] < t[k]

\* operator<() and operator==() of each class, which double dispatch selects by
\* the class of the left operand.
Inet4Less(lhs, rhs) == rhs.type = "ipv4" => Precedes(lhs.value, rhs.value)
BytesLess(lhs, rhs) == Precedes(lhs.value, rhs.value)
Inet6Less(lhs, rhs) == rhs.type # "ipv4" /\ (rhs.type = "ipv6" => Precedes(lhs.value, rhs.value))
NameLess(lhs, rhs)  == IsName(rhs) /\ Precedes(lhs.value, rhs.value)
Inet4Equal(lhs, rhs) == rhs.type = "ipv4" /\ lhs.value = rhs.value
Inet6Equal(lhs, rhs) == rhs.type = "ipv6" /\ lhs.value = rhs.value
NameEqual(lhs, rhs)  == IsName(rhs) /\ lhs.value = rhs.value

ClassLess(lhs, rhs) ==
  CASE lhs.type = "ipv4" -> Inet4Less(lhs, rhs)
    [] lhs.type = "ipv6" -> Inet6Less(lhs, rhs)
    [] lhs.type = "name" -> NameLess(lhs, rhs)
ClassEqual(lhs, rhs) ==
  CASE lhs.type = "ipv4" -> Inet4Equal(lhs, rhs)
    [] lhs.type = "ipv6" -> Inet6Equal(lhs, rhs)
    [] lhs.type = "name" -> NameEqual(lhs, rhs)

\* Impl::operator<(Impl): the operands are swapped to dispatch on the right one.
ImplLess(lhs, rhs) == ~ClassLess(rhs, lhs) /\ ~ClassEqual(rhs, lhs)

\* InetAddr::operator<(): an address that isn't set precedes the others.
InetLess(lhs, rhs) ==
  IF Unset \in {lhs, rhs} THEN lhs = Unset /\ rhs # Unset ELSE ImplLess(lhs, rhs)
InetEqual(lhs, rhs) == ~InetLess(lhs, rhs) /\ ~InetLess(rhs, lhs)

\* SockAddr::Impl::operator<()
EitherLess(lhs, rhs) == InetLess(lhs.inet, rhs.inet) \/ lhs.port < rhs.port
SockLess(lhs, rhs) ==
  \/ InetLess(lhs.inet, rhs.inet)
  \/ ~InetLess(rhs.inet, lhs.inet) /\ lhs.port < rhs.port
SockEqual(lhs, rhs) == ~SockLess(lhs, rhs) /\ ~SockLess(rhs, lhs)

-----------------------------------------------------------------------------
(* Texts *)

Colon == 58  OpenBracket == 91  CloseBracket == 93

\* splitSpec(): the parts of an address with an optional port; <<>> if invalid.
SplitSpec(spec) ==
  LET colons == {k \in DOMAIN spec : spec[k] = Colon}
      last   == CHOOSE k \in colons : \A j \in colons : j <= k
      Split(first, end) == <<SubSeq(spec, first, end), SubSeq(spec, last + 1, Len(spec))>>
  IN IF colons = {} THEN <<spec, <<>>>>
     ELSE IF last = 1 THEN <<>>
     ELSE IF spec[last - 1] = CloseBracket THEN IF spec[1] = OpenBracket THEN Split(2, last - 2) ELSE <<>>
     ELSE IF colons = {last} THEN Split(1, last - 1)
     ELSE <<spec, <<>>>>

\* decodePort()
MaxPort == 65535
PortIsValid(text) == Head(text) \in DOMAIN PortValue /\ PortValue[Head(text)] <= MaxPort

\* InetAddr::InetAddr(String): a text that isn't numeric is a hostname.
NumericAt(text) == {a \in Numeric : a.text = text}
InetOf(text) == IF NumericAt(text) # {} THEN (CHOOSE a \in NumericAt(text) : TRUE).addr
                                        ELSE [type |-> "name", value |-> text]
\* NameAddr::NameAddr(String): the name must resolve at that time.
NameIsValid(text, known) == NumericAt(text) # {} \/ text \in known

\* Texts of to_string(): an address that is, or resolves to, an IPv6 address is
\* in brackets if a port follows.
InetText(inet) == IF IsName(inet) THEN inet.value
                                  ELSE (CHOOSE a \in Numeric : a.addr = inet).text
Bracketed(text) == <<OpenBracket>> \o text \o <<CloseBracket>>

-----------------------------------------------------------------------------
(* What addresses stand for *)

\* NameAddr::getIpAddr(): the first IP address of the list.
IsIp(addr) == addr.type \in {"ipv4", "ipv6"}
FirstIp(list) == IF \E k \in DOMAIN list : IsIp(list[k]) THEN SelectInSeq(list, IsIp) ELSE 0
\* Outcomes of a resolution; {} if there can be none.
IpAddrs(inet) ==
  IF ~IsName(inet) THEN {inet}
  ELSE {list[FirstIp(list)] : list \in {l \in Lookup : FirstIp(l) # 0}}

IsAny(ip) == \A k \in DOMAIN ip.value : ip.value[k] = 0
IsMulticast(ip) == IF ip.type = "ipv4" THEN ip.value[1] \in 224..239 ELSE ip.value[1] = 255

\* Inet4Addr::isSsm(): 232.0.1.0 to 232.255.255.255
IsSsm4(ip) == ip.value[1] = 232 /\ ~Precedes(SubSeq(ip.value, 2, 4), <<0, 1, 0>>)
\* Inet6Addr::isSsm(): on such a host the whole address is reversed first.
IsSsm6(ip) ==
  LET b == IF LittleEndian THEN Reverse(ip.value) ELSE ip.value
  IN /\ b[1] = 255 /\ b[2] \div 16 = 3 /\ \A k \in 3..12 : b[k] = 0
     /\ b[13] >= 128 \/ ~Precedes(<<64, 0, 0, 0>>, SubSeq(b, 13, 16))
IsSsm(ip) == IF ip.type = "ipv4" THEN IsSsm4(ip) ELSE IsSsm6(ip)

\* Impl::getIfaceIndex(): index of the first interface with the address, or 0:
\* for the wildcard, and also if no interface has it, whose exception is caught.
\* An IPv6 address is compared with the 4 bytes before that of the interface too.
FlowInfo == <<0, 0, 0, 0>>
HasAddr(iface, ip) ==
  /\ iface.addr.type = ip.type
  /\ \/ iface.addr.value = ip.value
     \/ ip.type = "ipv6" /\ FlowInfo \o SubSeq(iface.addr.value, 1, 12) = ip.value
IfaceIndex(ip) ==
  LET Matches(iface) == HasAddr(iface, ip)
      found == SelectInSeq(Interfaces, Matches)
  IN IF IsAny(ip) \/ found = 0 THEN 0 ELSE Interfaces[found].index
=============================================================================
