----------------------------- MODULE HashTables -----------------------------
(***************************************************************************)
(* The keys of hash tables (std::unordered_map, std::unordered_set): the   *)
(* identifiers of products and segments, the tagged unions Notice and      *)
(* SubPeerImpl::Request, the repositories' entries, and socket addresses.  *)
(* A table finds an entry if it is in the bucket that the key's hash tells *)
(* and equals the key.                                                     *)
(*                                                                         *)
(* The members of a union share storage: what the tag doesn't tell of is   *)
(* left over from a former value.                                          *)
(***************************************************************************)
EXTENDS InetAddr, Bitwise

CONSTANTS
  ProdIds,      \* Identifiers of products, which are numbers
  SegOffsets,   \* Offsets of segments
  SockAddrs,    \* Socket addresses
  BucketCounts, \* Numbers of buckets that a table has as it grows
  HashText(_)   \* std::hash<> of bytes (external)

VARIABLES
  class, \* Class of the table's keys
  table, \* The keys that it holds
  count, \* Number of buckets
  meant, \* History: what it was asked to hold
  cell   \* A variable of type Notice: its tag and the members that were constructed in it

tableVars == <<class, table, count, meant, cell>>

Union(tags) == [tag : tags, id : ProdIds, offset : SegOffsets]
KeysOf ==
  [Notice   |-> Union({"PROD_ID", "DATA_SEG_ID"}), Request |-> Union({"PROD_ID", "DATA_SEG_ID"}),
   ProdId   |-> [id : ProdIds],
   ProdEntry |-> [id : ProdIds, complete : BOOLEAN],
   SockAddr |-> SockAddrs]

-----------------------------------------------------------------------------
(* Hashes and equality *)

ProdHash(id) == id
SegHash(segId) == ProdHash(segId.id) ^^ segId.offset
SegEqual(lhs, rhs) == lhs.id = rhs.id /\ lhs.offset = rhs.offset

\* Mutant of NoticeHash
HashOfStorage(notice) == SegHash(notice)
NoticeHash(notice) ==
  CASE notice.tag = "PROD_ID" -> ProdHash(notice.id)
    [] notice.tag = "DATA_SEG_ID" -> SegHash(notice)
    [] OTHER -> 0
\* Notices about servers differ from themselves, but nobody looks them up.
NoticeEqual(lhs, rhs) ==
  /\ lhs.tag = rhs.tag
  /\ CASE lhs.tag = "PROD_ID" -> lhs.id = rhs.id
       [] lhs.tag = "DATA_SEG_ID" -> SegEqual(lhs, rhs)
       [] OTHER -> lhs.tag \in {"UNSET", "HEARTBEAT"}

RequestHash(request) == IF request.tag = "PROD_ID" THEN ProdHash(request.id) ELSE SegHash(request)
\* Mutant of RequestEqual
EqualUntagged(lhs, rhs) == IF lhs.tag = "PROD_ID" THEN lhs.id = rhs.id ELSE SegEqual(lhs, rhs)
RequestEqual(lhs, rhs) ==
  /\ lhs.tag = rhs.tag
  /\ IF lhs.tag = "PROD_ID" THEN lhs.id = rhs.id ELSE SegEqual(lhs, rhs)

\* A product that is looked for by its identifier has no file.
EntryHash(entry) == ProdHash(entry.id)
EntryEqual(lhs, rhs) == lhs.id = rhs.id

InetHash(addr) == IF addr = Unset THEN 0 ELSE HashText(addr.value)
SockHash(sock) == InetHash(sock.inet) ^^ sock.port

Hash(key) ==
  CASE class = "Notice" -> NoticeHash(key)   [] class = "Request" -> RequestHash(key)
    [] class = "ProdId" -> ProdHash(key.id)  [] class = "ProdEntry" -> EntryHash(key)
    [] class = "SockAddr" -> SockHash(key)
Equal(lhs, rhs) ==
  CASE class = "Notice" -> NoticeEqual(lhs, rhs) [] class = "Request" -> RequestEqual(lhs, rhs)
    [] class = "ProdId" -> lhs.id = rhs.id       [] class = "ProdEntry" -> EntryEqual(lhs, rhs)
    [] class = "SockAddr" -> SockEqual(lhs, rhs)

-----------------------------------------------------------------------------
(* Tables *)

Found(key) == {k \in table : Hash(k) % count = Hash(key) % count /\ Equal(k, key)}

\* What a key stands for
Meaning(key) ==
  CASE class \in {"Notice", "Request"} ->
         IF key.tag = "DATA_SEG_ID" THEN <<key.tag, key.id, key.offset>> ELSE <<key.tag, key.id>>
    [] class \in {"ProdId", "ProdEntry"} -> <<key.id>>
    [] class = "SockAddr" -> <<key.inet.type, key.inet.value, key.port>>

Init ==
  /\ class \in DOMAIN KeysOf /\ count \in BucketCounts
  /\ table = {} /\ meant = {} /\ cell = [tag |-> "UNSET", alive |-> {}]

Insert(key) ==
  /\ table' = IF Found(key) = {} THEN table \cup {key} ELSE table
  /\ meant' = meant \cup {Meaning(key)}
  /\ UNCHANGED <<class, count, cell>>

Erase(key) ==
  /\ Found(key) # {}
  /\ table' = table \ Found(key) /\ meant' = meant \ {Meaning(key)}
  /\ UNCHANGED <<class, count, cell>>

\* ProdIdSet::subtract(), clear()
Subtract(keys_) ==
  /\ class = "ProdId"
  /\ table' = table \ UNION {Found(key) : key \in keys_}
  /\ meant' = meant \ {Meaning(key) : key \in keys_}
  /\ UNCHANGED <<class, count, cell>>
Clear == class = "ProdId" /\ table' = {} /\ meant' = {} /\ UNCHANGED <<class, count, cell>>

Rehash == count' \in BucketCounts \ {count} /\ UNCHANGED <<class, table, meant, cell>>

-----------------------------------------------------------------------------
(* Notices as variables *)

Members == {"P2P_SRVR_INFO", "P2P_SRVR_INFOS", "PROD_ID", "DATA_SEG_ID"}
Tags == Members \cup {"UNSET", "HEARTBEAT"}

\* Mutant of Destroyed
DestroyNone(notice) == notice

\* Notice::~Notice(), constructors, operator=()
Destroyed(notice) == [notice EXCEPT !.alive = @ \ {notice.tag}]
Constructed(notice, tag) == [tag |-> tag, alive |-> notice.alive \cup ({tag} \cap Members)]
Assign(tag) ==
  /\ class = "Notice" /\ table = {} /\ meant = {}
  /\ cell' = Constructed(Destroyed(cell), tag)
  /\ UNCHANGED <<class, table, count, meant>>

Next ==
  \/ \E key \in KeysOf[class] : Insert(key) \/ Erase(key)
  \/ \E keys_ \in SUBSET KeysOf["ProdId"] : Subtract(keys_)
  \/ Clear \/ Rehash
  \/ \E tag \in Tags : Assign(tag)
Spec == Init /\ [][Next]_tableVars

-----------------------------------------------------------------------------
(* Properties *)

TypeOK ==
  /\ class \in DOMAIN KeysOf /\ table \subseteq KeysOf[class] /\ count \in BucketCounts
  /\ cell.tag \in Tags /\ cell.alive \subseteq Members

\* A table holds each of what it was asked to hold once, and finds it, whatever is left over in
\* the storage of the unions and however many buckets there are (hash(), operator==() of ProdId,
\* DataSegId, Notice, Request, ProdEntry, SockAddr).
EachIsFound ==
  /\ \A key \in KeysOf[class] : Found(key) # {} <=> Meaning(key) \in meant
  /\ {Meaning(key) : key \in table} = meant /\ Cardinality(table) = Cardinality(meant)

\* Each member of a union that is constructed is destroyed: the one that is there is the tag's.
TagTellsMember == cell.alive = {cell.tag} \cap Members
=============================================================================
