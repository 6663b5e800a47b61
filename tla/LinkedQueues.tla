---------------------------- MODULE LinkedQueues ----------------------------
(***************************************************************************)
(* The two queues that are hash tables of linked values: HashSetQueue      *)
(* (misc/HashSetQueue.h), linked in both directions, which holds products  *)
(* and actions, and the RequestQ of a subscriber's peer (p2p/Peer.cpp),    *)
(* linked in one. Each implements Queue.                                   *)
(***************************************************************************)
EXTENDS Naturals, Sequences, FiniteSets

CONSTANTS
  Values,   \* What queues hold
  NoValue   \* A default constructed value, which they don't

VARIABLES
  kind,   \* "HashSetQueue" or "RequestQ"
  next,   \* Hash table: next value by value
  prev,   \* Previous value by value, of a HashSetQueue
  head, tail,
  drained \* Values that drainTo(), which is going on, has told about

links == <<kind, next, prev, head, tail, drained>>

Entries == DOMAIN next
Extended(f, key, value) == [k \in DOMAIN f \cup {key} |-> IF k = key THEN value ELSE f[k]]
Without(f, key) == [k \in DOMAIN f \ {key} |-> f[k]]
\* map.at(key) = value
Set(f, key, value) == [f EXCEPT ![key] = value]

Init ==
  /\ kind \in {"HashSetQueue", "RequestQ"}
  /\ next = <<>> /\ prev = <<>> /\ head = NoValue /\ tail = NoValue /\ drained = <<>>

-----------------------------------------------------------------------------
(* HashSetQueue *)

\* push(): a value that is there is left where it is.
Linked(value) ==
  LET added == Extended(next, value, NoValue)
  IN IF Entries = {} THEN added ELSE Set(added, tail, value)
Push(value) ==
  /\ kind = "HashSetQueue" /\ value \notin Entries
  /\ next' = Linked(value) /\ prev' = Extended(prev, value, tail)
  /\ head' = IF Entries = {} THEN value ELSE head
  /\ tail' = value
  /\ UNCHANGED <<kind, drained>>

\* pop()
Pop ==
  /\ kind = "HashSetQueue" /\ Entries # {}
  /\ next' = Without(next, head) /\ head' = next[head]
  /\ IF Entries = {head} THEN tail' = NoValue /\ prev' = Without(prev, head)
                         ELSE UNCHANGED tail /\ prev' = Set(Without(prev, head), head', NoValue)
  /\ UNCHANGED <<kind, drained>>

\* erase(): a value anywhere in the queue
NextAfter(value) == Without(IF value = head THEN next ELSE Set(next, prev[value], next[value]), value)
PrevUnlinked(value) == Without(prev, value)
PrevAfter(value) == Without(IF value = tail THEN prev ELSE Set(prev, next[value], prev[value]), value)
Erase(value) ==
  /\ kind = "HashSetQueue" /\ value \in Entries
  /\ next' = NextAfter(value) /\ prev' = PrevAfter(value)
  /\ head' = IF value = head THEN next[value] ELSE head
  /\ tail' = IF value = tail THEN prev[value] ELSE tail
  /\ UNCHANGED <<kind, drained>>

-----------------------------------------------------------------------------
(* RequestQ *)

\* RequestQ::push(): emplace() leaves an entry that exists. Nobody pushes a value
\* that is there: theorem RequestsAreSoundHolds of SubRequestsProofs.
PushRequest(value) ==
  /\ kind = "RequestQ" /\ drained = <<>> /\ value \notin Entries
  /\ next' = LET added == Extended(next, value, NoValue)
             IN IF tail = NoValue THEN added ELSE Set(added, tail, value)
  /\ head' = IF head = NoValue THEN value ELSE head
  /\ tail' = value
  /\ UNCHANGED <<kind, prev, drained>>

\* RequestQ::removeHead(): its users have seen that the value is there
OldTail(newHead) == tail
NewTail(newHead) == IF newHead = NoValue THEN NoValue ELSE tail
RemoveHead ==
  /\ kind = "RequestQ" /\ drained = <<>> /\ head # NoValue
  /\ next' = Without(next, head) /\ head' = next[head] /\ tail' = NewTail(head')
  /\ UNCHANGED <<kind, prev, drained>>

\* RequestQ::drainTo(): one turn of its loop, and its end. The links stay until
\* the end; nobody else uses the queue of a peer that has stopped.
DrainOne ==
  /\ kind = "RequestQ" /\ head # NoValue
  /\ drained' = Append(drained, head) /\ head' = next[head]
  /\ UNCHANGED <<kind, next, prev, tail>>
DrainEnd ==
  /\ kind = "RequestQ" /\ drained # <<>> /\ head = NoValue
  /\ next' = <<>> /\ tail' = head /\ drained' = <<>>
  /\ UNCHANGED <<kind, prev, head>>

Next ==
  \/ \E value \in Values : Push(value) \/ Erase(value) \/ PushRequest(value)
  \/ Pop \/ RemoveHead \/ DrainOne \/ DrainEnd
Spec == Init /\ [][Next]_links

-----------------------------------------------------------------------------
(* What the links stand for *)

\* Values from head on, at most n
Walk(n) ==
  LET From[k \in 0..n, v \in Values \cup {NoValue}] ==
        IF k = 0 \/ v \notin Entries THEN <<>> ELSE <<v>> \o From[k - 1, next[v]]
  IN From[n, head]
Content == Walk(Cardinality(Values) + 1)

TypeOK ==
  /\ Entries \subseteq Values /\ DOMAIN prev \subseteq Entries
  /\ head \in Values \cup {NoValue} /\ tail \in Values \cup {NoValue}

Q == INSTANCE Queue WITH content <- Content, taken <- drained

\* Whatever is pushed, popped and erased, the links hold a queue: each value once,
\* in the order of its arrival (HashSetQueue: push(), pop(), erase(); RequestQ:
\* push(), removeHead(), drainTo()).
LinksHoldQueue == Q!Spec

\* The links back and both ends agree with it.
LinksAgree ==
  /\ {Content[k] : k \in DOMAIN Content} = Entries \ {drained[k] : k \in DOMAIN drained}
  /\ Content # <<>> => tail = Content[Len(Content)]
  /\ kind = "HashSetQueue" => \A k \in DOMAIN Content : prev[Content[k]] = IF k = 1 THEN NoValue ELSE Content[k - 1]
=============================================================================
