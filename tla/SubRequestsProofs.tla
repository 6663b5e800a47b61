------------------------- MODULE SubRequestsProofs -------------------------
(***************************************************************************)
(* The safety of a subscriber's requests, for any set of peers and of data *)
(* and any number of connections.  The inductive invariant is the          *)
(* conjunction of the invariants that TLC checks: each one needs the       *)
(* others.  A datum's list has its only pending request at the front       *)
(* because the set and the list agree (so that an unknown datum's list is  *)
(* empty when the first request is made) and because a peer is in the list *)
(* once (so that the next alternative isn't the peer that failed).         *)
(***************************************************************************)
EXTENDS SubRequestsProps, SeqLemmas

IInv == /\ TypeOK
        /\ OnePeerOnce
        /\ OneRequestPerDatum
        /\ NoDuplicateRequest
        /\ ReceivingIsPending

-----------------------------------------------------------------------------
(* What the steps do to the lists of peers and to the queues of requests *)

BookTypeOK == /\ noticed \subseteq Datum
              /\ pset \in [Datum -> SUBSET Peer]
              /\ plist \in [Datum -> Seq(Peer)]
              /\ requested \in [Peer -> Seq(Datum)]
              /\ \A p \in Peer : phase[p] = "absent" => requested[p] = <<>>

BookInv == BookTypeOK /\ OnePeerOnce /\ OneRequestPerDatum /\ NoDuplicateRequest

(* One peer at most holds a datum's request: the invariant's short form. *)
LEMMA OneHolder ==
    ASSUME OneRequestPerDatum, NEW p \in Peer, NEW q \in Peer, NEW d \in Datum,
           Holds(p, d), Holds(q, d)
    PROVE  p = q
BY DEF OneRequestPerDatum

(* Neither the lists nor the queues change. *)
LEMMA BookUnchanged ==
    ASSUME BookInv, UNCHANGED <<bookVars, requested>>,
           \A p \in Peer : phase[p] # "absent" => phase'[p] # "absent"
    PROVE  BookInv'
BY DEF BookInv, BookTypeOK, OnePeerOnce, OneRequestPerDatum, NoDuplicateRequest,
       bookVars, Holds

(* Removing the front of a queue: nobody holds that request any more, and  *)
(* everybody holds what they held besides it.                              *)
LEMMA PopFront ==
    ASSUME BookInv, NEW p \in Peer, requested[p] # <<>>,
           NEW d \in Datum, d = Head(requested[p]),
           requested' = [requested EXCEPT ![p] = Tail(@)]
    PROVE  /\ requested' \in [Peer -> Seq(Datum)]
           /\ NoDuplicateRequest'
           /\ \A q \in Peer, e \in Datum :
                 Holds(q, e)' <=> Holds(q, e) /\ e # d
<1>1. /\ requested \in [Peer -> Seq(Datum)]
      /\ \A q \in Peer : IsInjective(requested[q])
    BY DEF BookInv, BookTypeOK, NoDuplicateRequest
<1>2. /\ Tail(requested[p]) \in Seq(Datum)
      /\ IsInjective(Tail(requested[p]))
      /\ Range(Tail(requested[p])) = Range(requested[p]) \ {d}
    BY <1>1, TailWithout
<1>3. requested' \in [Peer -> Seq(Datum)]
    BY <1>1, <1>2
<1>4. NoDuplicateRequest'
    BY <1>1, <1>2 DEF NoDuplicateRequest
<1>5. Holds(p, d)
    BY <1>1, TailWithout DEF Holds
<1>6. ASSUME NEW q \in Peer, NEW e \in Datum
      PROVE  Holds(q, e)' <=> Holds(q, e) /\ e # d
    <2>1. CASE q = p
        BY <1>1, <1>2, <2>1 DEF Holds
    <2>2. CASE q # p
        <3>1. ~ Holds(q, d)
            BY <1>5, <2>2, OneHolder DEF BookInv
        <3>. QED BY <1>1, <2>2, <3>1 DEF Holds
    <2>. QED BY <2>1, <2>2
<1>. QED BY <1>3, <1>4, <1>6

(* Booking an announcement: only the first announcer gets the request. *)
LEMMA BookKeepsInv ==
    ASSUME BookInv, NEW p \in Peer, NEW d \in Datum, AddPeer(p, d),
           requested' = IF ShouldRequest(d)
                        THEN [requested EXCEPT ![p] = Append(@, d)]
                        ELSE requested,
           phase[p] # "absent", phase' = phase
    PROVE  /\ BookInv'
           /\ \A q \in Peer, e \in Datum :
                 Holds(q, e)' <=> Holds(q, e) \/ (q = p /\ e = d /\ ShouldRequest(d))
<1>1. /\ BookTypeOK /\ OnePeerOnce /\ OneRequestPerDatum /\ NoDuplicateRequest
    BY DEF BookInv
<1>2. /\ Append(plist[d], p) \in Seq(Peer)
      /\ Append(plist[d], p) # <<>>
      /\ Range(Append(plist[d], p)) = pset[d] \cup {p}
      /\ plist[d] # <<>> => Head(Append(plist[d], p)) = Head(plist[d])
      /\ plist[d] = <<>> => Head(Append(plist[d], p)) = p
      /\ p \notin pset[d] => IsInjective(Append(plist[d], p))
    <2>1. plist[d] \in Seq(Peer) /\ IsInjective(plist[d]) /\ Range(plist[d]) = pset[d]
        BY <1>1 DEF BookTypeOK, OnePeerOnce
    <2>. QED BY <2>1, AppendNew
<1>3. /\ noticed' \subseteq Datum
      /\ pset' \in [Datum -> SUBSET Peer]
      /\ plist' \in [Datum -> Seq(Peer)]
    BY <1>1, <1>2 DEF AddPeer, BookTypeOK
<1>4. OnePeerOnce'
    BY <1>1, <1>2 DEF OnePeerOnce, AddPeer, BookTypeOK
<1>5. ShouldRequest(d) => pset[d] = {} /\ plist[d] = <<>> /\ \A q \in Peer : ~ Holds(q, d)
    <2>1. ASSUME ShouldRequest(d)
          PROVE  pset[d] = {} /\ plist[d] = <<>>
        <3>1. pset[d] = {} /\ Range(plist[d]) = {} /\ plist[d] \in Seq(Peer)
            BY <1>1, <2>1 DEF OnePeerOnce, ShouldRequest, BookTypeOK
        <3>2. plist[d] # <<>> => Head(plist[d]) \in Range(plist[d])
            BY <3>1, TailWithout
        <3>. QED BY <3>1, <3>2
    <2>2. plist[d] = <<>> => \A q \in Peer : ~ Holds(q, d)
        BY <1>1 DEF OneRequestPerDatum
    <2>. QED BY <2>1, <2>2
<1>6. /\ requested' \in [Peer -> Seq(Datum)]
      /\ NoDuplicateRequest'
      /\ \A q \in Peer, e \in Datum :
            Holds(q, e)' <=> Holds(q, e) \/ (q = p /\ e = d /\ ShouldRequest(d))
    <2>1. CASE ShouldRequest(d)
        <3>1. requested[p] \in Seq(Datum) /\ IsInjective(requested[p]) /\ d \notin Range(requested[p])
            BY <1>1, <1>5, <2>1 DEF BookTypeOK, NoDuplicateRequest, Holds
        <3>2. /\ Append(requested[p], d) \in Seq(Datum)
              /\ IsInjective(Append(requested[p], d))
              /\ Range(Append(requested[p], d)) = Range(requested[p]) \cup {d}
            BY <3>1, AppendNew
        <3>3. requested' = [requested EXCEPT ![p] = Append(@, d)]
            BY <2>1
        <3>. QED BY <1>1, <2>1, <3>2, <3>3 DEF BookTypeOK, NoDuplicateRequest, Holds
    <2>2. CASE ~ ShouldRequest(d)
        BY <1>1, <2>2 DEF BookTypeOK, NoDuplicateRequest, Holds
    <2>. QED BY <2>1, <2>2
<1>7. OneRequestPerDatum'
    <2>1. SUFFICES ASSUME NEW q \in Peer, NEW e \in Datum, Holds(q, e)'
                   PROVE  plist'[e] # <<>> /\ Head(plist'[e]) = q
        BY DEF OneRequestPerDatum
    <2>2. CASE Holds(q, e)
        <3>1. plist[e] # <<>> /\ Head(plist[e]) = q
            BY <1>1, <2>2 DEF OneRequestPerDatum
        <3>. QED BY <1>1, <1>2, <3>1 DEF AddPeer, BookTypeOK
    <2>3. CASE q = p /\ e = d /\ ShouldRequest(d)
        BY <1>1, <1>2, <1>5, <2>3 DEF AddPeer, BookTypeOK
    <2>. QED BY <1>6, <2>1, <2>2, <2>3
<1>8. \A q \in Peer : phase'[q] = "absent" => requested'[q] = <<>>
    BY <1>1 DEF BookTypeOK
<1>. QED BY <1>3, <1>4, <1>6, <1>7, <1>8 DEF BookInv, BookTypeOK

(* Reassigning the request at the front of a queue: at most one other peer *)
(* gets it, a connected one, and the peer that had it is forgotten.        *)
LEMMA ReassignKeepsInv ==
    ASSUME BookInv, NEW p \in Peer, requested[p] # <<>>,
           NEW d \in Datum, d = Head(requested[p]), Reassign(p, d),
           \A q \in Peer : phase'[q] = "absent" => phase[q] = "absent"
    PROVE  /\ BookInv'
           /\ \A q \in Peer, e \in Datum :
                 /\ Holds(q, e) /\ e # d => Holds(q, e)'
                 /\ Holds(q, e)' => Holds(q, e) \/ e = d
           /\ p \notin pset'[d]
<1>1. BookTypeOK /\ OnePeerOnce /\ OneRequestPerDatum /\ NoDuplicateRequest
    BY DEF BookInv
<1>2. Holds(p, d)
    BY <1>1, TailWithout DEF BookTypeOK, Holds
<1>3. plist[d] \in Seq(Peer) /\ plist[d] # <<>> /\ Head(plist[d]) = p
    BY <1>1, <1>2 DEF OneRequestPerDatum, BookTypeOK
<1>4. ListWithout(p, d) = Tail(plist[d])
    BY <1>3 DEF ListWithout
<1>5. /\ Tail(plist[d]) \in Seq(Peer)
      /\ IsInjective(Tail(plist[d]))
      /\ Range(Tail(plist[d])) = pset[d] \ {p}
    <2>1. IsInjective(plist[d]) /\ Range(plist[d]) = pset[d]
        BY <1>1 DEF OnePeerOnce
    <2>. QED BY <1>3, <2>1, TailWithout
<1>6. /\ noticed' = noticed
      /\ pset' = [pset EXCEPT ![d] = @ \ {p}]
      /\ plist' = [plist EXCEPT ![d] = Tail(@)]
    BY <1>4 DEF Reassign, SetWithout
<1>7. /\ noticed' \subseteq Datum
      /\ pset' \in [Datum -> SUBSET Peer]
      /\ plist' \in [Datum -> Seq(Peer)]
      /\ p \notin pset'[d]
    BY <1>1, <1>5, <1>6 DEF BookTypeOK
<1>8. OnePeerOnce'
    BY <1>1, <1>5, <1>6 DEF OnePeerOnce, BookTypeOK
<1>9. \A q \in Peer, e \in Datum : Holds(q, e) /\ e # d => plist'[e] = plist[e]
    BY <1>1, <1>6 DEF BookTypeOK
<1> DEFINE popped == [requested EXCEPT ![p] = Tail(@)]
<1>10. /\ popped \in [Peer -> Seq(Datum)]
       /\ \A q \in Peer : IsInjective(popped[q])
       /\ \A q \in Peer, e \in Datum :
             e \in Range(popped[q]) <=> Holds(q, e) /\ e # d
    <2>1. /\ requested \in [Peer -> Seq(Datum)]
          /\ \A q \in Peer : IsInjective(requested[q])
        BY <1>1 DEF BookTypeOK, NoDuplicateRequest
    <2>2. /\ Tail(requested[p]) \in Seq(Datum)
          /\ IsInjective(Tail(requested[p]))
          /\ Range(Tail(requested[p])) = Range(requested[p]) \ {d}
        BY <2>1, TailWithout
    <2>3. \A q \in Peer : q # p => ~ Holds(q, d)
        BY <1>1, <1>2, OneHolder
    <2>. QED BY <2>1, <2>2, <2>3 DEF Holds
<1>11. CASE ListWithout(p, d) = <<>> \/ AltIsGone(p, d)
    <2>1. requested' = popped
        BY <1>11 DEF Reassign
    <2>2. \A q \in Peer, e \in Datum : Holds(q, e)' <=> Holds(q, e) /\ e # d
        BY <1>10, <2>1 DEF Holds
    <2>3. OneRequestPerDatum'
        BY <1>1, <1>9, <2>2 DEF OneRequestPerDatum
    <2>4. NoDuplicateRequest'
        BY <1>10, <2>1 DEF NoDuplicateRequest
    <2>5. \A q \in Peer : phase'[q] = "absent" => requested'[q] = <<>>
        BY <1>1, <2>1 DEF BookTypeOK
    <2>6. BookInv'
        BY <1>7, <1>8, <1>10, <2>1, <2>3, <2>4, <2>5 DEF BookInv, BookTypeOK
    <2>. QED BY <1>7, <2>2, <2>6
<1>12. CASE ~ (ListWithout(p, d) = <<>> \/ AltIsGone(p, d))
    <2> DEFINE alt == Head(Tail(plist[d]))
    <2>1. Tail(plist[d]) # <<>> /\ alt \in Peer /\ alt # p /\ phase[alt] # "absent"
        <3>1. Tail(plist[d]) # <<>> /\ alt \in Members
            BY <1>4, <1>12 DEF AltIsGone
        <3>2. alt \in Range(Tail(plist[d]))
            BY <1>5, <3>1, TailWithout
        <3>. QED BY <1>5, <3>1, <3>2 DEF Members
    <2>2. requested' = [popped EXCEPT ![alt] = Append(@, d)]
        <3>1. requested' = [requested EXCEPT ![p] = Tail(@), ![alt] = Append(@, d)]
            BY <1>4, <1>12 DEF Reassign
        <3>. QED BY <1>1, <2>1, <3>1 DEF BookTypeOK
    <2>3. /\ Append(popped[alt], d) \in Seq(Datum)
          /\ IsInjective(Append(popped[alt], d))
          /\ Range(Append(popped[alt], d)) = Range(popped[alt]) \cup {d}
        <3>1. popped[alt] \in Seq(Datum) /\ IsInjective(popped[alt]) /\ d \notin Range(popped[alt])
            BY <1>10, <2>1
        <3>. HIDE DEF popped, alt
        <3>. QED BY <3>1, AppendNew
    <2>4. /\ requested' \in [Peer -> Seq(Datum)]
          /\ NoDuplicateRequest'
        <3>. HIDE DEF popped, alt
        <3>. QED BY <1>10, <2>1, <2>2, <2>3 DEF NoDuplicateRequest
    <2>5. \A q \in Peer, e \in Datum :
             Holds(q, e)' <=> (Holds(q, e) /\ e # d) \/ (q = alt /\ e = d)
        <3>1. \A q \in Peer, e \in Datum :
                 e \in Range(requested'[q])
                    <=> e \in Range(popped[q]) \/ (q = alt /\ e = d)
            <4>. HIDE DEF popped, alt
            <4>. QED BY <1>10, <2>1, <2>2, <2>3
        <3>. QED BY <1>10, <3>1 DEF Holds
    <2>6. OneRequestPerDatum'
        <3>1. SUFFICES ASSUME NEW q \in Peer, NEW e \in Datum, Holds(q, e)'
                       PROVE  plist'[e] # <<>> /\ Head(plist'[e]) = q
            BY DEF OneRequestPerDatum
        <3>2. CASE Holds(q, e) /\ e # d
            BY <1>1, <1>9, <3>2 DEF OneRequestPerDatum
        <3>3. CASE q = alt /\ e = d
            BY <1>1, <1>6, <2>1, <3>3 DEF BookTypeOK
        <3>. QED BY <2>5, <3>1, <3>2, <3>3
    <2>7. \A q \in Peer : phase'[q] = "absent" => requested'[q] = <<>>
        BY <1>1, <2>1, <2>2 DEF BookTypeOK
    <2>8. BookInv'
        BY <1>7, <1>8, <2>4, <2>6, <2>7 DEF BookInv, BookTypeOK
    <2>. QED BY <1>7, <2>5, <2>8
<1>. QED BY <1>11, <1>12

(* Taking the request at the front of a queue, and forgetting the datum or *)
(* not.                                                                    *)
LEMMA TakeKeepsInv ==
    ASSUME BookInv, NEW p \in Peer, requested[p] # <<>>,
           NEW d \in Datum, d = Head(requested[p]),
           requested' = [requested EXCEPT ![p] = Tail(@)],
           EraseNotice(d) \/ UNCHANGED bookVars,
           \A q \in Peer : phase'[q] = "absent" => phase[q] = "absent"
    PROVE  /\ BookInv'
           /\ \A q \in Peer, e \in Datum : Holds(q, e)' <=> Holds(q, e) /\ e # d
<1>1. BookTypeOK /\ OnePeerOnce /\ OneRequestPerDatum /\ NoDuplicateRequest
    BY DEF BookInv
<1>2. /\ requested' \in [Peer -> Seq(Datum)]
      /\ NoDuplicateRequest'
      /\ \A q \in Peer, e \in Datum : Holds(q, e)' <=> Holds(q, e) /\ e # d
    BY PopFront
<1>3. /\ noticed' \subseteq Datum
      /\ pset' \in [Datum -> SUBSET Peer]
      /\ plist' \in [Datum -> Seq(Peer)]
    <2>1. CASE EraseNotice(d)
        <3>1. <<>> \in Seq(Peer)
            OBVIOUS
        <3>. QED BY <1>1, <2>1, <3>1 DEF BookTypeOK, EraseNotice
    <2>2. CASE UNCHANGED bookVars
        BY <1>1, <2>2 DEF BookTypeOK, bookVars
    <2>. QED BY <2>1, <2>2
<1>4. OnePeerOnce'
    <2>1. CASE EraseNotice(d)
        <3>1. <<>> \in Seq(Peer) /\ IsInjective(<<>>) /\ Range(<<>>) = {}
            BY DEF IsInjective, Range
        <3>. QED BY <1>1, <2>1, <3>1 DEF OnePeerOnce, EraseNotice, BookTypeOK
    <2>2. CASE UNCHANGED bookVars
        BY <1>1, <2>2 DEF OnePeerOnce, bookVars
    <2>. QED BY <2>1, <2>2
<1>5. OneRequestPerDatum'
    <2>1. SUFFICES ASSUME NEW q \in Peer, NEW e \in Datum, Holds(q, e)'
                   PROVE  plist'[e] # <<>> /\ Head(plist'[e]) = q
        BY DEF OneRequestPerDatum
    <2>2. plist'[e] = plist[e]
        BY <1>1, <1>2, <2>1 DEF EraseNotice, bookVars, BookTypeOK
    <2>. QED BY <1>1, <1>2, <2>1, <2>2 DEF OneRequestPerDatum
<1>6. \A q \in Peer : phase'[q] = "absent" => requested'[q] = <<>>
    BY <1>1 DEF BookTypeOK
<1>. QED BY <1>2, <1>3, <1>4, <1>5, <1>6 DEF BookInv, BookTypeOK

-----------------------------------------------------------------------------
(* The invariant *)

(* What TypeOK says of the variables that aren't the bookkeeper's. *)
LEMMA SplitIInv ==
    IInv <=> /\ TypeOK
             /\ BookInv
             /\ ReceivingIsPending
BY DEF IInv, BookInv, BookTypeOK, TypeOK

(* The initial state satisfies the invariant. *)
LEMMA InitIInv == Init => IInv
<1> SUFFICES ASSUME Init PROVE IInv
    OBVIOUS
<1>1. <<>> \in Seq(Peer) /\ <<>> \in Seq(Datum)
    OBVIOUS
<1>2. IsInjective(<<>>) /\ Range(<<>>) = {}
    BY DEF IsInjective, Range
<1>3. TypeOK
    BY <1>1, BoundAssumption DEF Init, TypeOK, Phase, ReadersIdle
<1>4. OnePeerOnce /\ OneRequestPerDatum /\ NoDuplicateRequest
    BY <1>2 DEF Init, OnePeerOnce, OneRequestPerDatum, NoDuplicateRequest, Holds
<1>5. ReceivingIsPending
    BY DatumAssumption DEF Init, ReceivingIsPending
<1>. QED BY <1>3, <1>4, <1>5 DEF IInv

(* Connections that begin and end don't disturb the requests, except that  *)
(* a removed peer's queue disappears; it is then empty or its requests are *)
(* lost, but nobody else's change.                                         *)
LEMMA ConnectionStep ==
    ASSUME IInv, NEW p \in Peer,
           Connect(p) \/ EndConn(p) \/ Stop(p) \/ Drained(p) \/ Remove(p)
    PROVE  IInv'
<1>1. TypeOK /\ BookInv /\ ReceivingIsPending
    BY SplitIInv
<1>2. CASE Remove(p)
    <2>1. <<>> \in Seq(Datum) /\ IsInjective(<<>>) /\ Range(<<>>) = {}
        BY DEF IsInjective, Range
    <2>2. TypeOK'
        BY <1>1, <1>2, <2>1 DEF TypeOK, Remove, Phase, ReadersIdle, bookVars, connVars
    <2>3. OnePeerOnce'
        BY <1>1, <1>2 DEF OnePeerOnce, BookInv, Remove, bookVars
    <2>4. \A q \in Peer, e \in Datum : Holds(q, e)' => Holds(q, e)
        BY <1>1, <1>2, <2>1 DEF Holds, Remove, TypeOK
    <2>5. OneRequestPerDatum'
        BY <1>1, <1>2, <2>4 DEF OneRequestPerDatum, BookInv, Remove, bookVars
    <2>6. NoDuplicateRequest'
        BY <1>1, <1>2, <2>1 DEF NoDuplicateRequest, BookInv, Remove, TypeOK
    <2>7. ReceivingIsPending'
        BY <1>1, <1>2 DEF ReceivingIsPending, Remove, TypeOK, ReadersIdle, Holds
    <2>. QED BY <2>2, <2>3, <2>5, <2>6, <2>7 DEF IInv
<1>3. CASE Connect(p) \/ EndConn(p) \/ Stop(p) \/ Drained(p)
    <2>1. <<>> \in Seq(Datum)
        OBVIOUS
    <2>2. TypeOK'
        <3>1. CASE Connect(p)
            BY <1>1, <3>1, BoundAssumption
            DEF TypeOK, Connect, Phase, ReadersIdle, bookVars, connVars
        <3>2. CASE EndConn(p)
            BY <1>1, <2>1, <3>2 DEF TypeOK, EndConn, Phase, ReadersIdle, bookVars, connVars
        <3>3. CASE Stop(p)
            BY <1>1, <2>1, <3>3 DEF TypeOK, Stop, Phase, ReadersIdle, bookVars, connVars
        <3>4. CASE Drained(p)
            BY <1>1, <3>4 DEF TypeOK, Drained, Phase, ReadersIdle, bookVars, connVars
        <3>. QED BY <1>3, <3>1, <3>2, <3>3, <3>4
    <2>3. UNCHANGED <<bookVars, requested, receiving>>
        BY <1>3 DEF Connect, EndConn, Stop, Drained
    <2>4. \A q \in Peer : phase[q] # "absent" => phase'[q] # "absent"
        BY <1>1, <1>3 DEF Connect, EndConn, Stop, Drained, TypeOK
    <2>5. BookInv'
        BY <1>1, <2>3, <2>4, BookUnchanged
    <2>6. ReceivingIsPending'
        BY <1>1, <2>3 DEF ReceivingIsPending, Holds
    <2>. QED BY <2>2, <2>5, <2>6, SplitIInv DEF IInv, BookInv
<1>. QED BY <1>2, <1>3

(* Steps that touch neither the bookkeeper, a queue nor a data reader. *)
LEMMA QuietStep ==
    ASSUME IInv,
           \/ \E p \in Peer, d \in Datum : RecvNotice(p, d)
           \/ \E p \in Peer : Send(p)
           \/ \E d \in Datum : RecvMcast(d)
           \/ UNCHANGED vars
    PROVE  IInv'
<1>1. TypeOK /\ BookInv /\ ReceivingIsPending
    BY SplitIInv
<1>2. UNCHANGED <<bookVars, requested, receiving>>
    BY DEF RecvNotice, Send, RecvMcast, vars
<1>3. TypeOK'
    <2>1. CASE \E p \in Peer, d \in Datum : RecvNotice(p, d)
        BY <1>1, <2>1 DEF TypeOK, RecvNotice, Phase, ReadersIdle, bookVars
    <2>2. CASE \E p \in Peer : Send(p)
        <3>1. PICK p \in Peer : Send(p)
            BY <2>2
        <3>2. unsent[p] \in Datum /\ wire[p] \in Seq(Datum)
            BY <1>1, <3>1 DEF TypeOK, Send
        <3>3. Append(wire[p], unsent[p]) \in Seq(Datum)
            BY <3>2
        <3>. QED BY <1>1, <3>1, <3>2, <3>3 DEF TypeOK, Send, Phase, ReadersIdle, bookVars
    <2>3. CASE \E d \in Datum : RecvMcast(d)
        BY <1>1, <2>3
        DEF TypeOK, RecvMcast, Phase, ReadersIdle, NotifyThrows, bookVars, connVars
    <2>4. CASE UNCHANGED vars
        BY <1>1, <2>4 DEF TypeOK, vars, ReadersIdle, bookVars, connVars
    <2>. QED BY <2>1, <2>2, <2>3, <2>4
<1>4. \A q \in Peer : phase[q] # "absent" => phase'[q] # "absent"
    BY <1>1 DEF RecvNotice, Send, RecvMcast, vars, TypeOK
<1>5. BookInv'
    BY <1>1, <1>2, <1>4, BookUnchanged
<1>6. ReceivingIsPending'
    BY <1>1, <1>2 DEF ReceivingIsPending, Holds
<1>. QED BY <1>3, <1>5, <1>6, SplitIInv DEF IInv, BookInv

(* A notice reader books an announcement. *)
LEMMA BookStep ==
    ASSUME IInv, NEW p \in Peer, Book(p)
    PROVE  IInv'
<1> DEFINE d == checking[p]
<1>1. TypeOK /\ BookInv /\ ReceivingIsPending
    BY SplitIInv
<1>2. d \in Datum /\ phase[p] # "absent"
    BY <1>1 DEF TypeOK, Book, ReadersIdle
<1>3. requested' = IF ShouldRequest(d)
                   THEN [requested EXCEPT ![p] = Append(@, d)]
                   ELSE requested
    BY DEF Book
<1>4. AddPeer(p, d) /\ phase' = phase
    BY DEF Book
<1>5. /\ BookInv'
      /\ \A q \in Peer, e \in Datum :
            Holds(q, e)' <=> Holds(q, e) \/ (q = p /\ e = d /\ ShouldRequest(d))
    <2>. HIDE DEF d
    <2>. QED BY <1>1, <1>2, <1>3, <1>4, BookKeepsInv
<1>6. TypeOK'
    <2>1. /\ unsent' \in [Peer -> Datum \cup {NoDatum}]
          /\ checking' \in [Peer -> Datum \cup {NoDatum}]
          /\ \A q \in Peer : q # p => unsent'[q] = unsent[q] /\ checking'[q] = checking[q]
        BY <1>1, <1>2 DEF Book, TypeOK
    <2>2. \A q \in Peer :
             phase'[q] \in {"failed", "ended", "stopped", "drained", "absent"}
                => ReadersIdle(q)' /\ wire'[q] = <<>>
        <3>1. phase[p] \notin {"failed", "ended", "stopped", "drained", "absent"}
            BY <1>1 DEF TypeOK, Book, ReadersIdle
        <3>. QED BY <1>1, <2>1, <3>1 DEF TypeOK, Book, ReadersIdle
    <2>3. UNCHANGED <<up, repo, phase, connects, wire, receiving>>
        BY DEF Book
    <2>. QED BY <1>1, <1>5, <2>1, <2>2, <2>3 DEF TypeOK, BookInv, BookTypeOK
<1>7. ReceivingIsPending'
    BY <1>1, <1>5 DEF ReceivingIsPending, TypeOK, Book
<1>. QED BY <1>5, <1>6, <1>7, SplitIInv DEF IInv, BookInv

(* A data reader learns what it has received. *)
LEMMA AnswerStep ==
    ASSUME IInv, NEW p \in Peer, NEW i \in DOMAIN wire[p], Answer(p, i)
    PROVE  IInv'
<1>1. TypeOK /\ BookInv /\ ReceivingIsPending
    BY SplitIInv
<1>2. wire[p] \in Seq(Datum) /\ wire[p][i] \in Datum /\ i \in 1 .. Len(wire[p])
    BY <1>1 DEF TypeOK
<1>3. SubSeq(wire[p], i + 1, Len(wire[p])) \in Seq(Datum)
    BY <1>2
<1>4. TypeOK'
    BY <1>1, <1>2, <1>3 DEF TypeOK, Answer, Phase, ReadersIdle, bookVars, connVars
<1>5. \A q \in Peer : phase[q] # "absent" => phase'[q] # "absent"
    BY <1>1 DEF Answer, TypeOK
<1>6. BookInv'
    BY <1>1, <1>5, BookUnchanged DEF Answer
<1>7. ReceivingIsPending'
    BY <1>1, <1>2 DEF ReceivingIsPending, Answer, Holds, TypeOK
<1>. QED BY <1>4, <1>6, <1>7, SplitIInv DEF IInv, BookInv

(* Writing the reassigned request puts nothing on the wire of a peer that  *)
(* isn't running.                                                          *)
LEMMA ReassignWire ==
    ASSUME TypeOK, NEW p \in Peer, NEW d \in Datum, Reassign(p, d)
    PROVE  /\ wire' \in [Peer -> Seq(Datum)]
           /\ \A q \in Peer : phase[q] # "running" => wire'[q] = wire[q]
<1>1. wire \in [Peer -> Seq(Datum)]
    BY DEF TypeOK
<1>2. CASE UNCHANGED wire
    BY <1>1, <1>2
<1>3. CASE ~ UNCHANGED wire
    <2>1. PICK alt : phase[alt] = "running" /\ wire' = [wire EXCEPT ![alt] = Append(@, d)]
        BY <1>3 DEF Reassign
    <2>2. \A q \in Peer : Append(wire[q], d) \in Seq(Datum)
        BY <1>1
    <2>. QED BY <1>1, <2>1, <2>2
<1>. QED BY <1>2, <1>3

(* A request is reassigned because its peer stopped or didn't satisfy it. *)
LEMMA ReassignStep ==
    ASSUME IInv, NEW p \in Peer, Drain(p) \/ Miss(p)
    PROVE  /\ IInv'
           /\ requested[p] # <<>>
           /\ Head(requested[p]) \in Datum
           /\ Reassign(p, Head(requested[p]))
           /\ \A q \in Peer : phase'[q] = "absent" => phase[q] = "absent"
<1> DEFINE d == Head(requested[p])
<1>1. TypeOK /\ BookInv /\ ReceivingIsPending
    BY SplitIInv
<1>2. requested[p] \in Seq(Datum) /\ requested[p] # <<>>
    <2>1. CASE Drain(p)
        BY <1>1, <2>1 DEF TypeOK, Drain
    <2>2. CASE Miss(p)
        <3>1. Holds(p, receiving[p]) /\ requested[p] \in Seq(Datum)
            BY <1>1, <2>2 DEF ReceivingIsPending, TypeOK, Miss
        <3>2. Range(<<>>) = {}
            BY DEF Range
        <3>. QED BY <3>1, <3>2 DEF Holds
    <2>. QED BY <2>1, <2>2
<1>3. d \in Datum /\ Holds(p, d)
    BY <1>2, TailWithout DEF Holds
<1>4. Reassign(p, d)
    BY DEF Drain, Miss
<1>5. phase'[p] # "absent" /\ \A q \in Peer : q # p => phase'[q] = phase[q]
    BY <1>1 DEF TypeOK, Drain, Miss, ReadersIdle
<1>6. /\ BookInv'
      /\ \A q \in Peer, e \in Datum : Holds(q, e) /\ e # d => Holds(q, e)'
    <2>1. \A q \in Peer : phase'[q] = "absent" => phase[q] = "absent"
        BY <1>5
    <2>. HIDE DEF d
    <2>. QED BY <1>1, <1>2, <1>3, <1>4, <2>1, ReassignKeepsInv DEF d
<1>7. TypeOK'
    <2>1. /\ wire' \in [Peer -> Seq(Datum)]
          /\ \A q \in Peer : phase[q] # "running" => wire'[q] = wire[q]
        BY <1>1, <1>3, <1>4, ReassignWire
    <2>2. CASE Drain(p)
        BY <1>1, <1>6, <2>1, <2>2
        DEF TypeOK, BookInv, BookTypeOK, Drain, ReadersIdle, connVars
    <2>3. CASE Miss(p)
        <3>1. /\ UNCHANGED <<up, repo, connects, connVars>>
              /\ phase[p] \notin {"failed", "ended", "stopped", "drained", "absent"}
              /\ \/ /\ phase' = [phase EXCEPT ![p] = "broken"]
                    /\ receiving' = [receiving EXCEPT ![p] = NoDatum]
                 \/ UNCHANGED <<phase, receiving>>
            BY <1>1, <2>3 DEF TypeOK, Miss, ReadersIdle
        <3>. QED BY <1>1, <1>6, <2>1, <3>1
             DEF TypeOK, BookInv, BookTypeOK, Phase, ReadersIdle, connVars
    <2>. QED BY <2>2, <2>3
<1>8. ReceivingIsPending'
    <2>1. SUFFICES ASSUME NEW q \in Peer, receiving'[q] # NoDatum
                   PROVE  Holds(q, receiving[q])'
        BY DEF ReceivingIsPending
    <2>2. receiving'[q] = receiving[q] /\ receiving[q] \in Datum
        BY <1>1, <2>1 DEF Drain, Miss, TypeOK
    <2>3. Holds(q, receiving[q])
        BY <1>1, <2>1, <2>2 DEF ReceivingIsPending
    <2>4. receiving[q] # d
        <3>1. CASE q = p
            BY <1>1, <2>1, <2>2, <3>1 DEF Drain, Miss, TypeOK, ReadersIdle
        <3>2. CASE q # p
            BY <1>1, <1>3, <2>3, <3>2, OneHolder DEF BookInv
        <3>. QED BY <3>1, <3>2
    <2>5. receiving[q] \in Range(requested'[q])
        BY <1>6, <2>2, <2>3, <2>4 DEF Holds
    <2>. QED BY <2>2, <2>5 DEF Holds
<1>9. \A q \in Peer : phase'[q] = "absent" => phase[q] = "absent"
    BY <1>5
<1>. QED BY <1>2, <1>3, <1>4, <1>6, <1>7, <1>8, <1>9, SplitIInv DEF IInv, BookInv

(* A data reader has come to the datum it received. *)
LEMMA TakeStep ==
    ASSUME IInv, NEW p \in Peer,
           Accept(p) \/ AcceptNotifyThrows(p) \/ AcceptEraseThrows(p)
    PROVE  /\ IInv'
           /\ \A q \in Peer, e \in Datum : Holds(q, e)' => Holds(q, e)
<1> DEFINE d == receiving[p]
<1>1. TypeOK /\ BookInv /\ ReceivingIsPending
    BY SplitIInv
<1>2. /\ TakeDatum(p)
      /\ EraseNotice(d) \/ UNCHANGED bookVars
    BY DEF Accept, AcceptNotifyThrows, AcceptEraseThrows
<1>3. /\ d \in Datum
      /\ d = Head(requested[p])
      /\ requested' = [requested EXCEPT ![p] = Tail(@)]
      /\ receiving' = [receiving EXCEPT ![p] = NoDatum]
      /\ repo' = repo \/ repo' = repo \cup {d}
      /\ UNCHANGED <<connects, connVars, wire, up>>
    BY <1>1, <1>2 DEF TakeDatum, TypeOK
<1>4. Holds(p, d) /\ requested[p] # <<>>
    <2>1. Holds(p, d)
        BY <1>1, <1>2 DEF ReceivingIsPending, TakeDatum
    <2>2. Range(<<>>) = {}
        BY DEF Range
    <2>. QED BY <2>1, <2>2 DEF Holds
<1>5. /\ phase' \in [Peer -> Phase]
      /\ phase'[p] # "absent"
      /\ \A q \in Peer : phase'[q] = "absent" => phase[q] = "absent"
      /\ \A q \in Peer : phase'[q] \in {"failed", "ended", "stopped", "drained", "absent"}
                        => phase[q] \in {"failed", "ended", "stopped", "drained", "absent"}
    <2>1. phase[p] \notin {"failed", "ended", "stopped", "drained", "absent"}
        BY <1>1, <1>2 DEF TypeOK, ReadersIdle, TakeDatum
    <2>2. CASE Accept(p) \/ AcceptEraseThrows(p)
        BY <1>1, <2>1, <2>2 DEF Accept, AcceptEraseThrows, TypeOK, Phase
    <2>3. CASE AcceptNotifyThrows(p)
        <3>1. PICK q \in Peer : /\ NotifyThrows(q, d)
                                /\ phase' = [phase EXCEPT ![q] = "ended", ![p] = "broken"]
            BY <2>3 DEF AcceptNotifyThrows
        <3>2. phase[q] = "failed"
            BY <3>1 DEF NotifyThrows
        <3>. QED BY <1>1, <2>1, <3>1, <3>2 DEF TypeOK, Phase
    <2>. QED BY <2>2, <2>3
<1>6. /\ BookInv'
      /\ \A q \in Peer, e \in Datum : Holds(q, e)' <=> Holds(q, e) /\ e # d
    <2>. HIDE DEF d
    <2>. QED BY <1>1, <1>2, <1>3, <1>4, <1>5, TakeKeepsInv
<1>7. TypeOK'
    BY <1>1, <1>3, <1>5, <1>6 DEF TypeOK, BookInv, BookTypeOK, ReadersIdle, connVars
<1>8. ReceivingIsPending'
    <2>1. SUFFICES ASSUME NEW q \in Peer, receiving'[q] # NoDatum
                   PROVE  Holds(q, receiving[q])'
        BY DEF ReceivingIsPending
    <2>2. q # p /\ receiving'[q] = receiving[q] /\ receiving[q] \in Datum
        BY <1>1, <1>3, <2>1 DEF TypeOK
    <2>3. Holds(q, receiving[q])
        BY <1>1, <2>1, <2>2 DEF ReceivingIsPending
    <2>4. receiving[q] # d
        BY <1>1, <1>3, <1>4, <2>2, <2>3, OneHolder DEF BookInv
    <2>5. receiving[q] \in Range(requested'[q])
        BY <1>6, <2>2, <2>3, <2>4 DEF Holds
    <2>. QED BY <2>2, <2>5 DEF Holds
<1>. QED BY <1>6, <1>7, <1>8, SplitIInv DEF IInv, BookInv

(* Every step preserves the invariant. *)
LEMMA NextIInv == IInv /\ [Next]_vars => IInv'
<1> SUFFICES ASSUME IInv, [Next]_vars PROVE IInv'
    OBVIOUS
<1>1. ASSUME NEW p \in Peer,
             Connect(p) \/ EndConn(p) \/ Stop(p) \/ Drained(p) \/ Remove(p)
      PROVE  IInv'
    BY <1>1, ConnectionStep
<1>2. ASSUME NEW p \in Peer, Drain(p) \/ Miss(p)
      PROVE  IInv'
    BY <1>2, ReassignStep
<1>3. ASSUME NEW p \in Peer, NEW d \in Datum, RecvNotice(p, d)
      PROVE  IInv'
    BY <1>3, QuietStep
<1>4. ASSUME NEW p \in Peer, Book(p)
      PROVE  IInv'
    BY <1>4, BookStep
<1>5. ASSUME NEW p \in Peer, Send(p)
      PROVE  IInv'
    BY <1>5, QuietStep
<1>6. ASSUME NEW p \in Peer, NEW i \in DOMAIN wire[p], Answer(p, i)
      PROVE  IInv'
    BY <1>6, AnswerStep
<1>7. ASSUME NEW p \in Peer,
             Accept(p) \/ AcceptNotifyThrows(p) \/ AcceptEraseThrows(p)
      PROVE  IInv'
    BY <1>7, TakeStep
<1>8. ASSUME NEW d \in Datum, RecvMcast(d)
      PROVE  IInv'
    BY <1>8, QuietStep
<1>9. CASE UNCHANGED vars
    BY <1>9, QuietStep
<1>. QED BY <1>1, <1>2, <1>3, <1>4, <1>5, <1>6, <1>7, <1>8, <1>9 DEF Next

(***************************************************************************)
(* IInv is an invariant of the subscriber (SubP2pMgrImpl, SubPeerImpl and  *)
(* SubBookkeeper together).                                                *)
(***************************************************************************)
THEOREM InvariantHolds == Spec => []IInv
<1>1. Init => IInv
    BY InitIInv
<1>2. IInv /\ [Next]_vars => IInv'
    BY NextIInv
<1>. QED BY <1>1, <1>2, PTL DEF Spec

(***************************************************************************)
(* The variables keep their types, and a peer that isn't in peerMap has    *)
(* neither readers at work nor requests.                                   *)
(***************************************************************************)
THEOREM TypeCorrect == Spec => []TypeOK
<1>1. IInv => TypeOK
    BY DEF IInv
<1>. QED BY <1>1, InvariantHolds, PTL

(***************************************************************************)
(* The list and the set of a datum's announcers agree and repeat nothing   *)
(* (SubBookkeeper::Peers).                                                 *)
(***************************************************************************)
THEOREM OnePeerOnceHolds == Spec => []OnePeerOnce
<1>1. IInv => OnePeerOnce
    BY DEF IInv
<1>. QED BY <1>1, InvariantHolds, PTL

(***************************************************************************)
(* A datum is pending at one peer at most, whatever the interleaving of    *)
(* announcements, reassignments, disconnections and receptions.            *)
(***************************************************************************)
THEOREM OneRequestPerDatumHolds == Spec => []OneRequestPerDatum
<1>1. IInv => OneRequestPerDatum
    BY DEF IInv
<1>. QED BY <1>1, InvariantHolds, PTL

(***************************************************************************)
(* RequestQ is never given a request that it holds.                        *)
(***************************************************************************)
THEOREM NoDuplicateRequestHolds == Spec => []NoDuplicateRequest
<1>1. IInv => NoDuplicateRequest
    BY DEF IInv
<1>. QED BY <1>1, InvariantHolds, PTL

(***************************************************************************)
(* The loop of SubPeerImpl::processDatum() finds the request it looks for. *)
(***************************************************************************)
THEOREM ReceivingIsPendingHolds == Spec => []ReceivingIsPending
<1>1. IInv => ReceivingIsPending
    BY DEF IInv
<1>. QED BY <1>1, InvariantHolds, PTL

(***************************************************************************)
(* What the bookkeeper knows of a datum is consistent with itself and with *)
(* what was asked of whom (SubBookkeeper).                                 *)
(***************************************************************************)
THEOREM BookIsSoundHolds == Spec => []BookIsSound
<1>1. IInv => BookIsSound
    BY DEF IInv, BookIsSound
<1>. QED BY <1>1, InvariantHolds, PTL

(***************************************************************************)
(* The requests of a peer are those that it will be answered, each of them *)
(* once (RequestQ).                                                        *)
(***************************************************************************)
THEOREM RequestsAreSoundHolds == Spec => []RequestsAreSound
<1>1. IInv => RequestsAreSound
    BY DEF IInv, RequestsAreSound
<1>. QED BY <1>1, InvariantHolds, PTL

-----------------------------------------------------------------------------
(* Which steps give a request to a peer *)

Forgotten(p, q, d) == p # q /\ Holds(p, d) /\ Holds(q, d)' => p \notin pset'[d]

(* Steps after which a peer holds no request that it didn't hold before.   *)
LEMMA NoNewHolder ==
    ASSUME IInv,
           \A q \in Peer, d \in Datum : Holds(q, d)' => Holds(q, d)
    PROVE  \A p, q \in Peer, d \in Datum : Forgotten(p, q, d)
BY OneHolder DEF IInv, Forgotten

(* A request passes to another peer only by Reassign().                    *)
LEMMA StepForgets ==
    ASSUME IInv, [Next]_vars
    PROVE  \A p, q \in Peer, d \in Datum : Forgotten(p, q, d)
<1>1. TypeOK /\ BookInv /\ OneRequestPerDatum
    BY SplitIInv DEF IInv
<1>2. ASSUME NEW r \in Peer, Remove(r)
      PROVE  \A q \in Peer, d \in Datum : Holds(q, d)' => Holds(q, d)
    <2>1. Range(<<>>) = {}
        BY DEF Range
    <2>. QED BY <1>1, <1>2, <2>1 DEF Remove, Holds, TypeOK
<1>3. ASSUME UNCHANGED requested
      PROVE  \A q \in Peer, d \in Datum : Holds(q, d)' => Holds(q, d)
    BY <1>3 DEF Holds
<1>4. ASSUME NEW r \in Peer, Drain(r) \/ Miss(r)
      PROVE  \A p, q \in Peer, d \in Datum : Forgotten(p, q, d)
    <2> DEFINE e == Head(requested[r])
    <2>1. /\ requested[r] # <<>> /\ e \in Datum /\ Reassign(r, e)
          /\ \A q \in Peer : phase'[q] = "absent" => phase[q] = "absent"
        BY <1>4, ReassignStep
    <2>2. /\ \A q \in Peer, d \in Datum : Holds(q, d)' => Holds(q, d) \/ d = e
          /\ r \notin pset'[e]
        <3>. HIDE DEF e
        <3>. QED BY <1>1, <2>1, ReassignKeepsInv DEF e
    <2>3. Holds(r, e)
        BY <1>1, <2>1, TailWithout DEF Holds, TypeOK
    <2>4. SUFFICES ASSUME NEW p \in Peer, NEW q \in Peer, NEW d \in Datum,
                          p # q, Holds(p, d), Holds(q, d)'
                   PROVE  p \notin pset'[d]
        BY DEF Forgotten
    <2>5. ~ Holds(q, d)
        BY <1>1, <2>4, OneHolder
    <2>6. d = e
        BY <2>2, <2>4, <2>5
    <2>7. p = r
        BY <1>1, <2>3, <2>4, <2>6, OneHolder
    <2>. QED BY <2>2, <2>6, <2>7
<1>5. ASSUME NEW r \in Peer, Book(r)
      PROVE  \A p, q \in Peer, d \in Datum : Forgotten(p, q, d)
    <2> DEFINE e == checking[r]
    <2>1. /\ e \in Datum /\ phase[r] # "absent" /\ phase' = phase
          /\ AddPeer(r, e)
          /\ requested' = IF ShouldRequest(e)
                          THEN [requested EXCEPT ![r] = Append(@, e)]
                          ELSE requested
        BY <1>1, <1>5 DEF Book, TypeOK, ReadersIdle
    <2>2. \A q \in Peer, d \in Datum :
             Holds(q, d)' <=> Holds(q, d) \/ (q = r /\ d = e /\ ShouldRequest(e))
        <3>. HIDE DEF e
        <3>. QED BY <1>1, <2>1, BookKeepsInv
    <2>3. ShouldRequest(e) => \A p \in Peer : ~ Holds(p, e)
        <3>1. ShouldRequest(e) => pset[e] = {} /\ Range(plist[e]) = {}
            BY <1>1, <2>1 DEF BookInv, OnePeerOnce, ShouldRequest
        <3>2. \A p \in Peer : Holds(p, e) => plist[e] # <<>> /\ plist[e] \in Seq(Peer)
            BY <1>1, <2>1 DEF OneRequestPerDatum, TypeOK
        <3>. QED BY <3>1, <3>2, TailWithout
    <2>4. SUFFICES ASSUME NEW p \in Peer, NEW q \in Peer, NEW d \in Datum,
                          p # q, Holds(p, d), Holds(q, d)'
                   PROVE  FALSE
        BY DEF Forgotten
    <2>. QED BY <1>1, <2>2, <2>3, <2>4, OneHolder
<1>6. ASSUME NEW r \in Peer,
             Accept(r) \/ AcceptNotifyThrows(r) \/ AcceptEraseThrows(r)
      PROVE  \A q \in Peer, d \in Datum : Holds(q, d)' => Holds(q, d)
    BY <1>6, TakeStep
<1>7. CASE UNCHANGED requested
    BY <1>3, <1>7, NoNewHolder
<1>8. CASE \E r \in Peer : Remove(r) \/ Accept(r) \/ AcceptNotifyThrows(r) \/ AcceptEraseThrows(r)
    BY <1>2, <1>6, <1>8, NoNewHolder
<1>9. CASE \E r \in Peer : Drain(r) \/ Miss(r) \/ Book(r)
    BY <1>4, <1>5, <1>9
<1>10. \/ UNCHANGED requested
       \/ \E r \in Peer : Remove(r) \/ Accept(r) \/ AcceptNotifyThrows(r) \/ AcceptEraseThrows(r)
       \/ \E r \in Peer : Drain(r) \/ Miss(r) \/ Book(r)
    BY DEF Next, Connect, EndConn, Stop, Drained, RecvNotice, Send, Answer, RecvMcast, vars
<1>. QED BY <1>7, <1>8, <1>9, <1>10

(***************************************************************************)
(* A peer whose request passed to another one is forgotten as a source of  *)
(* the datum (SubBookkeeper::getAltPeer()).                                *)
(***************************************************************************)
THEOREM AskedPeerForgottenHolds == Spec => AskedPeerForgotten
<1>1. IInv /\ [Next]_vars
         => [\A p, q \in Peer, d \in Datum :
                p # q /\ Holds(p, d) /\ Holds(q, d)' => p \notin pset'[d]]_vars
    BY StepForgets DEF Forgotten
<1>. QED BY <1>1, InvariantHolds, PTL DEF Spec, AskedPeerForgotten

=============================================================================
