--------------------------- MODULE OverlayProofs ---------------------------
(***************************************************************************)
(* The safety of the network of P2P managers, for any nodes, trackers,     *)
(* limits, and numbers of connections attempted and broken.  A node finds  *)
(* its tier from what it heard of others, which may be old: TierHasSource  *)
(* is inductive only with the facts that no tier ever increases, that      *)
(* whatever is remembered or on its way is a tier that the sender had      *)
(* (SawOK, NoticesOK), and that only nodes that met hear of each other     *)
(* (EndsMet).  The numbers of peers stay within their limits because at    *)
(* most one connection is being made at each end and has its room          *)
(* (ClntRoom, SrvrRoom).                                                   *)
(***************************************************************************)
EXTENDS Overlay, FiniteSetTheorems, WellFoundedInduction, TLAPS

Pair(l) == {l[1], l[2]}

TypesOK == /\ tier \in [Node -> Tier] /\ tier[Pub] = 0
           /\ clnt \in [Link -> ClntState] /\ srvr \in [Link -> SrvrState]
           /\ toClnt \in [Link -> SUBSET Tier] /\ toSrvr \in [Link -> SUBSET Tier]
           /\ clntSaw \in [Link -> Tier] /\ srvrSaw \in [Link -> Tier]
           /\ links \in 0 .. MaxLinks /\ cuts \in 0 .. MaxCuts
           /\ met \subseteq {{l[1], l[2]} : l \in Link}

\* A remembered tier is one that the remote node had then
SawOK == \A l \in Link : tier[l[2]] <= clntSaw[l] /\ tier[l[1]] <= srvrSaw[l]

\* So is one on its way, between nodes that met
NoticesOK ==
    \A l \in Link :
        /\ \A t \in toClnt[l] : tier[l[2]] <= t /\ Pair(l) \in met
        /\ \A t \in toSrvr[l] : tier[l[1]] <= t /\ Pair(l) \in met

\* The nodes of peers have met
EndsMet ==
    \A l \in Link : clnt[l] \in {"active", "ended"} \/ srvr[l] \in {"active", "ended"}
                      => Pair(l) \in met

\* A node makes one connection at a time, and has room for it: e holds one end of each
\* connection, which is that of the node at the place i, and M is its states meanwhile
Counted == {"active", "ended"}
Peers(e, i, n) == {l \in Link : l[i] = n /\ e[l] \in Counted}
IsMaking(e, i, M, n) == \E l \in Link : l[i] = n /\ e[l] \in M

Room(e, i, M, max) ==
    /\ \A n \in Node : /\ Cardinality(Peers(e, i, n)) <= max
                       /\ IsMaking(e, i, M, n) => Cardinality(Peers(e, i, n)) < max
    /\ \A k, l \in Link : e[k] \in M /\ e[l] \in M /\ k[i] = l[i] => k = l

Making == {"trying", "judging", "ready"}
ClntRoom == Room(clnt, 1, Making, MaxClnt)
SrvrRoom == Room(srvr, 2, {"made"}, MaxSrvr)

IInv == /\ TypesOK /\ SawOK /\ NoticesOK /\ EndsMet /\ TierHasSource
        /\ ClntRoom /\ SrvrRoom

-----------------------------------------------------------------------------
(* Least and greatest tiers *)

(* A set of natural numbers has a least element.                           *)
LEMMA HasLeast ==
    ASSUME NEW S \in SUBSET Nat, S # {}
    PROVE  \E x \in S : \A y \in S : x <= y
<1> DEFINE R == {ss \in Nat \X Nat : ss[1] < ss[2]}
<1>1. IsWellFoundedOn(R, Nat)
    BY NatLessThanWellFounded DEF OpToRel
<1>2. \A x, y \in Nat : <<y, x>> \notin R => x <= y
    OBVIOUS
<1>. HIDE DEF R
<1>3. \E x \in S : \A y \in S : ~ (<<y, x>> \in R)
    BY <1>1, WFMin
<1>. QED BY <1>2, <1>3

(* A bounded one has a greatest element.                                   *)
LEMMA HasGreatest ==
    ASSUME NEW n \in Nat, NEW S \in SUBSET (0 .. n), S # {}
    PROVE  \E x \in S : \A y \in S : x >= y
<1> DEFINE Bounds == {b \in Nat : \A y \in S : b >= y}
<1>1. n \in Bounds /\ Bounds \in SUBSET Nat
    OBVIOUS
<1>2. PICK b \in Bounds : \A u \in Bounds : b <= u
    BY <1>1, HasLeast
<1>3. CASE b \in S
    BY <1>2, <1>3
<1>4. CASE b \notin S
    <2>1. \A y \in S : y \in Nat /\ b > y
        BY <1>2, <1>4
    <2>2. b \in Nat /\ b > 0
        <3>1. b \in Nat
            BY <1>2
        <3>2. PICK y \in S : TRUE
            OBVIOUS
        <3>. QED BY <2>1, <3>1, <3>2
    <2>3. b - 1 \in Nat /\ \A y \in S : b - 1 >= y
        BY <2>1, <2>2
    <2>4. ~ (b <= b - 1)
        BY <2>2
    <2>. QED BY <1>2, <2>3, <2>4
<1>. QED BY <1>3, <1>4

LEMMA NodesAreFinite ==
    /\ NoTier \in Nat \ {0} /\ IsFiniteSet(Link)
    /\ \A l \in Link : l[1] \in Node \ {Pub} /\ l[2] \in Node /\ l[1] # l[2]
<1>1. IsFiniteSet(Node) /\ Pub \in Node /\ Node # {}
    BY NodeAssumption
<1>2. NoTier \in Nat \ {0}
    BY <1>1, FS_CardinalityType, FS_EmptySet DEF NoTier
<1>3. Link \subseteq Node \X Node
    BY KnowsAssumption DEF Link
<1>4. IsFiniteSet(Node \X Node)
    BY <1>1, FS_Product, Zenon
<1>5. IsFiniteSet(Link)
    BY <1>3, <1>4, FS_Subset
<1>6. \A l \in Link : l[1] \in Node \ {Pub} /\ l[2] \in Node /\ l[1] # l[2]
    BY KnowsAssumption DEF Link
<1>. QED BY <1>2, <1>5, <1>6

LEMMA TiersAreNumbers == \A t \in Tier : t \in Nat /\ t <= NoTier
<1>1. NoTier \in Nat
    BY NodesAreFinite
<1>. QED BY <1>1 DEF Tier

(* The next notice that is received is one of those on their way.          *)
LEMMA NextNotice ==
    ASSUME NEW S \in SUBSET Tier, S # {}
    PROVE  Max(S) \in S
BY NodesAreFinite, HasGreatest DEF Tier, Max

(* A node's new tier is its old one, or a smaller one that it heard of.    *)
LEMMA UpdatedIs ==
    ASSUME NEW n \in Node, NEW tiers \in SUBSET Tier, tier \in [Node -> Tier]
    PROVE  /\ Updated(n, tiers) \in Tier
           /\ \/ Updated(n, tiers) = tier[n]
              \/ /\ n # Pub /\ Updated(n, tiers) \in tiers
                 /\ Updated(n, tiers) < tier[n]
<1> DEFINE better == {t \in tiers : t # 0 /\ t < tier[n]}
<1>1. CASE n = Pub \/ better = {}
    BY <1>1 DEF Updated
<1>2. CASE n # Pub /\ better # {}
    <2>1. better \in SUBSET Nat
        BY TiersAreNumbers
    <2>2. Min(better) \in better
        <3>1. \E x \in better : \A y \in better : x <= y
            BY <1>2, <2>1, HasLeast
        <3>. QED BY <3>1 DEF Min
    <2>3. Updated(n, tiers) = Min(better)
        BY <1>2 DEF Updated
    <2>. QED BY <1>2, <2>2, <2>3
<1>. QED BY <1>1, <1>2

-----------------------------------------------------------------------------
(* What a node's learning of tiers keeps, whatever the ends c and s and the *)
(* notices tc and ts that it sends from and adds to, if each tier that it  *)
(* learns of has a source among the nodes that it met.                     *)
LEMMA LearnsKeeps ==
    ASSUME TypesOK, NoticesOK, TierHasSource, met \subseteq met',
           NEW n \in Node, NEW tiers \in SUBSET Tier, NEW told,
           NEW c, NEW s,
           NEW tc \in [Link -> SUBSET Tier], NEW ts \in [Link -> SUBSET Tier],
           Learns(n, tiers, told, c, s, tc, ts),
           \A l \in Link : /\ tc[l] \subseteq toClnt[l] /\ ts[l] \subseteq toSrvr[l]
                           /\ c[l] = "active" \/ s[l] = "active" => Pair(l) \in met',
           \A t \in tiers : t < NoTier => \E m \in Node : {m, n} \in met' /\ tier[m] < t
    PROVE  /\ tier' \in [Node -> Tier] /\ tier'[Pub] = 0
           /\ \A m \in Node : tier'[m] <= tier[m]
           /\ toClnt' \in [Link -> SUBSET Tier] /\ toSrvr' \in [Link -> SUBSET Tier]
           /\ NoticesOK' /\ TierHasSource'
<1> DEFINE u == Updated(n, tiers)
<1>1. /\ u \in Tier
      /\ u = tier[n] \/ (n # Pub /\ u \in tiers /\ u < tier[n])
    BY UpdatedIs DEF TypesOK
<1>2. tier' = [tier EXCEPT ![n] = u]
    BY DEF Learns
<1>3. \/ /\ toClnt' = tc /\ toSrvr' = ts
      \/ Notified(n, u, c, s, tc, ts)
    BY DEF Learns
<1>. HIDE DEF u
<1>4. \A t \in Tier : t \in Nat
    BY TiersAreNumbers
<1>5. \A m \in Node : tier[m] \in Tier /\ tier[m] \in Nat
    BY <1>4 DEF TypesOK
<1>6. tier' \in [Node -> Tier] /\ tier'[Pub] = 0
    BY <1>1, <1>2, NodeAssumption DEF TypesOK
<1>7. \A m \in Node : tier'[m] <= tier[m]
    <2>1. \A m \in Node \ {n} : tier'[m] = tier[m]
        BY <1>2 DEF TypesOK
    <2>2. tier'[n] = u /\ u \in Nat
        BY <1>1, <1>2, <1>4 DEF TypesOK
    <2>3. tier'[n] <= tier[n]
        BY <1>1, <1>5, <2>2
    <2>4. \A m \in Node : tier[m] <= tier[m]
        BY <1>5
    <2>. QED BY <2>1, <2>3, <2>4
<1>8. \A l \in Link : /\ toClnt'[l] \subseteq tc[l] \cup {u} /\ toSrvr'[l] \subseteq ts[l] \cup {u}
                      /\ toClnt'[l] # tc[l] => l[2] = n /\ Pair(l) \in met'
                      /\ toSrvr'[l] # ts[l] => l[1] = n /\ Pair(l) \in met'
    BY <1>3 DEF Notified
<1>9. toClnt' \in [Link -> SUBSET Tier] /\ toSrvr' \in [Link -> SUBSET Tier]
    BY <1>1, <1>3 DEF Notified
<1>10. NoticesOK'
    <2>1. tier'[n] = u
        BY <1>2 DEF TypesOK
    <2>2. ASSUME NEW l \in Link, NEW t \in toClnt'[l]
          PROVE  tier'[l[2]] <= t /\ Pair(l) \in met'
        <3>1. CASE t \in tc[l]
            <4>1. t \in toClnt[l] /\ t \in Tier /\ l[2] \in Node
                BY <3>1, NodesAreFinite DEF TypesOK
            <4>2. tier[l[2]] <= t /\ Pair(l) \in met
                BY <4>1 DEF NoticesOK
            <4>. QED BY <1>4, <1>5, <1>6, <1>7, <4>1, <4>2
        <3>2. CASE t \notin tc[l]
            <4>1. t = u /\ l[2] = n /\ Pair(l) \in met'
                BY <1>8, <2>2, <3>2
            <4>. QED BY <1>1, <1>4, <2>1, <4>1
        <3>. QED BY <3>1, <3>2
    <2>3. ASSUME NEW l \in Link, NEW t \in toSrvr'[l]
          PROVE  tier'[l[1]] <= t /\ Pair(l) \in met'
        <3>1. CASE t \in ts[l]
            <4>1. t \in toSrvr[l] /\ t \in Tier /\ l[1] \in Node
                BY <3>1, NodesAreFinite DEF TypesOK
            <4>2. tier[l[1]] <= t /\ Pair(l) \in met
                BY <4>1 DEF NoticesOK
            <4>. QED BY <1>4, <1>5, <1>6, <1>7, <4>1, <4>2
        <3>2. CASE t \notin ts[l]
            <4>1. t = u /\ l[1] = n /\ Pair(l) \in met'
                BY <1>8, <2>3, <3>2
            <4>. QED BY <1>1, <1>4, <2>1, <4>1
        <3>. QED BY <3>1, <3>2
    <2>. QED BY <2>2, <2>3 DEF NoticesOK, Pair
<1>11. TierHasSource'
    <2> SUFFICES ASSUME NEW k \in Node \ {Pub}, tier'[k] < NoTier
                 PROVE  \E m \in Node : {m, k} \in met' /\ tier'[m] < tier'[k]
        BY DEF TierHasSource
    <2>1. CASE tier'[k] = tier[k]
        <3>1. PICK m \in Node : {m, k} \in met /\ tier[m] < tier[k]
            BY <2>1 DEF TierHasSource
        <3>2. tier'[m] \in Nat /\ tier'[m] <= tier[m] /\ tier[m] \in Nat /\ tier[k] \in Nat
            BY <1>4, <1>5, <1>6, <1>7
        <3>3. tier'[m] < tier'[k]
            BY <2>1, <3>1, <3>2
        <3>. QED BY <3>1, <3>3
    <2>2. CASE tier'[k] # tier[k]
        <3>1. k = n /\ u \in tiers /\ tier'[k] = u
            BY <1>1, <1>2, <1>5, <2>2 DEF TypesOK
        <3>2. PICK m \in Node : {m, n} \in met' /\ tier[m] < u
            BY <3>1
        <3>3. tier'[m] \in Nat /\ tier'[m] <= tier[m] /\ tier[m] \in Nat /\ u \in Nat
            BY <1>1, <1>4, <1>5, <1>6, <1>7
        <3>4. tier'[m] < tier'[k]
            BY <3>1, <3>2, <3>3
        <3>. QED BY <3>1, <3>2, <3>4
    <2>. QED BY <2>1, <2>2
<1>. QED BY <1>6, <1>7, <1>9, <1>10, <1>11

(* A tier that a node was told has a source: the one that told it.         *)
LEMMA ToldHasSource ==
    ASSUME TypesOK, NEW m \in Node, NEW n \in Node, NEW t \in Tier,
           tier[m] <= t, {m, n} \in met'
    PROVE  /\ RmtTier(t) \in Tier
           /\ RmtTier(t) < NoTier => \E k \in Node : {k, n} \in met' /\ tier[k] < RmtTier(t)
<1>1. t \in Nat /\ tier[m] \in Nat /\ t <= NoTier
    BY NodesAreFinite DEF Tier, TypesOK
<1>2. RmtTier(t) \in Tier /\ (RmtTier(t) < NoTier => RmtTier(t) = t + 1)
    BY <1>1, NodesAreFinite DEF RmtTier, Tier
<1>3. RmtTier(t) < NoTier => tier[m] < RmtTier(t)
    BY <1>1, <1>2
<1>. QED BY <1>2, <1>3

-----------------------------------------------------------------------------
(* A step of one end keeps the room of its node: it starts to be made when  *)
(* there is room and no other one is being made, it becomes a peer when it  *)
(* was being made, or it becomes neither.                                   *)
LEMMA RoomKept ==
    ASSUME NEW V, NEW e \in [Link -> V], NEW i \in {1, 2}, NEW M, NEW max \in Nat,
           M \cap Counted = {}, Room(e, i, M, max),
           NEW l \in Link, NEW v \in V, NEW f, f = [e EXCEPT ![l] = v],
           \/ /\ v \in M /\ ~IsMaking(e, i, M, l[i])
              /\ Cardinality(Peers(e, i, l[i])) < max
           \/ v \in Counted /\ e[l] \in M
           \/ /\ v \in Counted => e[l] \in Counted
              /\ v \in M => e[l] \in M
    PROVE  Room(f, i, M, max)
<1> DEFINE a(n) == Cardinality(Peers(e, i, n))
           b(n) == Cardinality(Peers(f, i, n))
<1>0. /\ \A n \in Node : /\ a(n) <= max
                         /\ IsMaking(e, i, M, n) => a(n) < max
      /\ \A k, m \in Link : e[k] \in M /\ e[m] \in M /\ k[i] = m[i] => k = m
    BY DEF Room
<1>1. \A k \in Link : f[k] = IF k = l THEN v ELSE e[k]
    OBVIOUS
<1>2. \A k \in Link : k[i] \in Node
    BY NodesAreFinite
<1>3. \A n : /\ IsFiniteSet(Peers(e, i, n)) /\ IsFiniteSet(Peers(f, i, n))
             /\ a(n) \in Nat /\ b(n) \in Nat
    <2>1. \A n : Peers(e, i, n) \subseteq Link /\ Peers(f, i, n) \subseteq Link
        BY DEF Peers
    <2>2. \A n : IsFiniteSet(Peers(e, i, n)) /\ IsFiniteSet(Peers(f, i, n))
        BY <2>1, NodesAreFinite, FS_Subset
    <2>. QED BY <2>2, FS_CardinalityType
<1>4. ASSUME NEW n, n # l[i] \/ v \notin Counted \/ e[l] \in Counted
      PROVE  b(n) <= a(n)
    <2>1. Peers(f, i, n) \subseteq Peers(e, i, n)
        BY <1>1, <1>4 DEF Peers
    <2>. QED BY <1>3, <2>1, FS_Subset
<1>5. ASSUME NEW n
      PROVE  b(n) <= a(n) + 1
    <2>1. Peers(f, i, n) \subseteq Peers(e, i, n) \cup {l}
        BY <1>1 DEF Peers
    <2>2. /\ IsFiniteSet(Peers(e, i, n) \cup {l})
          /\ \/ Cardinality(Peers(e, i, n) \cup {l}) = a(n)
             \/ Cardinality(Peers(e, i, n) \cup {l}) = a(n) + 1
        BY <1>3, FS_AddElement
    <2>3. b(n) <= Cardinality(Peers(e, i, n) \cup {l})
        BY <2>1, <2>2, FS_Subset
    <2>4. /\ a(n) \in Nat /\ b(n) \in Nat
          /\ \/ b(n) <= a(n)
             \/ b(n) <= a(n) + 1
        BY <1>3, <2>2, <2>3
    <2>. HIDE DEF a, b
    <2>. QED BY <2>4
<1>. HIDE DEF a, b
<1>9. \A n : a(n) \in Nat /\ b(n) \in Nat
    BY <1>3 DEF a, b
<1>10. (/\ \A n \in Node : b(n) <= max /\ (IsMaking(f, i, M, n) => b(n) < max)
        /\ \A k, m \in Link : f[k] \in M /\ f[m] \in M /\ k[i] = m[i] => k = m)
       => Room(f, i, M, max)
    BY DEF Room, b
<1>6. CASE /\ v \in M /\ ~IsMaking(e, i, M, l[i])
           /\ a(l[i]) < max
    <2>1. v \notin Counted
        BY <1>6
    <2>2. \A n : b(n) <= a(n)
        BY <1>4, <2>1
    <2>3. \A n \in Node : IsMaking(f, i, M, n) => IsMaking(e, i, M, n) \/ n = l[i]
        BY <1>1 DEF IsMaking
    <2>4. \A n \in Node : /\ a(n) <= max
                          /\ IsMaking(f, i, M, n) => a(n) < max
        BY <1>0, <1>6, <2>3
    <2>5. \A n \in Node : /\ b(n) <= max
                          /\ IsMaking(f, i, M, n) => b(n) < max
        <3> SUFFICES ASSUME NEW n \in Node
                     PROVE  b(n) <= max /\ (IsMaking(f, i, M, n) => b(n) < max)
            OBVIOUS
        <3>1. a(n) \in Nat /\ b(n) \in Nat /\ b(n) <= a(n) /\ a(n) <= max
            BY <1>9, <2>2, <2>4
        <3>2. b(n) <= max /\ (a(n) < max => b(n) < max)
            BY <3>1
        <3>. QED BY <2>4, <3>2
    <2>6. \A k, m \in Link : f[k] \in M /\ f[m] \in M /\ k[i] = m[i] => k = m
        BY <1>0, <1>1, <1>6 DEF IsMaking
    <2>. QED BY <1>10, <2>5, <2>6
<1>7. CASE v \in Counted /\ e[l] \in M
    <2>1. v \notin M
        BY <1>7
    <2>2. ~IsMaking(f, i, M, l[i])
        BY <1>0, <1>1, <1>7, <2>1 DEF IsMaking
    <2>3. IsMaking(e, i, M, l[i])
        BY <1>7 DEF IsMaking
    <2>4. a(l[i]) < max
        BY <1>0, <1>2, <2>3
    <2>5. b(l[i]) <= max
        BY <1>2, <1>5, <1>9, <2>4
    <2>6. \A n \in Node : IsMaking(f, i, M, n) => IsMaking(e, i, M, n) /\ n # l[i]
        BY <1>1, <2>1, <2>2 DEF IsMaking
    <2>7. \A n \in Node : n # l[i] => b(n) <= a(n)
        BY <1>4
    <2>8. \A n \in Node : /\ b(n) <= max
                          /\ IsMaking(f, i, M, n) => b(n) < max
        <3> SUFFICES ASSUME NEW n \in Node
                     PROVE  b(n) <= max /\ (IsMaking(f, i, M, n) => b(n) < max)
            OBVIOUS
        <3>1. a(n) \in Nat /\ b(n) \in Nat /\ a(n) <= max
            BY <1>0, <1>9
        <3>2. CASE n = l[i]
            BY <2>5, <2>6, <3>2
        <3>3. CASE n # l[i]
            <4>1. b(n) <= max /\ (a(n) < max => b(n) < max)
                BY <2>7, <3>1, <3>3
            <4>. QED BY <1>0, <2>6, <4>1
        <3>. QED BY <3>2, <3>3
    <2>9. \A k, m \in Link : f[k] \in M /\ f[m] \in M /\ k[i] = m[i] => k = m
        BY <1>0, <1>1, <2>1
    <2>. QED BY <1>10, <2>8, <2>9
<1>8. CASE (v \in Counted => e[l] \in Counted) /\ (v \in M => e[l] \in M)
    <2>1. \A n : b(n) <= a(n)
        BY <1>4, <1>8
    <2>2. \A k \in Link : f[k] \in M => e[k] \in M
        BY <1>1, <1>8
    <2>3. \A n \in Node : IsMaking(f, i, M, n) => IsMaking(e, i, M, n)
        BY <2>2 DEF IsMaking
    <2>4. \A n \in Node : /\ b(n) <= max
                          /\ IsMaking(f, i, M, n) => b(n) < max
        <3> SUFFICES ASSUME NEW n \in Node
                     PROVE  b(n) <= max /\ (IsMaking(f, i, M, n) => b(n) < max)
            OBVIOUS
        <3>1. a(n) \in Nat /\ b(n) \in Nat /\ b(n) <= a(n) /\ a(n) <= max
            BY <1>0, <1>9, <2>1
        <3>2. b(n) <= max /\ (a(n) < max => b(n) < max)
            BY <3>1
        <3>. QED BY <1>0, <2>3, <3>2
    <2>5. \A k, m \in Link : f[k] \in M /\ f[m] \in M /\ k[i] = m[i] => k = m
        BY <1>0, <2>2
    <2>. QED BY <1>10, <2>4, <2>5
<1>. QED BY <1>6, <1>7, <1>8 DEF a

-----------------------------------------------------------------------------
(* The steps *)

THEOREM InitIInv == Init => IInv
<1> SUFFICES ASSUME Init PROVE IInv
    OBVIOUS
<1>1. TypesOK
    BY NodesAreFinite, NodeAssumption, SizeAssumption
    DEF Init, TypesOK, Tier, ClntState, SrvrState
<1>2. SawOK
    <2>1. \A n \in Node : tier[n] \in Nat /\ tier[n] <= NoTier
        BY <1>1, TiersAreNumbers DEF TypesOK
    <2>. QED BY <2>1, NodesAreFinite DEF Init, SawOK
<1>3. NoticesOK /\ EndsMet
    BY DEF Init, NoticesOK, EndsMet
<1>4. TierHasSource
    BY NodesAreFinite DEF Init, TierHasSource
<1>5. ClntRoom /\ SrvrRoom
    <2>1. \A n : Peers(clnt, 1, n) = {} /\ Peers(srvr, 2, n) = {}
        BY DEF Init, Peers, Counted
    <2>2. \A n : /\ Cardinality(Peers(clnt, 1, n)) = 0
                 /\ Cardinality(Peers(srvr, 2, n)) = 0
        BY <2>1, FS_EmptySet
    <2>3. \A l \in Link : clnt[l] \notin Making /\ srvr[l] \notin {"made"}
        BY DEF Init, Making
    <2>. QED BY <2>2, <2>3, SizeAssumption DEF ClntRoom, SrvrRoom, Room, IsMaking
<1>. QED BY <1>1, <1>2, <1>3, <1>4, <1>5 DEF IInv

(* The numbers of peers of the model are those of the ends.                 *)
LEMMA RoomIs ==
    /\ \A n : /\ NumClnt(n) = Cardinality(Peers(clnt, 1, n))
              /\ NumSrvr(n) = Cardinality(Peers(srvr, 2, n))
    /\ \A n : /\ Connecting(n) <=> IsMaking(clnt, 1, Making, n)
              /\ Accepting(n) <=> IsMaking(srvr, 2, {"made"}, n)
BY DEF NumClnt, NumSrvr, Peers, Counted, Connecting, Accepting, IsMaking, Making

(* Every step makes at most one move of a client's end that keeps the room. *)
LEMMA ClntStep ==
    ASSUME TypesOK, ClntRoom, NEW l \in Link, Try(l) \/ Proceed(l) \/ HaltWorst(l) \/ Cut(l)
    PROVE  clnt' \in [Link -> ClntState] /\ ClntRoom'
<1> DEFINE Moves(v) == clnt' = [clnt EXCEPT ![l] = v]
<1>1. /\ clnt \in [Link -> ClntState]
      /\ Making \cap Counted = {} /\ MaxClnt \in Nat
    BY SizeAssumption DEF TypesOK, ClntState, Making, Counted
<1>2. ASSUME NEW v \in ClntState, Moves(v),
             \/ /\ v \in Making /\ ~IsMaking(clnt, 1, Making, l[1])
                /\ Cardinality(Peers(clnt, 1, l[1])) < MaxClnt
             \/ v \in Counted /\ clnt[l] \in Making
             \/ /\ v \in Counted => clnt[l] \in Counted
                /\ v \in Making => clnt[l] \in Making
      PROVE  clnt' \in [Link -> ClntState] /\ ClntRoom'
    <2>1. 1 \in {1, 2}
        OBVIOUS
    <2>2. Room(clnt, 1, Making, MaxClnt)
        BY DEF ClntRoom
    <2>3. Room(clnt', 1, Making, MaxClnt)
        BY <1>1, <1>2, <2>1, <2>2, RoomKept
    <2>. QED BY <1>1, <1>2, <2>3 DEF ClntRoom
<1>3. CASE UNCHANGED clnt
    BY <1>1, <1>3 DEF ClntRoom, Room, Peers, IsMaking
<1>4. CASE Try(l)
    BY <1>2, <1>4, RoomIs DEF Try, ClntState, Making
<1>5. CASE Accept(l) \/ Judge(l) \/ AddClnt(l)
    BY <1>2, <1>5 DEF Accept, Judge, AddClnt, ClntState, Making, Counted
<1>6. CASE RemoveClnt(l)
    BY <1>2, <1>6 DEF RemoveClnt, ClntState, Making, Counted
<1>7. CASE HaltWorst(l) \/ Cut(l) \/ SeeEnd(l)
    BY <1>2, <1>3, <1>7 DEF HaltWorst, Cut, SeeEnd, ClntState, Making, Counted
<1>8. CASE AddSrvr(l) \/ DropSrvr(l) \/ RecvClnt(l) \/ RecvSrvr(l) \/ RemoveSrvr(l)
    BY <1>3, <1>8 DEF AddSrvr, DropSrvr, RecvClnt, RecvSrvr, RemoveSrvr, endVars
<1>. QED BY <1>4, <1>5, <1>6, <1>7, <1>8 DEF Proceed

(* So does every one of a server's end.                                     *)
LEMMA SrvrStep ==
    ASSUME TypesOK, SrvrRoom, NEW l \in Link, Try(l) \/ Proceed(l) \/ HaltWorst(l) \/ Cut(l)
    PROVE  srvr' \in [Link -> SrvrState] /\ SrvrRoom'
<1> DEFINE Moves(v) == srvr' = [srvr EXCEPT ![l] = v]
<1>1. /\ srvr \in [Link -> SrvrState]
      /\ {"made"} \cap Counted = {} /\ MaxSrvr \in Nat
    BY SizeAssumption DEF TypesOK, SrvrState, Counted
<1>2. ASSUME NEW v \in SrvrState, Moves(v),
             \/ /\ v \in {"made"} /\ ~IsMaking(srvr, 2, {"made"}, l[2])
                /\ Cardinality(Peers(srvr, 2, l[2])) < MaxSrvr
             \/ v \in Counted /\ srvr[l] \in {"made"}
             \/ /\ v \in Counted => srvr[l] \in Counted
                /\ v \in {"made"} => srvr[l] \in {"made"}
      PROVE  srvr' \in [Link -> SrvrState] /\ SrvrRoom'
    <2>1. 2 \in {1, 2}
        OBVIOUS
    <2>2. Room(srvr, 2, {"made"}, MaxSrvr)
        BY DEF SrvrRoom
    <2>3. Room(srvr', 2, {"made"}, MaxSrvr)
        BY <1>1, <1>2, <2>1, <2>2, RoomKept
    <2>. QED BY <1>1, <1>2, <2>3 DEF SrvrRoom
<1>3. CASE UNCHANGED srvr
    BY <1>1, <1>3 DEF SrvrRoom, Room, Peers, IsMaking
<1>4. CASE Accept(l)
    BY <1>2, <1>4, RoomIs DEF Accept, HasSrvrRoom, SrvrState
<1>5. CASE AddSrvr(l) \/ DropSrvr(l) \/ RemoveSrvr(l)
    BY <1>2, <1>5 DEF AddSrvr, DropSrvr, RemoveSrvr, SrvrState, Counted
<1>6. CASE HaltWorst(l) \/ Cut(l) \/ SeeEnd(l)
    BY <1>2, <1>3, <1>6 DEF HaltWorst, Cut, SeeEnd, SrvrState, Counted
<1>7. CASE Try(l) \/ Judge(l) \/ AddClnt(l) \/ RecvClnt(l) \/ RecvSrvr(l) \/ RemoveClnt(l)
    BY <1>3, <1>7 DEF Try, Judge, AddClnt, RecvClnt, RecvSrvr, RemoveClnt, endVars
<1>. QED BY <1>4, <1>5, <1>6, <1>7 DEF Proceed

(* The ends that a step makes those of peers are those of nodes that met.   *)
LEMMA EndsStep ==
    ASSUME TypesOK, EndsMet, NEW l \in Link,
           Try(l) \/ Proceed(l) \/ HaltWorst(l) \/ Cut(l)
    PROVE  /\ met \subseteq met' /\ met' \subseteq {{k[1], k[2]} : k \in Link}
           /\ EndsMet'
<1>1. /\ clnt \in [Link -> ClntState] /\ srvr \in [Link -> SrvrState]
      /\ met \subseteq {{k[1], k[2]} : k \in Link}
      /\ Pair(l) = {l[1], l[2]}
    BY DEF TypesOK, Pair
<1>2. ASSUME /\ met' = met \/ met' = met \cup {Pair(l)}
             /\ \A k \in Link : clnt'[k] \in Counted => clnt[k] \in Counted \/ Pair(k) \in met'
             /\ \A k \in Link : srvr'[k] \in Counted => srvr[k] \in Counted \/ Pair(k) \in met'
      PROVE  /\ met \subseteq met' /\ met' \subseteq {{k[1], k[2]} : k \in Link}
             /\ EndsMet'
    <2>1. met \subseteq met' /\ met' \subseteq {{k[1], k[2]} : k \in Link}
        BY <1>1, <1>2
    <2>2. ASSUME NEW k \in Link, clnt'[k] \in Counted \/ srvr'[k] \in Counted
          PROVE  Pair(k) \in met'
        BY <1>2, <2>1, <2>2 DEF EndsMet, Counted
    <2>3. EndsMet'
        BY <2>2 DEF EndsMet, Counted, Pair
    <2>. QED BY <2>1, <2>3
<1>3. CASE Try(l) \/ Accept(l) \/ Judge(l) \/ DropSrvr(l)
    BY <1>1, <1>2, <1>3 DEF Try, Accept, Judge, DropSrvr, Counted
<1>4. CASE AddClnt(l)
    BY <1>1, <1>2, <1>4 DEF AddClnt, Counted
<1>5. CASE AddSrvr(l)
    BY <1>1, <1>2, <1>5 DEF AddSrvr, Counted
<1>6. CASE RecvClnt(l) \/ RecvSrvr(l)
    BY <1>2, <1>6 DEF RecvClnt, RecvSrvr, endVars
<1>7. CASE HaltWorst(l)
    BY <1>1, <1>2, <1>7 DEF HaltWorst, Counted
<1>8. CASE Cut(l)
    BY <1>1, <1>2, <1>8 DEF Cut, Counted
<1>9. CASE SeeEnd(l)
    BY <1>1, <1>2, <1>9 DEF SeeEnd, Counted
<1>10. CASE RemoveClnt(l) \/ RemoveSrvr(l)
    BY <1>1, <1>2, <1>10 DEF RemoveClnt, RemoveSrvr, Counted
<1>. QED BY <1>3, <1>4, <1>5, <1>6, <1>7, <1>8, <1>9, <1>10 DEF Proceed

(* What the remaining peers of a node saw has a source.                     *)
LEMMA SeenHasSource ==
    ASSUME TypesOK, SawOK, NEW n \in Node, NEW c, NEW s,
           \A k \in Link : c[k] \in Counted \/ s[k] \in Counted => Pair(k) \in met'
    PROVE  /\ Seen(n, c, s) \subseteq Tier
           /\ \A t \in Seen(n, c, s) :
                t < NoTier => \E m \in Node : {m, n} \in met' /\ tier[m] < t
<1>1. ASSUME NEW t \in Seen(n, c, s)
      PROVE  \E m \in Node, u \in Tier : t = RmtTier(u) /\ tier[m] <= u /\ {m, n} \in met'
    <2>1. CASE \E k \in Link : k[1] = n /\ c[k] \in Counted /\ t = RmtTier(clntSaw[k])
        <3>1. PICK k \in Link : k[1] = n /\ c[k] \in Counted /\ t = RmtTier(clntSaw[k])
            BY <2>1
        <3>2. k[2] \in Node /\ clntSaw[k] \in Tier /\ tier[k[2]] <= clntSaw[k]
            BY NodesAreFinite DEF TypesOK, SawOK
        <3>3. {k[2], n} \in met'
            <4>1. Pair(k) = {k[2], n}
                BY <3>1 DEF Pair
            <4>. QED BY <3>1, <4>1
        <3>. QED BY <3>1, <3>2, <3>3
    <2>2. CASE \E k \in Link : k[2] = n /\ s[k] \in Counted /\ t = RmtTier(srvrSaw[k])
        <3>1. PICK k \in Link : k[2] = n /\ s[k] \in Counted /\ t = RmtTier(srvrSaw[k])
            BY <2>2
        <3>2. k[1] \in Node /\ srvrSaw[k] \in Tier /\ tier[k[1]] <= srvrSaw[k]
            BY NodesAreFinite DEF TypesOK, SawOK
        <3>3. {k[1], n} \in met'
            <4>1. Pair(k) = {k[1], n}
                BY <3>1 DEF Pair
            <4>. QED BY <3>1, <4>1
        <3>. QED BY <3>1, <3>2, <3>3
    <2>. QED BY <1>1, <2>1, <2>2 DEF Seen, Counted
<1>2. ASSUME NEW t \in Seen(n, c, s)
      PROVE  /\ t \in Tier
             /\ t < NoTier => \E m \in Node : {m, n} \in met' /\ tier[m] < t
    <2>1. PICK m \in Node, u \in Tier : t = RmtTier(u) /\ tier[m] <= u /\ {m, n} \in met'
        BY <1>1
    <2>. QED BY <2>1, ToldHasSource
<1>. QED BY <1>2

(* Every step keeps the tiers, and the notices of them.                     *)
LEMMA TierStep ==
    ASSUME TypesOK, SawOK, NoticesOK, EndsMet, TierHasSource, NEW l \in Link,
           Try(l) \/ Proceed(l) \/ HaltWorst(l) \/ Cut(l)
    PROVE  /\ tier' \in [Node -> Tier] /\ tier'[Pub] = 0
           /\ \A m \in Node : tier'[m] <= tier[m]
           /\ toClnt' \in [Link -> SUBSET Tier] /\ toSrvr' \in [Link -> SUBSET Tier]
           /\ NoticesOK' /\ TierHasSource'
<1>1. /\ met \subseteq met' /\ EndsMet'
      /\ l[1] \in Node /\ l[2] \in Node
      /\ toClnt \in [Link -> SUBSET Tier] /\ toSrvr \in [Link -> SUBSET Tier]
    BY EndsStep, NodesAreFinite DEF TypesOK
<1>2. \A k \in Link : /\ clnt[k] \in Counted \/ srvr[k] \in Counted => Pair(k) \in met'
                      /\ clnt'[k] \in Counted \/ srvr'[k] \in Counted => Pair(k) \in met'
    BY <1>1 DEF EndsMet, Counted, Pair
<1>3. \A k \in Link : clntSaw[k] \in Tier /\ srvrSaw[k] \in Tier
    BY DEF TypesOK
<1>4. CASE UNCHANGED <<tier, toClnt, toSrvr, met>>
    <2>1. \A m \in Node : tier[m] \in Nat
        BY TiersAreNumbers DEF TypesOK
    <2>2. \A m \in Node : tier'[m] <= tier[m]
        BY <1>4, <2>1
    <2>3. NoticesOK' /\ TierHasSource'
        BY <1>4 DEF NoticesOK, TierHasSource, Pair
    <2>. QED BY <1>4, <2>2, <2>3 DEF TypesOK
<1>5. CASE AddClnt(l)
    <2> DEFINE u == RmtTier(clntSaw[l])
               tiers == {u}
    <2>1. Learns(l[1], tiers, FALSE, clnt', srvr, toClnt, toSrvr)
        BY <1>5 DEF AddClnt
    <2>2. tier[l[2]] <= clntSaw[l] /\ {l[2], l[1]} \in met'
        BY <1>5 DEF SawOK, AddClnt
    <2>3. /\ u \in Tier
          /\ u < NoTier => \E m \in Node : {m, l[1]} \in met' /\ tier[m] < u
        BY <1>1, <1>3, <2>2, ToldHasSource
    <2>4. /\ tiers \subseteq Tier
          /\ \A v \in tiers : v < NoTier => \E m \in Node : {m, l[1]} \in met' /\ tier[m] < v
        BY <2>3
    <2>. HIDE DEF u, tiers
    <2>5. \A k \in Link : clnt'[k] = "active" \/ srvr[k] = "active" => Pair(k) \in met'
        BY <1>2 DEF Counted
    <2>. QED BY <1>1, <2>1, <2>4, <2>5, LearnsKeeps
<1>6. CASE AddSrvr(l)
    <2> DEFINE u == RmtTier(srvrSaw[l])
               tiers == {u}
    <2>1. Learns(l[2], tiers, TellsAvailability, clnt, srvr', toClnt, toSrvr)
        BY <1>6 DEF AddSrvr
    <2>2. tier[l[1]] <= srvrSaw[l] /\ {l[1], l[2]} \in met'
        BY <1>6 DEF SawOK, AddSrvr
    <2>3. /\ u \in Tier
          /\ u < NoTier => \E m \in Node : {m, l[2]} \in met' /\ tier[m] < u
        BY <1>1, <1>3, <2>2, ToldHasSource
    <2>4. /\ tiers \subseteq Tier
          /\ \A v \in tiers : v < NoTier => \E m \in Node : {m, l[2]} \in met' /\ tier[m] < v
        BY <2>3
    <2>. HIDE DEF u, tiers
    <2>5. \A k \in Link : clnt[k] = "active" \/ srvr'[k] = "active" => Pair(k) \in met'
        BY <1>2 DEF Counted
    <2>. QED BY <1>1, <2>1, <2>4, <2>5, LearnsKeeps
<1>7. CASE RecvClnt(l)
    <2> DEFINE t == Max(toClnt[l])
               u == RmtTier(t)
               tiers == {u}
               tc == [toClnt EXCEPT ![l] = @ \ {t}]
    <2>1. Learns(l[1], tiers, FALSE, clnt, srvr, tc, toSrvr)
        BY <1>7 DEF RecvClnt, NoticedTier
    <2>2. t \in toClnt[l] /\ t \in Tier
        BY <1>1, <1>7, NextNotice DEF RecvClnt
    <2>. HIDE DEF t
    <2>3. tier[l[2]] <= t /\ {l[2], l[1]} \in met'
        BY <1>1, <2>2 DEF NoticesOK, Pair
    <2>4. /\ u \in Tier
          /\ u < NoTier => \E m \in Node : {m, l[1]} \in met' /\ tier[m] < u
        BY <1>1, <2>2, <2>3, ToldHasSource
    <2>5. /\ tiers \subseteq Tier
          /\ \A v \in tiers : v < NoTier => \E m \in Node : {m, l[1]} \in met' /\ tier[m] < v
        BY <2>4
    <2>. HIDE DEF u, tiers
    <2>6. tc \in [Link -> SUBSET Tier] /\ \A k \in Link : tc[k] \subseteq toClnt[k]
        BY <1>1
    <2>. HIDE DEF tc
    <2>7. \A k \in Link : clnt[k] = "active" \/ srvr[k] = "active" => Pair(k) \in met'
        BY <1>2 DEF Counted
    <2>. QED BY <1>1, <2>1, <2>5, <2>6, <2>7, LearnsKeeps
<1>8. CASE RecvSrvr(l)
    <2> DEFINE t == Max(toSrvr[l])
               u == RmtTier(t)
               tiers == {u}
               ts == [toSrvr EXCEPT ![l] = @ \ {t}]
    <2>1. Learns(l[2], tiers, FALSE, clnt, srvr, toClnt, ts)
        BY <1>8 DEF RecvSrvr, NoticedTier
    <2>2. t \in toSrvr[l] /\ t \in Tier
        BY <1>1, <1>8, NextNotice DEF RecvSrvr
    <2>. HIDE DEF t
    <2>3. tier[l[1]] <= t /\ {l[1], l[2]} \in met'
        BY <1>1, <2>2 DEF NoticesOK, Pair
    <2>4. /\ u \in Tier
          /\ u < NoTier => \E m \in Node : {m, l[2]} \in met' /\ tier[m] < u
        BY <1>1, <2>2, <2>3, ToldHasSource
    <2>5. /\ tiers \subseteq Tier
          /\ \A v \in tiers : v < NoTier => \E m \in Node : {m, l[2]} \in met' /\ tier[m] < v
        BY <2>4
    <2>. HIDE DEF u, tiers
    <2>6. ts \in [Link -> SUBSET Tier] /\ \A k \in Link : ts[k] \subseteq toSrvr[k]
        BY <1>1
    <2>. HIDE DEF ts
    <2>7. \A k \in Link : clnt[k] = "active" \/ srvr[k] = "active" => Pair(k) \in met'
        BY <1>2 DEF Counted
    <2>. QED BY <1>1, <2>1, <2>5, <2>6, <2>7, LearnsKeeps
<1>9. CASE RemoveClnt(l)
    <2> DEFINE tc == [toClnt EXCEPT ![l] = {}]
               tiers == Seen(l[1], clnt', srvr)
    <2>1. Learns(l[1], tiers, FALSE, clnt', srvr, tc, toSrvr)
        BY <1>9 DEF RemoveClnt
    <2>2. /\ tiers \subseteq Tier
          /\ \A t \in tiers : t < NoTier => \E m \in Node : {m, l[1]} \in met' /\ tier[m] < t
        BY <1>1, <1>2, SeenHasSource
    <2>. HIDE DEF tiers
    <2>3. tc \in [Link -> SUBSET Tier] /\ \A k \in Link : tc[k] \subseteq toClnt[k]
        BY <1>1
    <2>. HIDE DEF tc
    <2>4. \A k \in Link : clnt'[k] = "active" \/ srvr[k] = "active" => Pair(k) \in met'
        BY <1>2 DEF Counted
    <2>. QED BY <1>1, <2>1, <2>2, <2>3, <2>4, LearnsKeeps
<1>10. CASE RemoveSrvr(l)
    <2> DEFINE ts == [toSrvr EXCEPT ![l] = {}]
               tiers == Seen(l[2], clnt, srvr')
    <2>1. Learns(l[2], tiers, TellsAvailability, clnt, srvr', toClnt, ts)
        BY <1>10 DEF RemoveSrvr
    <2>2. /\ tiers \subseteq Tier
          /\ \A t \in tiers : t < NoTier => \E m \in Node : {m, l[2]} \in met' /\ tier[m] < t
        BY <1>1, <1>2, SeenHasSource
    <2>. HIDE DEF tiers
    <2>3. ts \in [Link -> SUBSET Tier] /\ \A k \in Link : ts[k] \subseteq toSrvr[k]
        BY <1>1
    <2>. HIDE DEF ts
    <2>4. \A k \in Link : clnt[k] = "active" \/ srvr'[k] = "active" => Pair(k) \in met'
        BY <1>2 DEF Counted
    <2>. QED BY <1>1, <2>1, <2>2, <2>3, <2>4, LearnsKeeps
<1>11. CASE \/ Try(l) \/ Accept(l) \/ Judge(l) \/ DropSrvr(l) \/ SeeEnd(l)
            \/ HaltWorst(l) \/ Cut(l)
    BY <1>4, <1>11 DEF Try, Accept, Judge, DropSrvr, SeeEnd, HaltWorst, Cut, infoVars
<1>. QED BY <1>5, <1>6, <1>7, <1>8, <1>9, <1>10, <1>11 DEF Proceed

(* Every step keeps what was seen.                                          *)
LEMMA SawStep ==
    ASSUME TypesOK, SawOK, NEW l \in Link, tier' \in [Node -> Tier],
           \A m \in Node : tier'[m] <= tier[m],
           Try(l) \/ Proceed(l) \/ HaltWorst(l) \/ Cut(l)
    PROVE  /\ clntSaw' \in [Link -> Tier] /\ srvrSaw' \in [Link -> Tier]
           /\ links' \in 0 .. MaxLinks /\ cuts' \in 0 .. MaxCuts /\ SawOK'
<1>1. /\ clntSaw \in [Link -> Tier] /\ srvrSaw \in [Link -> Tier]
      /\ links \in 0 .. MaxLinks /\ cuts \in 0 .. MaxCuts
      /\ tier \in [Node -> Tier]
      /\ \A k \in Link : k[1] \in Node /\ k[2] \in Node
    BY NodesAreFinite DEF TypesOK
<1>2. /\ links' \in 0 .. MaxLinks
      /\ links' = links \/ (links' = links + 1 /\ links < MaxLinks)
    <2>1. links' = links \/ (links' = links + 1 /\ links < MaxLinks)
        BY DEF Proceed, Try, Accept, Judge, AddClnt, AddSrvr, DropSrvr, RecvClnt, RecvSrvr,
               SeeEnd, RemoveClnt, RemoveSrvr, HaltWorst, Cut
    <2>. QED BY <1>1, <2>1, SizeAssumption
<1>3. cuts' \in 0 .. MaxCuts
    <2>1. cuts' = cuts \/ (cuts' = cuts + 1 /\ cuts < MaxCuts)
        BY DEF Proceed, Try, Accept, Judge, AddClnt, AddSrvr, DropSrvr, RecvClnt, RecvSrvr,
               SeeEnd, RemoveClnt, RemoveSrvr, HaltWorst, Cut
    <2>. QED BY <1>1, <2>1, SizeAssumption
<1>4. /\ clntSaw' \in [Link -> Tier] /\ srvrSaw' \in [Link -> Tier]
      /\ \A k \in Link : /\ clntSaw'[k] = clntSaw[k] \/ clntSaw'[k] = tier[k[2]]
                         /\ srvrSaw'[k] = srvrSaw[k] \/ srvrSaw'[k] = tier[k[1]]
    <2>1. CASE UNCHANGED <<clntSaw, srvrSaw>>
        BY <1>1, <2>1
    <2>2. CASE Try(l)
        BY <1>1, <2>2 DEF Try
    <2>3. CASE Accept(l)
        BY <1>1, <2>3 DEF Accept
    <2>. QED BY <2>1, <2>2, <2>3
         DEF Proceed, Judge, AddClnt, AddSrvr, DropSrvr, RecvClnt, RecvSrvr,
             SeeEnd, RemoveClnt, RemoveSrvr, HaltWorst, Cut, infoVars
<1>5. SawOK'
    <2> SUFFICES ASSUME NEW k \in Link
                 PROVE  tier'[k[2]] <= clntSaw'[k] /\ tier'[k[1]] <= srvrSaw'[k]
        BY DEF SawOK
    <2>1. /\ tier[k[2]] <= clntSaw[k] /\ tier[k[1]] <= srvrSaw[k]
          /\ tier'[k[2]] <= tier[k[2]] /\ tier'[k[1]] <= tier[k[1]]
        BY <1>1 DEF SawOK
    <2>2. /\ tier[k[2]] \in Nat /\ clntSaw[k] \in Nat /\ tier[k[1]] \in Nat
          /\ srvrSaw[k] \in Nat /\ tier'[k[2]] \in Nat /\ tier'[k[1]] \in Nat
        BY <1>1, TiersAreNumbers
    <2>3. tier'[k[2]] <= clntSaw[k] /\ tier'[k[1]] <= srvrSaw[k]
        BY <2>1, <2>2
    <2>. QED BY <1>4, <2>1, <2>3
<1>. QED BY <1>2, <1>3, <1>4, <1>5

-----------------------------------------------------------------------------
(* The invariant *)

THEOREM StepIInv == IInv /\ [Next]_vars => IInv' /\ \A n \in Node : tier'[n] <= tier[n]
<1> SUFFICES ASSUME IInv, [Next]_vars
             PROVE  IInv' /\ \A n \in Node : tier'[n] <= tier[n]
    OBVIOUS
<1>. USE DEF IInv
<1>1. CASE Next
    <2>1. PICK l \in Link : Try(l) \/ Proceed(l) \/ HaltWorst(l) \/ Cut(l)
        BY <1>1 DEF Next
    <2>2. clnt' \in [Link -> ClntState] /\ ClntRoom'
        BY <2>1, ClntStep
    <2>3. srvr' \in [Link -> SrvrState] /\ SrvrRoom'
        BY <2>1, SrvrStep
    <2>4. met' \subseteq {{k[1], k[2]} : k \in Link} /\ EndsMet'
        BY <2>1, EndsStep
    <2>5. /\ tier' \in [Node -> Tier] /\ tier'[Pub] = 0
          /\ \A m \in Node : tier'[m] <= tier[m]
          /\ toClnt' \in [Link -> SUBSET Tier] /\ toSrvr' \in [Link -> SUBSET Tier]
          /\ NoticesOK' /\ TierHasSource'
        BY <2>1, TierStep
    <2>6. /\ clntSaw' \in [Link -> Tier] /\ srvrSaw' \in [Link -> Tier]
          /\ links' \in 0 .. MaxLinks /\ cuts' \in 0 .. MaxCuts /\ SawOK'
        BY <2>1, <2>5, SawStep
    <2>7. TypesOK'
        BY <2>2, <2>3, <2>4, <2>5, <2>6 DEF TypesOK
    <2>. QED BY <2>2, <2>3, <2>4, <2>5, <2>6, <2>7
<1>2. CASE UNCHANGED vars
    <2>1. TypesOK' /\ SawOK' /\ NoticesOK' /\ EndsMet' /\ TierHasSource'
        BY <1>2 DEF vars, endVars, infoVars, TypesOK, SawOK, NoticesOK, EndsMet,
                    TierHasSource, Pair
    <2>2. ClntRoom' /\ SrvrRoom'
        BY <1>2 DEF vars, endVars, ClntRoom, SrvrRoom, Room, Peers, IsMaking
    <2>3. \A n \in Node : tier[n] \in Nat
        BY TiersAreNumbers DEF TypesOK
    <2>4. \A n \in Node : tier'[n] <= tier[n]
        BY <1>2, <2>3 DEF vars
    <2>. QED BY <2>1, <2>2, <2>4
<1>. QED BY <1>1, <1>2

(* The invariant that the following theorems rest on.                       *)
THEOREM InvariantHolds == Spec => []IInv
<1>1. Init => IInv
    BY InitIInv
<1>2. IInv /\ [Next]_vars => IInv'
    BY StepIInv
<1>. QED BY <1>1, <1>2, PTL DEF Spec

(* Every variable keeps its type, no node ever has more client-side or      *)
(* server-side peers than it allows.                                        *)
THEOREM TypeCorrect == Spec => []TypeOK
<1>1. IInv => TypeOK
    BY RoomIs DEF IInv, TypesOK, TypeOK, ClntRoom, SrvrRoom, Room
<1>. QED BY <1>1, InvariantHolds, PTL

(* A node that knows a way to the publisher has met a node that is nearer   *)
(* to it: updateTier() takes a tier only from the information of a peer.    *)
THEOREM TierHasSourceHolds == Spec => []TierHasSource
<1>1. IInv => TierHasSource
    BY DEF IInv
<1>. QED BY <1>1, InvariantHolds, PTL

(* No step increases a node's tier, because updateTier() only takes a       *)
(* smaller one: not even the removal of the peer that the tier came from.   *)
TierNeverIncreases == [][\A n \in Node : tier'[n] <= tier[n]]_vars

THEOREM TierNeverIncreasesHolds == Spec => TierNeverIncreases
<1>1. IInv /\ [Next]_vars => [\A n \in Node : tier'[n] <= tier[n]]_vars
    BY StepIInv
<1>. QED BY <1>1, InvariantHolds, PTL DEF Spec, TierNeverIncreases

=============================================================================
