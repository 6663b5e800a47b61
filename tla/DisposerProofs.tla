--------------------------- MODULE DisposerProofs ---------------------------
(***************************************************************************)
(* Proofs about Disposer: for any set of actions, any bound on what is     *)
(* kept open and any number of products, the set and the queue of the      *)
(* actions that are kept agree and hold those that were used last, no      *)
(* process of a piping action is unknown to reap(), none is left at the    *)
(* end, and an output file holds what its action was executed on.          *)
(***************************************************************************)
EXTENDS Disposer, FiniteSetTheorems, SequenceTheorems, SeqLemmas, TLAPS

-----------------------------------------------------------------------------
(* The inductive invariant *)

\* A product has actions to execute while its thread is in dispose(), and an action
\* is destroyed only between two steps of process().
HasAction == {"get", "trim", "process", "refused", "write", "wait", "succeeded", "drop",
              "killed"}
MayDie == {"get", "trim", "process", "reap", "close"}
ThreadOK ==
  /\ pc \in HasAction \cup {"idle", "reap", "ended", "kill", "close", "destroyed"}
  /\ prod \in 0..MaxProds /\ lastProcessed \in 0..prod
  /\ todo \in Seq(Acts) /\ dying \in Acts \cup {NoAct}
  /\ pc \in HasAction <=> todo # <<>>
  /\ pc \in HasAction => prod > 0
  /\ dying # NoAct => pc \in MayDie

\* The queue is what was used last, without repetition, and the set has its elements.
EndsWith(s, t) ==
  /\ Len(t) <= Len(s)
  /\ \A j \in 1..Len(t) : t[j] = s[Len(s) - Len(t) + j]
KeptOK ==
  /\ actionQueue \in Seq(KeepOpen) /\ IsInjective(actionQueue)
  /\ used \in Seq(KeepOpen) /\ IsInjective(used)
  /\ EndsWith(used, actionQueue)
  /\ actionSet = Range(actionQueue)
  /\ pc = "destroyed" => actionQueue = <<>>

\* One action more than allowed is kept only until it's trimmed, and then the one in
\* hand is kept.
RoomOK ==
  /\ IsFiniteSet(actionSet)
  /\ Cardinality(actionSet) <= MaxKeepOpen + (IF pc = "trim" THEN 1 ELSE 0)
  /\ Cardinality(actionSet) > MaxKeepOpen => InHand \in actionSet

\* Only what is kept, or is in hand, has an open pipe or file.
OpenOK ==
  /\ pipe \in [Acts -> {"closed", "unread", "open"}]
  /\ file \in [Acts -> [open : BOOLEAN, content : Seq(0..MaxProds), offset : Nat]]
  /\ \A a \in Acts :
        /\ pipe[a] # "closed" \/ file[a].open => a \in actionSet \/ a = InHand
        /\ pipe[a] # "closed" => Kind[a] = "PIPE"
        /\ file[a].open => Kind[a] \in {"FILE", "APPEND"}
  /\ dying # NoAct => pipe[dying] = "closed"
  /\ pc = "write" => pipe[InHand] # "closed"
  /\ pc = "wait" => Kind[InHand] = "PIPE" /\ pipe[InHand] = "closed"

\* A process that the disposer doesn't know belongs to the action in hand, while its
\* product is written or its end is waited for, or is the program of an EXEC action,
\* which ends dispose(). It doesn't outlive its pipe, except that its action waits.
ChildOK(a) ==
  /\ pipe[a] = "open" => decoderPid[a] = "child"
  /\ Kind[a] \in {"FILE", "APPEND"} => child[a] = "none"
  /\ Kind[a] = "PIPE" /\ child[a] # "none" =>
        /\ decoderPid[a] = "child"
        /\ pipe[a] = "closed" => a = dying \/ (pc = "wait" /\ a = InHand)
        /\ a \in childCmds \/ (pc \in {"write", "wait", "killed"} /\ a = InHand)
  /\ Kind[a] = "EXEC" /\ child[a] # "none" =>
        /\ pc \in {"ended", "kill"}
        /\ \A b \in Acts : Kind[b] = "EXEC" /\ child[b] # "none" => a = b
ChildrenOK ==
  /\ childCmds \subseteq {a \in Acts : Kind[a] = "PIPE"}
  /\ decoderPid \in [Acts -> {"none", "child", "lost"}]
  /\ child \in [Acts -> {"none", "running", "clone", "zombie"}]
  /\ \A a \in Acts : ChildOK(a)

FilesOK ==
  /\ executed \in [Acts -> Seq(1..MaxProds)]
  /\ OutputIsExecuted

IInv == ThreadOK /\ KeptOK /\ RoomOK /\ OpenOK /\ ChildrenOK /\ FilesOK

-----------------------------------------------------------------------------
(* Lemmas about the queue *)

(* HashSetQueue::erase() leaves every other element, in their order.       *)
LEMMA WithoutIs ==
    ASSUME NEW S, NEW s \in Seq(S), IsInjective(s), NEW a
    PROVE  /\ Without(s, a) \in Seq(S)
           /\ IsInjective(Without(s, a))
           /\ Range(Without(s, a)) = Range(s) \ {a}
           /\ a \notin Range(s) => Without(s, a) = s
           /\ a \in Range(s) =>
                \E k \in 1 .. Len(s) :
                   /\ s[k] = a
                   /\ Len(Without(s, a)) = Len(s) - 1
                   /\ \A i \in 1 .. Len(s) - 1 :
                         Without(s, a)[i] = IF i < k THEN s[i] ELSE s[i + 1]
<1>1. DOMAIN s = 1 .. Len(s) /\ Len(s) \in Nat
    OBVIOUS
<1>2. Contains(s, a) <=> a \in Range(s)
    BY <1>1 DEF Contains, Range
<1>3. CASE a \notin Range(s)
    <2>1. Without(s, a) = s
        BY <1>2, <1>3 DEF Without
    <2>. QED BY <1>3, <2>1
<1>4. CASE a \in Range(s)
    <2> DEFINE k == CHOOSE i \in DOMAIN s : s[i] = a
    <2>1. k \in 1 .. Len(s) /\ s[k] = a
        BY <1>1, <1>4 DEF Range
    <2>2. Without(s, a) = SubSeq(s, 1, k - 1) \o SubSeq(s, k + 1, Len(s))
        BY <1>2, <1>4 DEF Without
    <2> HIDE DEF k
    <2> DEFINE t == SubSeq(s, 1, k - 1) \o SubSeq(s, k + 1, Len(s))
    <2>3. /\ t \in Seq(S)
          /\ Len(t) = Len(s) - 1
          /\ \A i \in 1 .. Len(s) - 1 : t[i] = IF i < k THEN s[i] ELSE s[i + 1]
        BY <2>1, WithoutPlace, Zenon
    <2>5. IsInjective(t) /\ Range(t) = Range(s) \ {s[k]}
        BY <2>1, WithoutElement, Zenon
    <2>4. Without(s, a) = t
        BY <2>2
    <2> HIDE DEF t
    <2>. QED BY <1>4, <2>1, <2>3, <2>4, <2>5
<1>. QED BY <1>3, <1>4

(* An action that is used becomes the last one of both orders: what is     *)
(* kept stays what was used last.                                          *)
LEMMA SuffixIsKept ==
    ASSUME NEW S, NEW s \in Seq(S), NEW q \in Seq(S), NEW a \in S,
           IsInjective(s), IsInjective(q), EndsWith(s, q)
    PROVE  EndsWith(Append(Without(s, a), a), Append(Without(q, a), a))
<1> DEFINE d == Len(s) - Len(q)
           t == Without(s, a)
           r == Without(q, a)
<1>1. /\ Len(s) \in Nat /\ Len(q) \in Nat /\ d \in Nat /\ Len(s) = d + Len(q)
      /\ DOMAIN s = 1 .. Len(s) /\ DOMAIN q = 1 .. Len(q)
      /\ \A j \in 1 .. Len(q) : q[j] = s[d + j]
      /\ \A i, j \in 1 .. Len(s) : s[i] = s[j] => i = j
      /\ \A i, j \in 1 .. Len(q) : q[i] = q[j] => i = j
    BY DEF EndsWith, IsInjective
<1>2. t \in Seq(S) /\ r \in Seq(S)
    BY WithoutIs
<1>3. ASSUME NEW e \in Nat, Len(t) = e + Len(r), \A j \in 1 .. Len(r) : r[j] = t[e + j]
      PROVE  EndsWith(Append(t, a), Append(r, a))
    <2> HIDE DEF t, r
    <2> DEFINE tt == Append(t, a)
               rr == Append(r, a)
    <2>1. Len(t) \in Nat /\ Len(r) \in Nat
        BY <1>2
    <2>2. /\ Len(tt) = Len(t) + 1 /\ Len(rr) = Len(r) + 1
          /\ \A i \in 1 .. Len(t) : tt[i] = t[i]
          /\ \A i \in 1 .. Len(r) : rr[i] = r[i]
          /\ tt[Len(t) + 1] = a /\ rr[Len(r) + 1] = a
        BY <1>2
    <2> HIDE DEF tt, rr
    <2>3. Len(rr) <= Len(tt) /\ Len(tt) - Len(rr) = e
        BY <1>3, <2>1, <2>2
    <2>4. ASSUME NEW j \in 1 .. Len(rr)
          PROVE  rr[j] = tt[e + j]
        <3>1. CASE j \in 1 .. Len(r)
            <4>1. e + j \in 1 .. Len(t)
                BY <1>3, <2>1, <3>1
            <4>. QED BY <1>3, <2>2, <3>1, <4>1
        <3>2. CASE j = Len(r) + 1
            <4>1. e + j = Len(t) + 1
                BY <1>3, <2>1, <3>2
            <4>. QED BY <2>2, <3>2, <4>1
        <3>. QED BY <2>1, <2>2, <2>4, <3>1, <3>2
    <2>5. EndsWith(tt, rr)
        BY <2>3, <2>4 DEF EndsWith
    <2>. QED BY <2>5 DEF tt, rr
<1>4. CASE a \in Range(q)
    <2>1. PICK k \in 1 .. Len(q) :
             /\ q[k] = a
             /\ Len(r) = Len(q) - 1
             /\ \A i \in 1 .. Len(q) - 1 : r[i] = IF i < k THEN q[i] ELSE q[i + 1]
        BY <1>4, WithoutIs
    <2>2. d + k \in 1 .. Len(s) /\ s[d + k] = a
        BY <1>1, <2>1
    <2>3. a \in Range(s)
        BY <1>1, <2>2 DEF Range
    <2>4. PICK m \in 1 .. Len(s) :
             /\ s[m] = a
             /\ Len(t) = Len(s) - 1
             /\ \A i \in 1 .. Len(s) - 1 : t[i] = IF i < m THEN s[i] ELSE s[i + 1]
        BY <2>3, WithoutIs
    <2>5. m = d + k
        BY <1>1, <2>2, <2>4
    <2> HIDE DEF t, r, d
    <2>6. Len(t) = d + Len(r)
        BY <1>1, <2>1, <2>4
    <2>7. ASSUME NEW j \in 1 .. Len(r)
          PROVE  r[j] = t[d + j]
        <3>1. j \in 1 .. Len(q) - 1 /\ d + j \in 1 .. Len(s) - 1
            BY <1>1, <2>1
        <3>2. CASE j < k
            <4>1. r[j] = q[j] /\ q[j] = s[d + j]
                BY <1>1, <2>1, <3>1, <3>2
            <4>2. d + j < m
                BY <1>1, <2>5, <3>1, <3>2
            <4>. QED BY <2>4, <3>1, <4>1, <4>2
        <3>3. CASE ~(j < k)
            <4>1. r[j] = q[j + 1] /\ q[j + 1] = s[d + (j + 1)]
                BY <1>1, <2>1, <3>1, <3>3
            <4>2. ~(d + j < m) /\ d + (j + 1) = (d + j) + 1
                BY <1>1, <2>5, <3>1, <3>3
            <4>. QED BY <2>4, <3>1, <4>1, <4>2
        <3>. QED BY <3>2, <3>3
    <2>. QED BY <1>1, <1>3, <2>6, <2>7 DEF t, r
<1>5. CASE a \notin Range(q) /\ a \in Range(s)
    <2>1. r = q
        BY <1>5, WithoutIs
    <2>2. PICK m \in 1 .. Len(s) :
             /\ s[m] = a
             /\ Len(t) = Len(s) - 1
             /\ \A i \in 1 .. Len(s) - 1 : t[i] = IF i < m THEN s[i] ELSE s[i + 1]
        BY <1>5, WithoutIs
    <2>3. m <= d
        <3>1. SUFFICES ASSUME m > d PROVE FALSE
            BY <1>1
        <3>2. m - d \in 1 .. Len(q) /\ d + (m - d) = m
            BY <1>1, <3>1
        <3>3. q[m - d] = a
            BY <1>1, <2>2, <3>2
        <3>. QED BY <1>1, <1>5, <3>2, <3>3 DEF Range
    <2> DEFINE e == d - 1
    <2> HIDE DEF t, r, d
    <2>4. e \in Nat /\ Len(t) = e + Len(r)
        BY <1>1, <2>1, <2>2, <2>3
    <2>5. ASSUME NEW j \in 1 .. Len(r)
          PROVE  r[j] = t[e + j]
        <3>1. /\ e + j \in 1 .. Len(s) - 1 /\ ~(e + j < m) /\ (e + j) + 1 = d + j
              /\ j \in 1 .. Len(q)
            BY <1>1, <2>1, <2>2, <2>3
        <3>. QED BY <1>1, <2>1, <2>2, <3>1
    <2> HIDE DEF e
    <2>. QED BY <1>3, <2>4, <2>5 DEF t, r
<1>6. CASE a \notin Range(q) /\ a \notin Range(s)
    <2>1. r = q /\ t = s
        BY <1>6, WithoutIs
    <2>. QED BY <1>1, <1>3, <2>1
<1>7. a \in Range(q) => a \in Range(s)
    <2>1. ASSUME NEW k \in 1 .. Len(q) PROVE q[k] \in Range(s)
        <3>1. d + k \in DOMAIN s /\ q[k] = s[d + k]
            BY <1>1
        <3>. QED BY <3>1 DEF Range
    <2>. QED BY <1>1, <2>1 DEF Range
<1>. QED BY <1>4, <1>5, <1>6

(* The queue without its head is still what was used last.                 *)
LEMMA SuffixWithoutHead ==
    ASSUME NEW S, NEW s \in Seq(S), NEW q \in Seq(S), q # <<>>, EndsWith(s, q)
    PROVE  EndsWith(s, Tail(q))
<1> DEFINE r == Tail(q)
<1>1. /\ Len(s) \in Nat /\ Len(q) \in Nat \ {0} /\ Len(r) = Len(q) - 1
      /\ \A j \in 1 .. Len(q) - 1 : r[j] = q[j + 1]
    OBVIOUS
<1>2. Len(q) <= Len(s) /\ \A j \in 1 .. Len(q) : q[j] = s[Len(s) - Len(q) + j]
    BY DEF EndsWith
<1> HIDE DEF r
<1>3. Len(r) <= Len(s)
    BY <1>1, <1>2
<1>4. ASSUME NEW j \in 1 .. Len(r)
      PROVE  r[j] = s[Len(s) - Len(r) + j]
    <2>1. /\ j \in 1 .. Len(q) - 1 /\ j + 1 \in 1 .. Len(q)
          /\ Len(s) - Len(q) + (j + 1) = Len(s) - Len(r) + j
        BY <1>1
    <2>. QED BY <1>1, <1>2, <2>1
<1>5. EndsWith(s, r)
    BY <1>3, <1>4 DEF EndsWith
<1>. QED BY <1>5 DEF r

(* What is left of a queue that ends with q from some place on.            *)
LEMMA SuffixIsSubSeq ==
    ASSUME NEW S, NEW s \in Seq(S), NEW q \in Seq(S), EndsWith(s, q)
    PROVE  \E i \in 0 .. Len(s) : q = SubSeq(s, i + 1, Len(s))
<1> DEFINE d == Len(s) - Len(q)
           u == SubSeq(s, d + 1, Len(s))
<1>1. /\ Len(s) \in Nat /\ Len(q) \in Nat /\ d \in 0 .. Len(s) /\ Len(q) = Len(s) - d
      /\ \A j \in 1 .. Len(q) : q[j] = s[d + j]
    BY DEF EndsWith
<1>2. /\ u \in Seq(S)
      /\ Len(u) = IF d + 1 <= Len(s) THEN Len(s) - (d + 1) + 1 ELSE 0
      /\ \A i \in 1 .. Len(s) - (d + 1) + 1 : u[i] = s[d + 1 + i - 1]
    <2>1. \A i \in d + 1 .. Len(s) : s[i] \in S
        BY <1>1
    <2>. QED BY <1>1, <2>1, SubSeqProperties
<1> HIDE DEF u, d
<1>3. Len(u) = Len(q)
    BY <1>1, <1>2
<1>4. ASSUME NEW j \in 1 .. Len(q)
      PROVE  q[j] = u[j]
    <2>1. j \in 1 .. Len(s) - (d + 1) + 1 /\ d + 1 + j - 1 = d + j
        BY <1>1
    <2>. QED BY <1>1, <1>2, <2>1
<1>5. q = u
    BY <1>2, <1>3, <1>4, SeqEqual
<1>. QED BY <1>1, <1>5 DEF u

(* A function from 1 to n is a sequence.                                   *)
LEMMA FunctionIsSeq ==
    ASSUME NEW S, NEW n \in Nat, NEW s \in [1..n -> S]
    PROVE  s \in Seq(S)
  BY SeqDef

-----------------------------------------------------------------------------
(* The invariant, one part after the other *)

LEMMA InitInv == Init => IInv
<1> SUFFICES ASSUME Init PROVE IInv
    OBVIOUS
<1> USE ActsAssumption DEF Init
<1>1. <<>> \in Seq(Acts) /\ <<>> \in Seq(KeepOpen) /\ <<>> \in Seq(0..MaxProds)
      /\ <<>> \in Seq(1..MaxProds)
    OBVIOUS
<1>2. ThreadOK
    BY <1>1 DEF ThreadOK, HasAction, MayDie
<1>3. KeptOK
    BY <1>1 DEF KeptOK, EndsWith, IsInjective, Range
<1>4. RoomOK
    <2>1. IsFiniteSet({}) /\ Cardinality({}) = 0
        BY FS_EmptySet
    <2>. QED BY <2>1 DEF RoomOK
<1>5. OpenOK
    BY <1>1 DEF OpenOK
<1>6. ChildrenOK
    BY DEF ChildrenOK, ChildOK
<1>7. FilesOK
    <2>1. Cells(<<>>) = {}
        BY DEF Cells
    <2>2. Cardinality({}) = 0
        BY FS_EmptySet
    <2>3. Lists(<<>>, <<>>)
        BY <2>1, <2>2 DEF Lists
    <2>. QED BY <1>1, <2>3 DEF FilesOK, OutputIsExecuted
<1>. QED BY <1>2, <1>3, <1>4, <1>5, <1>6, <1>7 DEF IInv

(* The action in hand is the first one that is left to do.                 *)
LEMMA InHandIs ==
    ASSUME ThreadOK
    PROVE  /\ pc \in HasAction => InHand \in Acts
           /\ pc \notin HasAction => InHand = NoAct
           /\ InHand = NoAct => todo = <<>>
<1>1. todo # <<>> => Head(todo) \in Acts
    BY DEF ThreadOK
<1>. QED BY <1>1, ActsAssumption DEF ThreadOK, InHand

(* What a step that forgets the queue's head leaves.                       *)
LEMMA HeadIsForgotten ==
    ASSUME KeptOK, actionQueue # <<>>,
           actionQueue' = Tail(actionQueue), actionSet' = actionSet \ {Head(actionQueue)},
           used' = used
    PROVE  /\ actionQueue' \in Seq(KeepOpen) /\ IsInjective(actionQueue')
           /\ EndsWith(used', actionQueue')
           /\ actionSet' = Range(actionQueue')
           /\ Head(actionQueue) \in KeepOpen /\ Head(actionQueue) \in Acts
           /\ Head(actionQueue) \in actionSet
<1>1. actionQueue \in Seq(KeepOpen) /\ used \in Seq(KeepOpen) /\ IsInjective(actionQueue)
      /\ EndsWith(used, actionQueue) /\ actionSet = Range(actionQueue)
    BY DEF KeptOK
<1>2. /\ Tail(actionQueue) \in Seq(KeepOpen) /\ IsInjective(Tail(actionQueue))
      /\ Head(actionQueue) \in KeepOpen /\ Head(actionQueue) \in Range(actionQueue)
      /\ Range(Tail(actionQueue)) = Range(actionQueue) \ {Head(actionQueue)}
    BY <1>1, TailWithout
<1>3. EndsWith(used, Tail(actionQueue))
    BY <1>1, SuffixWithoutHead
<1>. QED BY <1>1, <1>2, <1>3, ActsAssumption

(* There is a queue while more is kept than allowed, or may be erased.     *)
LEMMA QueueIsThere ==
    ASSUME KeptOK, RoomOK, TooManyKept \/ MayEraseLru
    PROVE  actionQueue # <<>>
<1>1. CASE TooManyKept
    <2>1. SUFFICES ASSUME actionQueue = <<>> PROVE FALSE
        OBVIOUS
    <2>2. actionSet = {}
        BY <2>1 DEF KeptOK, Range
    <2>3. Cardinality(actionSet) = 0
        BY <2>2, FS_EmptySet
    <2>. QED BY <1>1, <2>3, ActsAssumption DEF TooManyKept
<1>2. CASE MayEraseLru
    BY <1>2 DEF MayEraseLru
<1>. QED BY <1>1, <1>2

(* The thread is in dispose() with an action, or isn't.                    *)
LEMMA ThreadStep == IInv /\ Next => ThreadOK'
<1> SUFFICES ASSUME IInv, Next PROVE ThreadOK'
    OBVIOUS
<1> USE ActsAssumption
<1>a. ThreadOK /\ KeptOK /\ RoomOK
    BY DEF IInv
<1>b. /\ pc \in HasAction => InHand \in Acts
      /\ pc \notin HasAction => InHand = NoAct
    BY <1>a, InHandIs
<1>1. CASE Dispose
    <2>1. ASSUME NEW as \in Matches
          PROVE  as \in Seq(Acts)
        <3>1. PICK n \in 0..2 : as \in [1..n -> Acts]
            BY DEF Matches, SeqOf
        <3>2. n \in Nat
            BY <3>1
        <3>. QED BY <3>1, <3>2, FunctionIsSeq
    <2>a. PICK as \in Matches : todo' = as
        BY <1>1 DEF Dispose
    <2>b. todo' \in Seq(Acts)
        BY <2>1, <2>a
    <2>2. /\ todo' \in Seq(Acts) /\ pc = "idle" /\ dying' = dying
          /\ prod \in Nat /\ prod' = prod + 1 /\ prod < MaxProds /\ lastProcessed' = lastProcessed
        BY <1>1, <1>a, <2>b DEF Dispose, ThreadOK, output
    <2>3. prod' \in 0..MaxProds /\ prod' > 0 /\ lastProcessed' \in 0..prod'
        BY <1>a, <2>2 DEF ThreadOK
    <2>4. pc' = "reap" <=> todo' = <<>>
        BY <1>1 DEF Dispose
    <2>5. pc' \in {"reap", "get"}
        BY <1>1 DEF Dispose
    <2>6. dying' = NoAct
        BY <1>a, <2>2 DEF ThreadOK, MayDie
    <2>. QED BY <2>2, <2>3, <2>4, <2>5, <2>6 DEF ThreadOK, HasAction, MayDie
<1>2. CASE KillChildren
    BY <1>2, <1>a DEF KillChildren, ThreadOK, HasAction, MayDie, output
<1>3. CASE Destroyed
    BY <1>3, <1>a DEF Destroyed, ThreadOK, output
<1>4. CASE GetAction
    BY <1>4, <1>a DEF GetAction, ThreadOK, HasAction, MayDie, output
<1>5. CASE Trim \/ Retry
    <2>1. /\ EraseLru /\ pc \in {"trim", "refused"} /\ pc' \in {"trim", "process"}
          /\ actionQueue # <<>>
        BY <1>5, <1>a, QueueIsThere DEF Trim, Retry
    <2>2. Head(actionQueue) \in Acts
        BY <2>1, <1>a, HeadIsForgotten DEF EraseLru
    <2>3. dying' \in Acts \cup {NoAct}
        BY <2>1, <2>2, <1>a DEF EraseLru, Close, ThreadOK
    <2>4. UNCHANGED <<prod, todo, lastProcessed>>
        BY <2>1 DEF EraseLru
    <2>. QED BY <2>1, <2>3, <2>4, <1>a DEF ThreadOK, HasAction, MayDie
<1>6. CASE Trimmed
    BY <1>6, <1>a DEF Trimmed, ThreadOK, HasAction, MayDie, output
<1>7. CASE GiveUp
    BY <1>7, <1>a DEF GiveUp, Fails, ThreadOK, HasAction, MayDie, output
<1>8. CASE Succeed
    BY <1>8, <1>a DEF Succeed, ThreadOK, HasAction, MayDie
<1>9. CASE Drop
    <2>1. /\ pc = "drop" /\ todo \in Seq(Acts) /\ todo # <<>> /\ todo' = Tail(todo)
          /\ pc' = IF Len(todo) = 1 THEN "reap" ELSE "get"
          /\ UNCHANGED <<prod, lastProcessed>>
        BY <1>9, <1>a DEF Drop, ThreadOK, HasAction
    <2>2. todo' \in Seq(Acts) /\ (todo' = <<>> <=> Len(todo) = 1)
        <3>1. /\ Tail(todo) \in Seq(Acts) /\ Len(Tail(todo)) = Len(todo) - 1
              /\ Len(todo) \in Nat
            BY <2>1
        <3>2. Tail(todo) = <<>> <=> Len(Tail(todo)) = 0
            BY <3>1, EmptySeq
        <3>. QED BY <2>1, <3>1, <3>2
    <2>3. dying' \in Acts \cup {NoAct}
        BY <1>9, <1>a, <1>b DEF Drop, Close, ThreadOK, HasAction
    <2>. QED BY <2>1, <2>2, <2>3, <1>a DEF ThreadOK, HasAction, MayDie
<1>10. CASE ReapDone
    BY <1>10, <1>a DEF ReapDone, ThreadOK, HasAction, MayDie, output
<1>11. CASE CloseKept
    <2>1. pc = "close" /\ pc' \in {"close", "destroyed"} /\ UNCHANGED <<prod, todo, lastProcessed>>
        BY <1>11 DEF CloseKept
    <2>2. actionQueue # <<>> => Head(actionQueue) \in Acts
        BY <1>a, ActsAssumption DEF KeptOK
    <2>3. dying' \in Acts \cup {NoAct} /\ (dying' # NoAct => pc' = "close")
        BY <1>11, <1>a, <2>2 DEF CloseKept, Close, ThreadOK
    <2>. QED BY <2>1, <2>3, <1>a DEF ThreadOK, HasAction, MayDie
<1>12. ASSUME NEW a \in Acts, Process(a) \/ ReapChild(a)
       PROVE  ThreadOK'
    <2>1. CASE Exec(a)
        <3>1. <<>> \in Seq(Acts)
            OBVIOUS
        <3>. QED BY <2>1, <1>a, <3>1 DEF Exec, ThreadOK, HasAction, MayDie, output
    <2>2. CASE Refuse(a) \/ ReusePipe(a) \/ BreakPipe(a)
        BY <2>2, <1>a DEF Refuse, ReusePipe, BreakPipe, ThreadOK, HasAction, MayDie, output
    <2>3. CASE CreatePipe(a) \/ WritePipe(a)
        BY <2>3, <1>a DEF CreatePipe, WritePipe, ThreadOK, HasAction, MayDie, output
    <2>4. CASE WaitForDecoder(a)
        BY <2>4, <1>a DEF WaitForDecoder, Fails, ThreadOK, HasAction, MayDie
    <2>5. CASE WriteFile(a)
        BY <2>5, <1>a DEF WriteFile, Fails, ThreadOK, HasAction, MayDie
    <2>6. CASE ReapChild(a)
        BY <2>6, <1>a DEF ReapChild, ThreadOK, HasAction, MayDie, output
    <2>. QED BY <1>12, <2>1, <2>2, <2>3, <2>4, <2>5, <2>6 DEF Process
<1>13. ASSUME NEW a \in Acts, EndOfInput(a) \/ Crash(a)
       PROVE  ThreadOK'
    BY <1>13, <1>a DEF EndOfInput, Crash, thread, output, ThreadOK
<1>. QED BY <1>1, <1>2, <1>3, <1>4, <1>5, <1>6, <1>7, <1>8, <1>9, <1>10, <1>11, <1>12, <1>13
         DEF Next, Thread

(* What a step that doesn't look for an action, trim or close leaves.      *)
LEMMA KeptIsLeft ==
    ASSUME Next, ~GetAction, ~Trim, ~Trimmed, ~Retry, ~CloseKept
    PROVE  /\ UNCHANGED kept
           /\ pc' # "destroyed" \/ pc' = pc
           /\ pc # "trim" \/ (pc' = pc /\ todo' = todo)
           /\ pc' # "trim" \/ pc' = pc
<1> USE DEF kept, thread, output
<1>1. CASE Dispose \/ KillChildren
    BY <1>1 DEF Dispose, KillChildren
<1>2. CASE Destroyed \/ GiveUp \/ Succeed
    BY <1>2 DEF Destroyed, GiveUp, Succeed, Fails
<1>3. CASE Drop \/ ReapDone
    BY <1>3 DEF Drop, ReapDone
<1>4. ASSUME NEW a \in Acts, Process(a) \/ ReapChild(a)
      PROVE  /\ UNCHANGED kept
             /\ pc' # "destroyed" \/ pc' = pc
             /\ pc # "trim" \/ (pc' = pc /\ todo' = todo)
             /\ pc' # "trim" \/ pc' = pc
    <2>1. CASE Refuse(a) \/ ReusePipe(a) \/ BreakPipe(a)
        BY <2>1 DEF Refuse, ReusePipe, BreakPipe
    <2>2. CASE CreatePipe(a) \/ WritePipe(a)
        BY <2>2 DEF CreatePipe, WritePipe
    <2>3. CASE WaitForDecoder(a) \/ Exec(a)
        BY <2>3 DEF WaitForDecoder, Exec, Fails
    <2>4. CASE WriteFile(a) \/ ReapChild(a)
        BY <2>4 DEF WriteFile, ReapChild, Fails
    <2>. QED BY <1>4, <2>1, <2>2, <2>3, <2>4 DEF Process
<1>5. ASSUME NEW a \in Acts, EndOfInput(a) \/ Crash(a)
      PROVE  UNCHANGED <<kept, pc, todo>>
    BY <1>5 DEF EndOfInput, Crash
<1>. QED BY <1>1, <1>2, <1>3, <1>4, <1>5 DEF Next, Thread

(* The queue and the set of what is kept agree with the order of use.      *)
LEMMA KeptStep == IInv /\ Next => KeptOK'
<1> SUFFICES ASSUME IInv, Next PROVE KeptOK'
    OBVIOUS
<1> USE ActsAssumption
<1>a. ThreadOK /\ KeptOK /\ RoomOK
    BY DEF IInv
<1>b. /\ actionQueue \in Seq(KeepOpen) /\ IsInjective(actionQueue)
      /\ used \in Seq(KeepOpen) /\ IsInjective(used)
      /\ EndsWith(used, actionQueue)
      /\ actionSet = Range(actionQueue)
    BY <1>a DEF KeptOK
<1>1. CASE GetAction /\ InHand \in KeepOpen
    <2> DEFINE a == InHand
               q == Without(actionQueue, a)
               u == Without(used, a)
    <2>1. /\ q \in Seq(KeepOpen) /\ IsInjective(q) /\ Range(q) = Range(actionQueue) \ {a}
          /\ u \in Seq(KeepOpen) /\ IsInjective(u) /\ Range(u) = Range(used) \ {a}
        BY <1>b, WithoutIs
    <2>2. ~Contains(q, a)
        BY <2>1 DEF Contains, Range
    <2>3. /\ actionQueue' = Append(q, a) /\ used' = Append(u, a)
          /\ actionSet' = actionSet \cup {a} /\ pc' = "trim"
        BY <1>1, <2>2 DEF GetAction, Used, LeftQueue
    <2>4. EndsWith(Append(u, a), Append(q, a))
        BY <1>1, <1>b, SuffixIsKept
    <2> HIDE DEF q, u, a
    <2>5. /\ a \in KeepOpen /\ a \notin Range(q) /\ a \notin Range(u)
        BY <1>1, <2>1 DEF a
    <2>6. /\ Append(q, a) \in Seq(KeepOpen) /\ IsInjective(Append(q, a))
          /\ Range(Append(q, a)) = Range(q) \cup {a}
        BY <2>1, <2>5, AppendNew
    <2>7. Append(u, a) \in Seq(KeepOpen) /\ IsInjective(Append(u, a))
        BY <2>1, <2>5, AppendNew
    <2>8. actionSet' = Range(actionQueue')
        BY <1>b, <2>1, <2>3, <2>6
    <2>. QED BY <2>3, <2>4, <2>6, <2>7, <2>8 DEF KeptOK
<1>2. CASE GetAction /\ InHand \notin KeepOpen
    BY <1>2, <1>a DEF GetAction, KeptOK, kept
<1>3. CASE Trim \/ Retry \/ (CloseKept /\ actionQueue # <<>>)
    <2>1. actionQueue # <<>>
        BY <1>3, <1>a, QueueIsThere DEF Trim, Retry
    <2>2. /\ actionQueue' = Tail(actionQueue) /\ actionSet' = actionSet \ {Head(actionQueue)}
          /\ used' = used /\ pc' # "destroyed"
        BY <1>3, <2>1 DEF Trim, Retry, EraseLru, CloseKept
    <2>3. /\ actionQueue' \in Seq(KeepOpen) /\ IsInjective(actionQueue')
          /\ EndsWith(used', actionQueue')
          /\ actionSet' = Range(actionQueue')
        BY <1>a, <2>1, <2>2, HeadIsForgotten
    <2>. QED BY <1>b, <2>2, <2>3 DEF KeptOK
<1>4. CASE CloseKept /\ actionQueue = <<>>
    BY <1>4, <1>a DEF CloseKept, KeptOK
<1>5. CASE Trimmed
    BY <1>5, <1>a DEF Trimmed, KeptOK, kept
<1>6. CASE ~GetAction /\ ~Trim /\ ~Trimmed /\ ~Retry /\ ~CloseKept
    <2>1. UNCHANGED kept /\ (pc' # "destroyed" \/ pc' = pc)
        BY <1>6, KeptIsLeft
    <2>. QED BY <2>1, <1>a DEF KeptOK, kept
<1>. QED BY <1>1, <1>2, <1>3, <1>4, <1>5, <1>6

(* No more is kept than allowed, except while it's trimmed.                *)
LEMMA RoomStep == IInv /\ Next => RoomOK'
<1> SUFFICES ASSUME IInv, Next PROVE RoomOK'
    OBVIOUS
<1> USE ActsAssumption
<1>a. ThreadOK /\ KeptOK /\ RoomOK
    BY DEF IInv
<1> DEFINE n == Cardinality(actionSet)
<1>b. /\ IsFiniteSet(actionSet) /\ n \in Nat
      /\ n <= MaxKeepOpen + 1 /\ (pc # "trim" => n <= MaxKeepOpen)
      /\ n > MaxKeepOpen => InHand \in actionSet
    <2>1. IsFiniteSet(actionSet) /\ Cardinality(actionSet) \in Nat
        BY <1>a, FS_CardinalityType DEF RoomOK
    <2>. QED BY <1>a, <2>1 DEF RoomOK
<1>1. CASE GetAction /\ InHand \in KeepOpen
    <2>1. /\ actionSet' = actionSet \cup {InHand} /\ pc = "get" /\ pc' = "trim"
          /\ todo' = todo
        BY <1>1 DEF GetAction
    <2>2. /\ IsFiniteSet(actionSet')
          /\ Cardinality(actionSet') = n \/ Cardinality(actionSet') = n + 1
        BY <1>b, <2>1, FS_AddElement
    <2>3. InHand' = InHand
        BY <2>1 DEF InHand
    <2>4. InHand' \in actionSet'
        BY <2>1, <2>3
    <2>5. Cardinality(actionSet') <= MaxKeepOpen + 1
        <3> HIDE DEF n
        <3>. QED BY <1>b, <2>1, <2>2
    <2>. QED BY <2>1, <2>2, <2>4, <2>5 DEF RoomOK
<1>2. CASE (GetAction /\ InHand \notin KeepOpen) \/ Trimmed \/ (CloseKept /\ actionQueue = <<>>)
    <2>1. actionSet' = actionSet /\ pc' # "trim" /\ n <= MaxKeepOpen
        BY <1>2, <1>b DEF GetAction, Trimmed, CloseKept, kept, TooManyKept
    <2>2. IsFiniteSet(actionSet') /\ Cardinality(actionSet') = n
        BY <1>b, <2>1
    <2> HIDE DEF n
    <2>. QED BY <1>b, <2>1, <2>2 DEF RoomOK
<1>3. CASE Trim \/ Retry \/ (CloseKept /\ actionQueue # <<>>)
    <2>1. actionQueue # <<>>
        BY <1>3, <1>a, QueueIsThere DEF Trim, Retry
    <2>2. /\ actionQueue' = Tail(actionQueue) /\ actionSet' = actionSet \ {Head(actionQueue)}
          /\ used' = used
        BY <1>3, <2>1 DEF Trim, Retry, EraseLru, CloseKept
    <2>3. Head(actionQueue) \in actionSet
        BY <1>a, <2>1, <2>2, HeadIsForgotten
    <2>4. IsFiniteSet(actionSet') /\ Cardinality(actionSet') = n - 1
        BY <1>b, <2>2, <2>3, FS_RemoveElement
    <2> HIDE DEF n
    <2>5. Cardinality(actionSet') <= MaxKeepOpen
        BY <1>b, <2>4
    <2>. QED BY <1>b, <2>4, <2>5 DEF RoomOK
<1>4. CASE ~GetAction /\ ~Trim /\ ~Trimmed /\ ~Retry /\ ~CloseKept
    <2>1. /\ actionSet' = actionSet
          /\ pc # "trim" \/ (pc' = pc /\ todo' = todo)
          /\ pc' # "trim" \/ pc' = pc
        BY <1>4, KeptIsLeft DEF kept
    <2>2. IsFiniteSet(actionSet') /\ Cardinality(actionSet') = n
        BY <1>b, <2>1
    <2>3. todo' = todo => InHand' = InHand
        BY DEF InHand
    <2> HIDE DEF n
    <2>. QED BY <1>b, <2>1, <2>2, <2>3 DEF RoomOK
<1>. QED BY <1>1, <1>2, <1>3, <1>4

(* What a file holds before a product is written to it: what was appended  *)
(* to it, or nothing but the hole up to the place of the product.          *)
LEMMA PaddedIs ==
    ASSUME OpenOK, NEW a \in Acts, Kind[a] \in {"FILE", "APPEND"}
    PROVE  LET s == Padded(Content(a), Offset(a))
           IN  /\ s \in Seq(0..MaxProds)
               /\ Kind[a] = "APPEND" => s = file[a].content
               /\ Kind[a] = "FILE" => \A i \in 1..Len(s) : s[i] = Hole
<1>0. MaxProds \in Nat /\ Hole \in 0..MaxProds /\ Hole = 0
    BY ActsAssumption DEF Hole
<1>1. /\ file[a] \in [open : BOOLEAN, content : Seq(0..MaxProds), offset : Nat]
      /\ file[a].content \in Seq(0..MaxProds) /\ file[a].offset \in Nat
    BY DEF OpenOK
<1>2. CASE Kind[a] = "APPEND"
    <2> DEFINE c == file[a].content
    <2>1. Content(a) = c /\ Offset(a) = Len(c)
        BY <1>2 DEF Content, Offset, Truncated
    <2>2. c \in Seq(0..MaxProds) /\ Len(c) - Len(c) = 0
        BY <1>1
    <2>3. [i \in 1..0 |-> Hole] = <<>>
        OBVIOUS
    <2>4. Padded(c, Len(c)) = c \o <<>>
        BY <2>2, <2>3 DEF Padded
    <2>5. c \o <<>> = c
        BY <2>2, ConcatEmptySeq
    <2>. QED BY <1>2, <2>1, <2>2, <2>4, <2>5
<1>3. CASE Kind[a] = "FILE"
    <2> DEFINE n == Offset(a)
               z == [i \in 1..n |-> Hole]
    <2>1. Content(a) = <<>>
        BY <1>3 DEF Content, Truncated
    <2>2. n \in Nat
        BY <1>1, <1>3, <2>1, EmptySeq DEF Offset
    <2> HIDE DEF n
    <2>3. Padded(<<>>, n) = <<>> \o z
        BY <2>2 DEF Padded
    <2>4. z \in Seq(0..MaxProds) /\ Len(z) = n /\ \A i \in 1..n : z[i] = Hole
        BY <1>0, <2>2
    <2> HIDE DEF z
    <2>5. <<>> \o z = z
        BY <2>4, ConcatEmptySeq
    <2>. QED BY <1>3, <2>1, <2>3, <2>4, <2>5 DEF n
<1>. QED BY <1>2, <1>3

(* What is written: the product after what the file holds, as a whole, or  *)
(* a hole in its place.                                                    *)
LEMMA WrittenIs ==
    ASSUME ThreadOK, OpenOK, NEW a \in Acts, WriteFile(a)
    PROVE  /\ file' \in [Acts -> [open : BOOLEAN, content : Seq(0..MaxProds), offset : Nat]]
           /\ \A b \in Acts : b # a => file'[b] = file[b]
           /\ LET s == Padded(Content(a), Offset(a))
              IN  \/ /\ file'[a].content = Append(s, prod)
                     /\ executed' = [executed EXCEPT ![a] = Append(@, prod)]
                  \/ /\ file'[a].content = Append(s, Hole)
                     /\ executed' = executed
<1> DEFINE s == Padded(Content(a), Offset(a))
           W(cell) == [open |-> TRUE, content |-> Append(s, cell), offset |-> Len(Append(s, cell))]
<1>0. prod \in 0..MaxProds /\ Hole \in 0..MaxProds
    BY ActsAssumption DEF ThreadOK, Hole
<1>1. s \in Seq(0..MaxProds)
    BY PaddedIs DEF WriteFile
<1>2. file \in [Acts -> [open : BOOLEAN, content : Seq(0..MaxProds), offset : Nat]]
    BY DEF OpenOK
<1>3. \/ /\ file' = [file EXCEPT ![a] = [W(prod) EXCEPT !.open = a \in KeepOpen]]
         /\ executed' = [executed EXCEPT ![a] = Append(@, prod)]
      \/ /\ file' = [file EXCEPT ![a] = W(Hole)]
         /\ executed' = executed
    BY DEF WriteFile
<1> HIDE DEF s
<1>4. ASSUME NEW cell \in 0..MaxProds
      PROVE  /\ W(cell) \in [open : BOOLEAN, content : Seq(0..MaxProds), offset : Nat]
             /\ [W(cell) EXCEPT !.open = a \in KeepOpen]
                  \in [open : BOOLEAN, content : Seq(0..MaxProds), offset : Nat]
             /\ W(cell).content = Append(s, cell)
             /\ [W(cell) EXCEPT !.open = a \in KeepOpen].content = Append(s, cell)
    <2>1. Append(s, cell) \in Seq(0..MaxProds) /\ Len(Append(s, cell)) \in Nat
        BY <1>1
    <2>2. (a \in KeepOpen) \in BOOLEAN
        OBVIOUS
    <2>. QED BY <2>1, <2>2
<1> HIDE DEF W
<1>. QED BY <1>0, <1>2, <1>3, <1>4 DEF s

(* A step that opens and closes nothing.                                   *)
LEMMA NothingIsOpened ==
    ASSUME OpenOK, UNCHANGED <<pipe, file, actionSet>>, dying' \in {dying, NoAct},
           InHand' = InHand \/ \A a \in Acts : a = InHand => pipe[a] = "closed" /\ ~file[a].open,
           pc' = "write" => pipe[InHand'] # "closed",
           pc' = "wait" => Kind[InHand'] = "PIPE" /\ pipe[InHand'] = "closed"
    PROVE  OpenOK'
  BY DEF OpenOK

(* What is closed.                                                         *)
LEMMA ClosedIs ==
    ASSUME OpenOK, NEW h \in Acts, Close(h)
    PROVE  /\ pipe' \in [Acts -> {"closed", "unread", "open"}]
           /\ file' \in [Acts -> [open : BOOLEAN, content : Seq(0..MaxProds), offset : Nat]]
           /\ \A b \in Acts : file'[b].content = file[b].content
           /\ \A b \in Acts : b # h => pipe'[b] = pipe[b] /\ file'[b] = file[b]
           /\ pipe'[h] = "closed" /\ file'[h].open = FALSE
           /\ dying' = h
  BY DEF OpenOK, Close

(* Only what is kept or in hand has an open pipe or file.                  *)
LEMMA OpenStep == IInv /\ Next => OpenOK'
<1> SUFFICES ASSUME IInv, Next PROVE OpenOK'
    OBVIOUS
<1> USE ActsAssumption
<1>a. ThreadOK /\ KeptOK /\ RoomOK /\ OpenOK
    BY DEF IInv
<1>b. /\ pc \in HasAction => InHand \in Acts
      /\ pc \notin HasAction => InHand = NoAct
    BY <1>a, InHandIs
<1>c. todo' = todo => InHand' = InHand
    BY DEF InHand
<1>1. CASE Dispose \/ KillChildren
    <2>1. /\ UNCHANGED <<pipe, file, actionSet>> /\ dying' = dying
          /\ pc' \in {"reap", "get", "kill"} /\ pc \notin HasAction
        BY <1>1 DEF Dispose, KillChildren, kept, output, procs, HasAction
    <2>. QED BY <1>a, <1>b, <2>1, NothingIsOpened
<1>2. CASE Destroyed
    <2>1. UNCHANGED <<pipe, file, actionSet, pc, todo>> /\ dying' = NoAct
        BY <1>2 DEF Destroyed, kept, output
    <2>. QED BY <1>a, <1>c, <2>1, NothingIsOpened DEF OpenOK
<1>3. CASE GetAction
    <2>1. /\ UNCHANGED <<pipe, file, todo, dying>> /\ pc' \in {"trim", "process"}
          /\ actionSet \subseteq actionSet'
        BY <1>3 DEF GetAction, kept, output, procs
    <2>. QED BY <1>a, <1>c, <2>1 DEF OpenOK
<1>4. CASE Trim \/ Retry
    <2> DEFINE h == Head(actionQueue)
    <2>1. actionQueue # <<>>
        BY <1>4, <1>a, QueueIsThere DEF Trim, Retry
    <2>2. /\ EraseLru /\ pc' \in {"trim", "process"} /\ dying = NoAct
        BY <1>4, <1>a DEF Trim, Retry, ThreadOK, MayDie
    <2>3. /\ actionSet' = actionSet \ {h} /\ todo' = todo
          /\ IF h = InHand THEN UNCHANGED <<dying, pipe, file>> ELSE Close(h)
        BY <2>2 DEF EraseLru
    <2>4. h \in Acts
        BY <2>1, <2>2, <1>a, HeadIsForgotten DEF EraseLru
    <2> HIDE DEF h
    <2>5. CASE h = InHand
        BY <1>a, <1>c, <2>2, <2>3, <2>5 DEF OpenOK
    <2>6. CASE h # InHand
        <3>1. Close(h)
            BY <2>3, <2>6
        <3>2. /\ pipe' \in [Acts -> {"closed", "unread", "open"}]
              /\ file' \in [Acts -> [open : BOOLEAN, content : Seq(0..MaxProds), offset : Nat]]
              /\ \A b \in Acts : b # h => pipe'[b] = pipe[b] /\ file'[b] = file[b]
              /\ pipe'[h] = "closed" /\ file'[h].open = FALSE /\ dying' = h
            BY <1>a, <2>4, <3>1, ClosedIs
        <3>. QED BY <1>a, <1>c, <2>2, <2>3, <2>4, <3>2 DEF OpenOK
    <2>. QED BY <2>5, <2>6
<1>5. CASE Trimmed \/ GiveUp \/ Succeed
    <2>1. /\ UNCHANGED <<pipe, file, actionSet, todo, dying>> /\ pc' \in {"process", "drop"}
        BY <1>5 DEF Trimmed, GiveUp, Succeed, Fails, kept, output, procs
    <2>. QED BY <1>a, <1>c, <2>1, NothingIsOpened
<1>6. CASE Drop
    <2> DEFINE h == InHand
    <2>1. /\ pc' \in {"reap", "get"} /\ actionSet' = actionSet /\ h \in Acts
          /\ dying = NoAct
          /\ IF h \in actionSet THEN UNCHANGED <<dying, pipe, file>> ELSE Close(h)
        BY <1>6, <1>a, <1>b DEF Drop, HasAction, kept, ThreadOK, MayDie
    <2> HIDE DEF h
    <2>2. \A a \in Acts : pipe[a] # "closed" \/ file[a].open => a \in actionSet \/ a = h
        BY <1>a DEF OpenOK, h
    <2>3. CASE h \in actionSet
        BY <1>a, <2>1, <2>2, <2>3 DEF OpenOK
    <2>4. CASE h \notin actionSet
        <3>1. Close(h)
            BY <2>1, <2>4
        <3>2. /\ pipe' \in [Acts -> {"closed", "unread", "open"}]
              /\ file' \in [Acts -> [open : BOOLEAN, content : Seq(0..MaxProds), offset : Nat]]
              /\ \A b \in Acts : b # h => pipe'[b] = pipe[b] /\ file'[b] = file[b]
              /\ pipe'[h] = "closed" /\ file'[h].open = FALSE /\ dying' = h
            BY <1>a, <2>1, <3>1, ClosedIs
        <3>. QED BY <1>a, <2>1, <2>2, <3>2 DEF OpenOK
    <2>. QED BY <2>3, <2>4
<1>7. CASE ReapDone
    <2>1. UNCHANGED <<pipe, file, actionSet, todo, dying>> /\ pc' \in {"idle", "close"}
        BY <1>7 DEF ReapDone, kept, output
    <2>. QED BY <1>a, <1>c, <2>1, NothingIsOpened
<1>8. CASE CloseKept /\ actionQueue = <<>>
    <2>1. UNCHANGED <<pipe, file, actionSet, todo, dying>> /\ pc' = "destroyed"
        BY <1>8 DEF CloseKept
    <2>. QED BY <1>a, <1>c, <2>1, NothingIsOpened
<1>9. CASE CloseKept /\ actionQueue # <<>>
    <2> DEFINE h == Head(actionQueue)
    <2>1. /\ actionQueue' = Tail(actionQueue) /\ actionSet' = actionSet \ {h}
          /\ used' = used /\ todo' = todo /\ pc' = "close" /\ Close(h)
        BY <1>9 DEF CloseKept
    <2>2. h \in Acts
        BY <2>1, <1>9, <1>a, HeadIsForgotten
    <2> HIDE DEF h
    <2>3. /\ pipe' \in [Acts -> {"closed", "unread", "open"}]
          /\ file' \in [Acts -> [open : BOOLEAN, content : Seq(0..MaxProds), offset : Nat]]
          /\ \A b \in Acts : b # h => pipe'[b] = pipe[b] /\ file'[b] = file[b]
          /\ pipe'[h] = "closed" /\ file'[h].open = FALSE /\ dying' = h
        BY <1>a, <2>1, <2>2, ClosedIs
    <2>. QED BY <1>a, <1>c, <2>1, <2>2, <2>3 DEF OpenOK
<1>10. ASSUME NEW a \in Acts, Process(a) \/ ReapChild(a)
       PROVE  OpenOK'
    <2>1. CASE Refuse(a) \/ BreakPipe(a)
        <3>1. UNCHANGED <<pipe, file, actionSet, todo, dying>> /\ pc' \in {"refused", "killed"}
            BY <2>1 DEF Refuse, BreakPipe, kept, output, procs
        <3>. QED BY <1>a, <1>c, <3>1, NothingIsOpened
    <2>2. CASE ReusePipe(a)
        <3>1. /\ UNCHANGED <<pipe, file, actionSet, todo, dying>> /\ pc' = "write"
              /\ pipe[InHand] # "closed"
            BY <2>2 DEF ReusePipe, kept, output, procs
        <3>. QED BY <1>a, <1>c, <3>1, NothingIsOpened
    <2>3. CASE CreatePipe(a)
        <3>1. /\ UNCHANGED <<file, actionSet, todo, dying>> /\ dying = NoAct
              /\ pc' \in {"write", "refused"}
              /\ Kind[a] = "PIPE" /\ a = InHand
              /\ pipe' = [pipe EXCEPT ![a] = "open"] \/ pipe' = [pipe EXCEPT ![a] = "unread"]
            BY <2>3 DEF CreatePipe, kept, output
        <3>. QED BY <1>a, <1>c, <3>1 DEF OpenOK
    <2>4. CASE WritePipe(a) /\ a \in KeepOpen
        <3>1. UNCHANGED <<pipe, file, actionSet, todo, dying>> /\ pc' = "succeeded"
            BY <2>4 DEF WritePipe, kept
        <3>. QED BY <1>a, <1>c, <3>1, NothingIsOpened
    <2>5. CASE WritePipe(a) /\ a \notin KeepOpen
        <3>1. /\ UNCHANGED <<file, actionSet, todo, dying>>
              /\ pc = "write" /\ pc' = "wait" /\ a = InHand
              /\ pipe' = [pipe EXCEPT ![a] = "closed"]
            BY <2>5 DEF WritePipe, kept
        <3>2. Kind[a] = "PIPE" /\ dying = NoAct
            BY <1>a, <3>1 DEF OpenOK, ThreadOK, MayDie
        <3>. QED BY <1>a, <1>c, <3>1, <3>2 DEF OpenOK
    <2>6. CASE WaitForDecoder(a)
        <3>1. UNCHANGED <<pipe, file, actionSet, todo, dying>> /\ pc' \in {"drop", "succeeded"}
            BY <2>6 DEF WaitForDecoder, Fails, kept
        <3>. QED BY <1>a, <1>c, <3>1, NothingIsOpened
    <2>7. CASE Exec(a)
        <3>1. UNCHANGED <<pipe, file, actionSet, dying>> /\ pc' = "ended"
              /\ a = InHand /\ Kind[a] = "EXEC"
            BY <2>7 DEF Exec, kept, output
        <3>2. pipe[a] = "closed" /\ ~file[a].open
            <4>1. file[a].open \in BOOLEAN
                BY <1>a DEF OpenOK
            <4>. QED BY <1>a, <3>1, <4>1 DEF OpenOK
        <3>. QED BY <1>a, <3>1, <3>2, NothingIsOpened
    <2>8. CASE WriteFile(a)
        <3>1. /\ UNCHANGED <<pipe, actionSet, todo, dying>> /\ pc' \in {"drop", "succeeded"}
              /\ a = InHand /\ Kind[a] \in {"FILE", "APPEND"} /\ pc = "process"
            BY <2>8 DEF WriteFile, Fails, kept, procs
        <3>2. file' \in [Acts -> [open : BOOLEAN, content : Seq(0..MaxProds), offset : Nat]]
              /\ \A b \in Acts : b # a => file'[b] = file[b]
            BY <2>8, <1>a, WrittenIs DEF IInv
        <3>. QED BY <1>a, <1>c, <3>1, <3>2 DEF OpenOK
    <2>9. CASE ReapChild(a)
        <3>1. /\ UNCHANGED <<pipe, file, actionSet, todo, dying>>
              /\ pc' \in {"reap", "kill", "ended", "close"}
            BY <2>9 DEF ReapChild, kept, output
        <3>. QED BY <1>a, <1>c, <3>1, NothingIsOpened
    <2>. QED BY <1>10, <2>1, <2>2, <2>3, <2>4, <2>5, <2>6, <2>7, <2>8, <2>9 DEF Process
<1>11. ASSUME NEW a \in Acts, EndOfInput(a) \/ Crash(a)
       PROVE  OpenOK'
    <2>1. UNCHANGED <<pipe, file, actionSet, todo, dying, pc>>
        BY <1>11 DEF EndOfInput, Crash, thread, kept, output
    <2>. QED BY <1>a, <1>c, <2>1, NothingIsOpened DEF OpenOK
<1>. QED BY <1>1, <1>2, <1>3, <1>4, <1>5, <1>6, <1>7, <1>8, <1>9, <1>10, <1>11 DEF Next, Thread

(* What waiting for processes leaves: one of them, or none, is gone. An    *)
(* action whose pipe is closed waits for its own.                          *)
LEMMA ReapedIs ==
    ASSUME ChildrenOK, NEW d \in Acts, Reaped(Waited(d)),
           Kind[d] = "PIPE" \/ child[d] = "none"
    PROVE  /\ child' \in [Acts -> {"none", "running", "clone", "zombie"}]
           /\ \A b \in Acts : child'[b] = child[b] \/ child'[b] = "none"
           /\ child'[d] = "none"
<1>1. /\ child \in [Acts -> {"none", "running", "clone", "zombie"}]
      /\ Waited(d) \subseteq Acts
      /\ decoderPid[d] = "child" => Waited(d) = {d}
      /\ decoderPid[d] = "child" \/ child[d] = "none"
    BY DEF ChildrenOK, ChildOK, Waited
<1>2. CASE UNCHANGED child /\ \A b \in Waited(d) : child[b] = "none"
    BY <1>1, <1>2
<1>3. ASSUME NEW b \in Waited(d), child' = [child EXCEPT ![b] = "none"]
      PROVE  /\ child' \in [Acts -> {"none", "running", "clone", "zombie"}]
             /\ \A c \in Acts : child'[c] = child[c] \/ child'[c] = "none"
             /\ child'[d] = "none"
    BY <1>1, <1>3
<1>. QED BY <1>2, <1>3 DEF Reaped

(* A step that starts and ends no process.                                 *)
LEMMA NoProcessChanges ==
    ASSUME ChildrenOK, UNCHANGED <<decoderPid, child, childCmds>>,
           \A a \in Acts : pipe'[a] = pipe[a] \/ (pipe'[a] = "closed" /\ a = dying'),
           dying' = dying \/ dying = NoAct,
           pc \notin {"write", "wait", "killed"},
           pc \in {"ended", "kill"} => pc' \in {"ended", "kill"}
    PROVE  ChildrenOK'
<1>1. SUFFICES ASSUME NEW a \in Acts PROVE ChildOK(a)'
    BY DEF ChildrenOK
<1>2. ChildOK(a) /\ a # NoAct
    BY ActsAssumption DEF ChildrenOK
<1>. QED BY <1>2 DEF ChildOK

(* A process that the disposer doesn't know belongs to the action in hand. *)
LEMMA ChildrenStep == IInv /\ Next => ChildrenOK'
<1> SUFFICES ASSUME IInv, Next PROVE ChildrenOK'
    OBVIOUS
<1> USE ActsAssumption
<1>a. ThreadOK /\ KeptOK /\ RoomOK /\ OpenOK /\ ChildrenOK
    BY DEF IInv
<1>b. /\ pc \in HasAction => InHand \in Acts
      /\ pc \notin HasAction => InHand = NoAct
    BY <1>a, InHandIs
<1>c. todo' = todo => InHand' = InHand
    BY DEF InHand
<1>d. dying # NoAct => pc \in MayDie /\ dying \in Acts /\ pipe[dying] = "closed"
    BY <1>a DEF ThreadOK, OpenOK
<1>1. CASE Dispose \/ GetAction \/ Trimmed \/ GiveUp \/ Succeed
    <2>1. /\ UNCHANGED <<decoderPid, child, childCmds, pipe, dying>>
          /\ pc \in {"idle", "get", "trim", "refused", "succeeded"}
        BY <1>1 DEF Dispose, GetAction, Trimmed, GiveUp, Succeed, procs
    <2>. QED BY <1>a, <2>1, NoProcessChanges
<1>2. CASE Trim \/ Retry \/ CloseKept \/ Drop
    <2>1. /\ UNCHANGED <<decoderPid, child, childCmds>>
          /\ pc \in {"trim", "refused", "close", "drop"} /\ dying = NoAct
        BY <1>2, <1>d DEF Trim, Retry, CloseKept, Drop, EraseLru, MayDie
    <2>2. ASSUME NEW h \in Acts, Close(h)
          PROVE  ChildrenOK'
        <3>1. \A a \in Acts : pipe'[a] = pipe[a] \/ (pipe'[a] = "closed" /\ a = dying')
            BY <1>a, <2>2, ClosedIs
        <3>. QED BY <1>a, <2>1, <3>1, NoProcessChanges
    <2>3. CASE UNCHANGED <<pipe, dying>>
        BY <1>a, <2>1, <2>3, NoProcessChanges
    <2>4. CASE Trim \/ Retry
        <3>1. actionQueue # <<>>
            BY <2>4, <1>a, QueueIsThere DEF Trim, Retry
        <3>2. EraseLru
            BY <2>4 DEF Trim, Retry
        <3>3. Head(actionQueue) \in Acts
            BY <3>1, <3>2, <1>a, HeadIsForgotten DEF EraseLru
        <3>. QED BY <2>2, <2>3, <3>2, <3>3 DEF EraseLru
    <2>5. CASE CloseKept
        <3>1. actionQueue # <<>> => Head(actionQueue) \in Acts
            BY <1>a DEF KeptOK
        <3>. QED BY <2>2, <2>3, <2>5, <3>1 DEF CloseKept
    <2>6. CASE Drop
        BY <1>b, <2>2, <2>3, <2>6 DEF Drop, HasAction
    <2>. QED BY <1>2, <2>4, <2>5, <2>6
<1>3. CASE Destroyed
    <2> DEFINE d == dying
    <2>1. /\ d \in Acts /\ Reaped(Waited(d)) /\ pc \in MayDie
          /\ decoderPid' = [decoderPid EXCEPT ![d] = "none"]
          /\ dying' = NoAct /\ UNCHANGED <<pc, todo, pipe, childCmds>>
          /\ pipe[d] = "closed"
        BY <1>3, <1>d DEF Destroyed
    <2>2. Kind[d] = "PIPE" \/ child[d] = "none"
        BY <1>a, <2>1 DEF ChildrenOK, ChildOK, MayDie
    <2>3. /\ child' \in [Acts -> {"none", "running", "clone", "zombie"}]
          /\ \A b \in Acts : child'[b] = child[b] \/ child'[b] = "none"
          /\ child'[d] = "none"
        BY <1>a, <2>1, <2>2, ReapedIs
    <2>4. ASSUME NEW a \in Acts PROVE ChildOK(a)'
        <3>1. ChildOK(a)
            BY <1>a DEF ChildrenOK
        <3>2. CASE a = d
            BY <2>1, <2>3, <3>2 DEF ChildOK
        <3>3. CASE a # d
            <4>1. decoderPid'[a] = decoderPid[a]
                BY <1>a, <2>1, <3>3 DEF ChildrenOK
            <4>. QED BY <1>c, <2>1, <2>3, <3>1, <3>3, <4>1 DEF ChildOK, MayDie
        <3>. QED BY <3>2, <3>3
    <2>. QED BY <1>a, <2>1, <2>3, <2>4 DEF ChildrenOK
<1>4. CASE KillChildren
    <2>1. /\ UNCHANGED <<decoderPid, childCmds, pipe, dying, todo>> /\ pc \in {"idle", "ended"}
          /\ pc' = "kill" /\ InHand = NoAct
          /\ child' = [a \in Acts |-> IF a \in childCmds /\ Alive(a) THEN "zombie" ELSE child[a]]
        BY <1>4, <1>b DEF KillChildren, HasAction
    <2>2. /\ child' \in [Acts -> {"none", "running", "clone", "zombie"}]
          /\ \A a \in Acts : child'[a] # "none" <=> child[a] # "none"
        BY <1>a, <2>1 DEF ChildrenOK, Alive
    <2>3. ASSUME NEW a \in Acts PROVE ChildOK(a)'
        <3>1. ChildOK(a)
            BY <1>a DEF ChildrenOK
        <3>. QED BY <2>1, <2>2, <3>1 DEF ChildOK
    <2>. QED BY <1>a, <2>1, <2>2, <2>3 DEF ChildrenOK
<1>5. CASE ReapDone
    <2>1. /\ UNCHANGED <<decoderPid, child, pipe>> /\ childCmds' = {} /\ NoChildren
        BY <1>5 DEF ReapDone
    <2>. QED BY <1>a, <2>1 DEF ChildrenOK, ChildOK, NoChildren
<1>6. ASSUME NEW a \in Acts, Process(a)
      PROVE  ChildrenOK'
    <2>0. ChildOK(a)
        BY <1>a DEF ChildrenOK
    <2>1. CASE Refuse(a) \/ ReusePipe(a) \/ WriteFile(a)
        <3>1. UNCHANGED <<decoderPid, child, childCmds, pipe, dying>> /\ pc = "process"
            BY <2>1 DEF Refuse, ReusePipe, WriteFile, procs
        <3>. QED BY <1>a, <3>1, NoProcessChanges
    <2>2. CASE BreakPipe(a)
        <3>1. /\ UNCHANGED <<decoderPid, child, childCmds, pipe, dying, todo>>
              /\ pc = "write" /\ pc' = "killed"
            BY <2>2 DEF BreakPipe, procs
        <3>2. ASSUME NEW b \in Acts PROVE ChildOK(b)'
            <4>1. ChildOK(b)
                BY <1>a DEF ChildrenOK
            <4>. QED BY <1>c, <3>1, <4>1 DEF ChildOK
        <3>. QED BY <1>a, <3>1, <3>2 DEF ChildrenOK
    <2>3. CASE CreatePipe(a)
        <3>1. /\ UNCHANGED <<childCmds, dying, todo>> /\ dying = NoAct /\ a = InHand
              /\ pc = "process" /\ Kind[a] = "PIPE" /\ pipe[a] = "closed"
              /\ \/ /\ pipe' = [pipe EXCEPT ![a] = "open"]
                    /\ decoderPid' = [decoderPid EXCEPT ![a] = "child"]
                    /\ child' = [child EXCEPT ![a] = Forked(a)]
                    /\ pc' = "write"
                 \/ /\ pipe' = [pipe EXCEPT ![a] = "unread"]
                    /\ decoderPid' = [decoderPid EXCEPT ![a] = "lost"]
                    /\ pc' = "refused"
                    /\ UNCHANGED child
            BY <2>3 DEF CreatePipe
        <3>2. child[a] = "none"
            BY <2>0, <3>1 DEF ChildOK
        <3>3. Forked(a) \in {"clone", "running"}
            BY DEF Forked
        <3>4. /\ pipe \in [Acts -> {"closed", "unread", "open"}]
              /\ decoderPid \in [Acts -> {"none", "child", "lost"}]
              /\ child \in [Acts -> {"none", "running", "clone", "zombie"}]
            BY <1>a DEF ChildrenOK, OpenOK
        <3>5. /\ decoderPid' \in [Acts -> {"none", "child", "lost"}]
              /\ child' \in [Acts -> {"none", "running", "clone", "zombie"}]
              /\ \A b \in Acts : b # a => /\ pipe'[b] = pipe[b] /\ child'[b] = child[b]
                                          /\ decoderPid'[b] = decoderPid[b]
              /\ pipe'[a] # "closed"
              /\ child'[a] = "none" \/ decoderPid'[a] = "child"
              /\ child'[a] = "none" \/ pc' = "write"
              /\ pipe'[a] = "open" => decoderPid'[a] = "child"
            BY <3>1, <3>2, <3>3, <3>4
        <3>6. ASSUME NEW b \in Acts PROVE ChildOK(b)'
            <4>1. ChildOK(b)
                BY <1>a DEF ChildrenOK
            <4>2. CASE b = a
                BY <1>c, <3>1, <3>5, <4>2 DEF ChildOK
            <4>3. CASE b # a
                BY <1>c, <3>1, <3>5, <4>1, <4>3 DEF ChildOK
            <4>. QED BY <4>2, <4>3
        <3>. QED BY <1>a, <3>1, <3>5, <3>6 DEF ChildrenOK
    <2>4. CASE WritePipe(a)
        <3>1. /\ UNCHANGED <<decoderPid, child, dying, todo>> /\ pc = "write" /\ a = InHand
              /\ dying = NoAct
              /\ \/ childCmds' = childCmds \cup Waitable(a) /\ pc' = "succeeded" /\ pipe' = pipe
                 \/ childCmds' = childCmds /\ pc' = "wait" /\ pipe' = [pipe EXCEPT ![a] = "closed"]
            BY <2>4, <1>d DEF WritePipe, MayDie
        <3>2. Kind[a] = "PIPE" /\ pipe \in [Acts -> {"closed", "unread", "open"}]
            BY <1>a, <3>1 DEF OpenOK
        <3>3. /\ childCmds' \subseteq {b \in Acts : Kind[b] = "PIPE"}
              /\ childCmds \subseteq childCmds'
              /\ \A b \in Acts : b # a => pipe'[b] = pipe[b]
              /\ pc' = "succeeded" /\ decoderPid[a] = "child" => a \in childCmds'
              /\ pc' \in {"wait", "succeeded"}
              /\ pipe'[a] = pipe[a] \/ (pipe'[a] = "closed" /\ pc' = "wait")
            BY <1>a, <3>1, <3>2 DEF ChildrenOK, Waitable
        <3>4. ASSUME NEW b \in Acts PROVE ChildOK(b)'
            <4>1. ChildOK(b)
                BY <1>a DEF ChildrenOK
            <4>2. CASE b = a
                BY <1>c, <3>1, <3>3, <4>1, <4>2 DEF ChildOK
            <4>3. CASE b # a
                BY <1>c, <3>1, <3>3, <4>1, <4>3 DEF ChildOK
            <4>. QED BY <4>2, <4>3
        <3>. QED BY <1>a, <3>1, <3>3, <3>4 DEF ChildrenOK
    <2>5. CASE WaitForDecoder(a)
        <3>1. /\ UNCHANGED <<pipe, childCmds, dying, todo>> /\ pc = "wait" /\ a = InHand
              /\ dying = NoAct /\ Reaped(Waited(a)) /\ pc' \in {"drop", "succeeded"}
              /\ decoderPid' = decoderPid \/ decoderPid' = [decoderPid EXCEPT ![a] = "none"]
            BY <2>5, <1>d DEF WaitForDecoder, Fails, MayDie
        <3>2. Kind[a] = "PIPE" /\ pipe[a] = "closed"
            BY <1>a, <3>1 DEF OpenOK
        <3>3. /\ child' \in [Acts -> {"none", "running", "clone", "zombie"}]
              /\ \A b \in Acts : child'[b] = child[b] \/ child'[b] = "none"
              /\ child'[a] = "none"
            BY <1>a, <3>1, <3>2, ReapedIs
        <3>4. /\ decoderPid' \in [Acts -> {"none", "child", "lost"}]
              /\ \A b \in Acts : b # a => decoderPid'[b] = decoderPid[b]
            BY <1>a, <3>1 DEF ChildrenOK
        <3>5. ASSUME NEW b \in Acts PROVE ChildOK(b)'
            <4>1. ChildOK(b)
                BY <1>a DEF ChildrenOK
            <4>2. CASE b = a
                BY <3>1, <3>2, <3>3, <4>2 DEF ChildOK
            <4>3. CASE b # a
                BY <3>1, <3>3, <3>4, <4>1, <4>3 DEF ChildOK
            <4>. QED BY <4>2, <4>3
        <3>. QED BY <1>a, <3>1, <3>3, <3>4, <3>5 DEF ChildrenOK
    <2>6. CASE Exec(a)
        <3>1. /\ UNCHANGED <<pipe, decoderPid, childCmds, dying>> /\ pc = "process"
              /\ Kind[a] = "EXEC" /\ pc' = "ended"
              /\ child' = [child EXCEPT ![a] = Forked(a)]
            BY <2>6 DEF Exec
        <3>2. /\ child' \in [Acts -> {"none", "running", "clone", "zombie"}]
              /\ \A b \in Acts : b # a => child'[b] = child[b]
            BY <1>a, <3>1 DEF ChildrenOK, Forked
        <3>3. \A b \in Acts : Kind[b] = "EXEC" => child[b] = "none"
            BY <1>a, <3>1 DEF ChildrenOK, ChildOK
        <3>4. ASSUME NEW b \in Acts PROVE ChildOK(b)'
            <4>1. ChildOK(b)
                BY <1>a DEF ChildrenOK
            <4>2. CASE b = a
                BY <2>0, <3>1, <3>2, <3>3, <4>2 DEF ChildOK
            <4>3. CASE b # a
                BY <3>1, <3>2, <3>3, <4>1, <4>3 DEF ChildOK
            <4>. QED BY <4>2, <4>3
        <3>. QED BY <1>a, <3>1, <3>2, <3>4 DEF ChildrenOK
    <2>. QED BY <1>6, <2>1, <2>2, <2>3, <2>4, <2>5, <2>6 DEF Process
<1>7. ASSUME NEW a \in Acts, ReapChild(a)
      PROVE  ChildrenOK'
    <2>1. /\ UNCHANGED <<pipe, decoderPid, dying, todo>> /\ dying = NoAct
          /\ pc \in {"reap", "kill"}
          /\ child[a] = "zombie" /\ child' = [child EXCEPT ![a] = "none"]
          /\ childCmds' = childCmds \ {a}
          /\ pc' = IF a \in childCmds THEN pc ELSE IF pc = "reap" THEN "ended" ELSE "close"
        BY <1>7 DEF ReapChild
    <2>2. /\ child' \in [Acts -> {"none", "running", "clone", "zombie"}]
          /\ \A b \in Acts : b # a => child'[b] = child[b]
          /\ child'[a] = "none"
        BY <1>a, <2>1 DEF ChildrenOK
    <2>3. /\ pc' \in {"reap", "kill", "ended", "close"}
          /\ pc = "kill" /\ pc' # "kill" => a \notin childCmds
        BY <2>1
    <2>4. Kind[a] = "PIPE" => a \in childCmds
        BY <1>a, <2>1 DEF ChildrenOK, ChildOK
    <2>5. pc = "kill" /\ pc' # "kill" => \A b \in Acts : Kind[b] = "EXEC" /\ b # a => child[b] = "none"
        <3>1. SUFFICES ASSUME pc = "kill", pc' # "kill" 
                       PROVE  \A b \in Acts : Kind[b] = "EXEC" /\ b # a => child[b] = "none"
            OBVIOUS
        <3>2. Kind[a] = "EXEC"
            BY <1>a, <2>1, <2>3, <2>4, <3>1 DEF ChildrenOK, ChildOK
        <3>. QED BY <1>a, <2>1, <3>2 DEF ChildrenOK, ChildOK
    <2>6. ASSUME NEW b \in Acts PROVE ChildOK(b)'
        <3>1. ChildOK(b)
            BY <1>a DEF ChildrenOK
        <3>2. CASE b = a
            <4>1. pipe[b] = "open" => decoderPid[b] = "child"
                BY <3>1 DEF ChildOK
            <4>. QED BY <2>1, <2>2, <3>2, <4>1 DEF ChildOK
        <3>3. CASE b # a
            <4>1. CASE Kind[b] = "EXEC" /\ child'[b] # "none"
                <5>1. pc = "kill" /\ child[b] # "none" /\ pipe[b] # "open"
                    BY <1>a, <2>1, <2>2, <3>1, <3>3, <4>1 DEF ChildOK, OpenOK
                <5>2. pc' = "kill"
                    BY <2>5, <3>3, <4>1, <5>1
                <5>3. \A c \in Acts : Kind[c] = "EXEC" /\ child'[c] # "none" => b = c
                    BY <2>2, <3>1, <4>1, <5>1 DEF ChildOK
                <5>. QED BY <2>1, <4>1, <5>1, <5>2, <5>3 DEF ChildOK
            <4>2. CASE ~(Kind[b] = "EXEC" /\ child'[b] # "none")
                BY <2>1, <2>2, <3>1, <3>3, <4>2 DEF ChildOK
            <4>. QED BY <4>1, <4>2
        <3>. QED BY <3>2, <3>3
    <2>. QED BY <1>a, <2>1, <2>2, <2>6 DEF ChildrenOK
<1>8. ASSUME NEW a \in Acts, EndOfInput(a) \/ Crash(a)
      PROVE  ChildrenOK'
    <2>1. /\ UNCHANGED <<pc, todo, dying, pipe, decoderPid, childCmds>>
          /\ child[a] = "running" /\ child' = [child EXCEPT ![a] = "zombie"]
        BY <1>8 DEF EndOfInput, Crash, thread
    <2>2. /\ child' \in [Acts -> {"none", "running", "clone", "zombie"}]
          /\ \A b \in Acts : child'[b] # "none" <=> child[b] # "none"
        BY <1>a, <2>1 DEF ChildrenOK
    <2>3. ASSUME NEW b \in Acts PROVE ChildOK(b)'
        <3>1. ChildOK(b)
            BY <1>a DEF ChildrenOK
        <3>. QED BY <1>c, <2>1, <2>2, <3>1 DEF ChildOK
    <2>. QED BY <1>a, <2>1, <2>2, <2>3 DEF ChildrenOK
<1>. QED BY <1>1, <1>2, <1>3, <1>4, <1>5, <1>6, <1>7, <1>8 DEF Next, Thread

-----------------------------------------------------------------------------
(* Output files *)

(* The cells of a file are finitely many.                                  *)
LEMMA CellsAreFinite ==
    ASSUME NEW S, NEW s \in Seq(S), NEW k
    PROVE  /\ IsFiniteSet(Cells(s)) /\ Cardinality(Cells(s)) \in Nat
           /\ IsFiniteSet(CellsUpTo(s, k)) /\ Cardinality(CellsUpTo(s, k)) \in Nat
           /\ Cardinality(CellsUpTo(s, k)) <= Cardinality(Cells(s))
<1>1. IsFiniteSet(1 .. Len(s)) /\ Cells(s) \subseteq 1 .. Len(s) /\ CellsUpTo(s, k) \subseteq Cells(s)
    <2>1. Len(s) \in Int /\ DOMAIN s = 1 .. Len(s)
        OBVIOUS
    <2>. QED BY <2>1, FS_Interval DEF Cells, CellsUpTo
<1>2. IsFiniteSet(Cells(s))
    BY <1>1, FS_Subset
<1>. QED BY <1>1, <1>2, FS_Subset, FS_CardinalityType

(* A product that is written after the others is the last one that the     *)
(* file lists.                                                             *)
LEMMA ProductIsListed ==
    ASSUME NEW s \in Seq(0..MaxProds), NEW ps \in Seq(1..MaxProds), Lists(ps, s),
           NEW p \in 1..MaxProds
    PROVE  Lists(Append(ps, p), Append(s, p))
<1> DEFINE n == Len(s) + 1
           t == Append(s, p)
           qs == Append(ps, p)
           C == Cells(s)
           D == Cells(t)
<1>1. /\ Len(s) \in Nat /\ DOMAIN s = 1 .. Len(s) /\ t \in Seq(0..MaxProds)
      /\ DOMAIN t = 1 .. n /\ t[n] = p
      /\ \A k \in 1 .. Len(s) : t[k] = s[k]
    BY ActsAssumption
<1>2. /\ Len(ps) \in Nat /\ Len(qs) = Len(ps) + 1 /\ qs[Len(ps) + 1] = p
      /\ \A k \in 1 .. Len(ps) : qs[k] = ps[k]
    OBVIOUS
<1>3. Len(ps) = Cardinality(C) /\ \A k \in C : ps[Cardinality(CellsUpTo(s, k))] = s[k]
    BY DEF Lists
<1> HIDE DEF t, qs, n
<1>4. D = C \cup {n} /\ n \notin C /\ C \subseteq 1 .. Len(s) /\ p # Hole
    BY <1>1 DEF Cells, Hole, n
<1>5. \A k \in C : CellsUpTo(t, k) = CellsUpTo(s, k)
    BY <1>1, <1>4 DEF CellsUpTo, n
<1>6. CellsUpTo(t, n) = D
    BY <1>1, <1>4 DEF CellsUpTo, n
<1> HIDE DEF C, D
<1>7. Cardinality(D) = Cardinality(C) + 1
    <2>1. IsFiniteSet(C)
        BY CellsAreFinite DEF C
    <2>. QED BY <1>4, <2>1, FS_AddElement
<1>8. Len(qs) = Cardinality(D)
    BY <1>2, <1>3, <1>7
<1>9. ASSUME NEW k \in D
      PROVE  qs[Cardinality(CellsUpTo(t, k))] = t[k]
    <2>1. CASE k = n
        <3>1. Cardinality(CellsUpTo(t, k)) = Len(ps) + 1
            BY <1>2, <1>6, <1>8, <2>1
        <3>2. t[k] = p
            BY <1>1, <2>1
        <3>. QED BY <1>2, <3>1, <3>2
    <2>2. CASE k \in C
        <3> DEFINE m == Cardinality(CellsUpTo(s, k))
        <3>1. CellsUpTo(t, k) = CellsUpTo(s, k)
            BY <1>5, <2>2
        <3>2. /\ IsFiniteSet(CellsUpTo(s, k)) /\ m \in Nat /\ m <= Cardinality(C)
            BY CellsAreFinite DEF C
        <3>3. k \in CellsUpTo(s, k)
            BY <1>1, <1>4, <2>2 DEF CellsUpTo, C
        <3>4. m # 0
            BY <3>2, <3>3, FS_EmptySet
        <3>5. ps[m] = s[k] /\ t[k] = s[k]
            BY <1>1, <1>3, <1>4, <2>2
        <3> HIDE DEF m
        <3>6. m \in 1 .. Len(ps)
            BY <1>2, <1>3, <3>2, <3>4
        <3>7. qs[m] = t[k]
            BY <1>2, <3>5, <3>6
        <3>. QED BY <3>1, <3>7 DEF m
    <2>. QED BY <1>4, <2>1, <2>2
<1>. QED BY <1>8, <1>9 DEF Lists, D, t, qs

(* A hole changes nothing of what the file lists.                          *)
LEMMA HoleIsNotListed ==
    ASSUME NEW s \in Seq(0..MaxProds), NEW ps, Lists(ps, s)
    PROVE  Lists(ps, Append(s, Hole))
<1> DEFINE t == Append(s, Hole)
<1>1. /\ Len(s) \in Nat /\ DOMAIN s = 1 .. Len(s)
      /\ DOMAIN t = 1 .. Len(s) + 1 /\ t[Len(s) + 1] = Hole
      /\ \A k \in 1 .. Len(s) : t[k] = s[k]
    BY ActsAssumption DEF Hole
<1> HIDE DEF t
<1>2. Cells(t) = Cells(s)
    BY <1>1 DEF Cells
<1>3. \A k : CellsUpTo(t, k) = CellsUpTo(s, k)
    BY <1>2 DEF CellsUpTo
<1>4. \A k \in Cells(s) : t[k] = s[k]
    BY <1>1 DEF Cells
<1>5. Lists(ps, t)
    BY <1>2, <1>3, <1>4 DEF Lists
<1>. QED BY <1>5 DEF t

(* A step that writes to no file.                                          *)
LEMMA NoFileChanges ==
    ASSUME FilesOK, ThreadOK, ThreadOK',
           \A a \in Acts : file'[a].content = file[a].content,
           \/ executed' = executed
           \/ /\ pc \in HasAction
              /\ \E a \in Acts : /\ Kind[a] = "PIPE"
                                 /\ executed' = [executed EXCEPT ![a] = Append(@, prod)]
    PROVE  FilesOK'
<1>1. CASE executed' = executed
    BY <1>1 DEF FilesOK, OutputIsExecuted
<1>2. ASSUME pc \in HasAction, NEW a \in Acts, Kind[a] = "PIPE",
             executed' = [executed EXCEPT ![a] = Append(@, prod)]
      PROVE  FilesOK'
    <2>1. prod \in 1..MaxProds
        BY <1>2, ActsAssumption DEF ThreadOK
    <2>2. executed \in [Acts -> Seq(1..MaxProds)]
        BY DEF FilesOK
    <2>3. Append(executed[a], prod) \in Seq(1..MaxProds)
        BY <2>1, <2>2
    <2>4. /\ executed' \in [Acts -> Seq(1..MaxProds)]
          /\ \A b \in Acts : b # a => executed'[b] = executed[b]
        BY <1>2, <2>2, <2>3
    <2>. QED BY <1>2, <2>4 DEF FilesOK, OutputIsExecuted
<1>. QED BY <1>1, <1>2

(* A file holds what its action was executed on.                           *)
LEMMA FilesStep == IInv /\ Next => FilesOK'
<1> SUFFICES ASSUME IInv, Next PROVE FilesOK'
    OBVIOUS
<1> USE ActsAssumption
<1>a. ThreadOK /\ KeptOK /\ RoomOK /\ OpenOK /\ FilesOK /\ ThreadOK'
    BY ThreadStep DEF IInv
<1>b. /\ pc \in HasAction => InHand \in Acts
      /\ pc \notin HasAction => InHand = NoAct
    BY <1>a, InHandIs
<1>1. CASE Dispose \/ KillChildren \/ Destroyed \/ GetAction \/ Trimmed \/ GiveUp \/ Succeed
           \/ ReapDone
    <2>1. UNCHANGED <<file, executed>>
        BY <1>1 DEF Dispose, KillChildren, Destroyed, GetAction, Trimmed, GiveUp, Succeed,
                    ReapDone, output
    <2>. QED BY <1>a, <2>1, NoFileChanges
<1>2. CASE Trim \/ Retry \/ CloseKept \/ Drop
    <2>1. executed' = executed
        BY <1>2 DEF Trim, Retry, CloseKept, Drop, EraseLru
    <2>2. ASSUME NEW h \in Acts, Close(h)
          PROVE  FilesOK'
        <3>1. \A a \in Acts : file'[a].content = file[a].content
            BY <1>a, <2>2, ClosedIs
        <3>. QED BY <1>a, <2>1, <3>1, NoFileChanges
    <2>3. CASE UNCHANGED file
        BY <1>a, <2>1, <2>3, NoFileChanges
    <2>4. CASE Trim \/ Retry
        <3>1. actionQueue # <<>>
            BY <2>4, <1>a, QueueIsThere DEF Trim, Retry
        <3>2. EraseLru
            BY <2>4 DEF Trim, Retry
        <3>3. Head(actionQueue) \in Acts
            BY <3>1, <3>2, <1>a, HeadIsForgotten DEF EraseLru
        <3>. QED BY <2>2, <2>3, <3>2, <3>3 DEF EraseLru
    <2>5. CASE CloseKept
        <3>1. actionQueue # <<>> => Head(actionQueue) \in Acts
            BY <1>a DEF KeptOK
        <3>. QED BY <2>2, <2>3, <2>5, <3>1 DEF CloseKept
    <2>6. CASE Drop
        BY <1>b, <2>2, <2>3, <2>6 DEF Drop, HasAction
    <2>. QED BY <1>2, <2>4, <2>5, <2>6
<1>3. ASSUME NEW a \in Acts, Process(a) \/ ReapChild(a)
      PROVE  FilesOK'
    <2>1. CASE Refuse(a) \/ CreatePipe(a) \/ ReusePipe(a) \/ BreakPipe(a) \/ Exec(a) \/ ReapChild(a)
        <3>1. UNCHANGED <<file, executed>>
            BY <2>1 DEF Refuse, CreatePipe, ReusePipe, BreakPipe, Exec, ReapChild, output
        <3>. QED BY <1>a, <3>1, NoFileChanges
    <2>2. CASE WritePipe(a) \/ WaitForDecoder(a)
        <3>1. /\ file' = file /\ pc \in HasAction
              /\ \/ executed' = executed
                 \/ executed' = [executed EXCEPT ![a] = Append(@, prod)]
            BY <2>2 DEF WritePipe, WaitForDecoder, HasAction
        <3>2. Kind[a] = "PIPE"
            BY <2>2, <1>a DEF WritePipe, WaitForDecoder, OpenOK
        <3>. QED BY <1>a, <3>1, <3>2, NoFileChanges
    <2>3. CASE WriteFile(a)
        <3> DEFINE s == Padded(Content(a), Offset(a))
        <3>1. /\ Kind[a] \in {"FILE", "APPEND"} /\ pc \in HasAction
            BY <2>3 DEF WriteFile, HasAction
        <3>2. prod \in 1..MaxProds
            BY <1>a, <3>1 DEF ThreadOK
        <3>3. /\ \A b \in Acts : b # a => file'[b] = file[b]
              /\ \/ /\ file'[a].content = Append(s, prod)
                    /\ executed' = [executed EXCEPT ![a] = Append(@, prod)]
                 \/ /\ file'[a].content = Append(s, Hole)
                    /\ executed' = executed
            BY <1>a, <2>3, WrittenIs
        <3>4. /\ s \in Seq(0..MaxProds)
              /\ Kind[a] = "APPEND" => s = file[a].content
              /\ Kind[a] = "FILE" => \A i \in 1..Len(s) : s[i] = Hole
            BY <1>a, <3>1, PaddedIs
        <3> HIDE DEF s
        <3>5. /\ executed \in [Acts -> Seq(1..MaxProds)]
              /\ executed[a] \in Seq(1..MaxProds) /\ Append(executed[a], prod) \in Seq(1..MaxProds)
            BY <1>a, <3>2 DEF FilesOK
        <3>6. /\ executed' \in [Acts -> Seq(1..MaxProds)]
              /\ \A b \in Acts : b # a => executed'[b] = executed[b]
              /\ \/ /\ file'[a].content = Append(s, prod)
                    /\ executed'[a] = Append(executed[a], prod)
                 \/ /\ file'[a].content = Append(s, Hole)
                    /\ executed'[a] = executed[a]
            BY <3>3, <3>5
        <3>7. Kind[a] = "APPEND" => Lists(executed'[a], file'[a].content)
            <4>1. SUFFICES ASSUME Kind[a] = "APPEND"
                           PROVE  Lists(executed'[a], file'[a].content)
                OBVIOUS
            <4>2. Lists(executed[a], s)
                BY <1>a, <3>4, <4>1 DEF FilesOK, OutputIsExecuted
            <4>3. /\ Lists(Append(executed[a], prod), Append(s, prod))
                  /\ Lists(executed[a], Append(s, Hole))
                BY <3>2, <3>4, <3>5, <4>2, ProductIsListed, HoleIsNotListed
            <4>. QED BY <3>6, <4>3
        <3>8. Kind[a] = "FILE" /\ executed'[a] # <<>> =>
                ToSet(file'[a].content) \subseteq {Hole, Last(executed'[a])}
            <4>1. SUFFICES ASSUME Kind[a] = "FILE"
                           PROVE  ToSet(file'[a].content) \subseteq {Hole, Last(executed'[a])}
                OBVIOUS
            <4>2. ASSUME NEW c \in 0..MaxProds
                  PROVE  ToSet(Append(s, c)) \subseteq {Hole, c}
                <5>1. \A i \in 1 .. Len(s) : s[i] = Hole
                    BY <3>4, <4>1
                <5>2. /\ Len(s) \in Nat /\ DOMAIN Append(s, c) = 1 .. Len(s) + 1
                      /\ \A i \in 1 .. Len(s) : Append(s, c)[i] = s[i]
                      /\ Append(s, c)[Len(s) + 1] = c
                    BY <3>4
                <5>. QED BY <5>1, <5>2 DEF ToSet
            <4>3. Last(Append(executed[a], prod)) = prod
                BY <3>2, <3>5 DEF Last
            <4>4. Hole \in 0..MaxProds /\ prod \in 0..MaxProds
                BY <3>2 DEF Hole
            <4>. QED BY <3>6, <4>2, <4>3, <4>4
        <3>. QED BY <1>a, <3>3, <3>6, <3>7, <3>8 DEF FilesOK, OutputIsExecuted
    <2>. QED BY <1>3, <2>1, <2>2, <2>3 DEF Process
<1>4. ASSUME NEW a \in Acts, EndOfInput(a) \/ Crash(a)
      PROVE  FilesOK'
    <2>1. UNCHANGED <<file, executed>>
        BY <1>4 DEF EndOfInput, Crash, output
    <2>. QED BY <1>a, <2>1, NoFileChanges
<1>. QED BY <1>1, <1>2, <1>3, <1>4 DEF Next, Thread

-----------------------------------------------------------------------------
(* Theorems *)

LEMMA InvariantStep == IInv /\ [Next]_vars => IInv'
<1> SUFFICES ASSUME IInv, [Next]_vars PROVE IInv'
    OBVIOUS
<1>1. CASE Next
    BY <1>1, ThreadStep, KeptStep, RoomStep, OpenStep, ChildrenStep, FilesStep DEF IInv
<1>2. CASE UNCHANGED vars
    <2>1. UNCHANGED <<pc, prod, todo, dying, actionSet, actionQueue, childCmds, lastProcessed,
                      pipe, decoderPid, child, file, used, executed>>
        BY <1>2 DEF vars, thread, kept, output, procs
    <2>2. ThreadOK' /\ KeptOK'
        BY <2>1 DEF IInv, ThreadOK, KeptOK
    <2>3. RoomOK' /\ OpenOK'
        BY <2>1 DEF IInv, RoomOK, OpenOK, InHand
    <2>4. ChildrenOK'
        BY <2>1 DEF IInv, ChildrenOK, ChildOK, InHand
    <2>5. FilesOK'
        BY <2>1 DEF IInv, FilesOK, OutputIsExecuted
    <2>. QED BY <2>2, <2>3, <2>4, <2>5 DEF IInv
<1>. QED BY <1>1, <1>2

THEOREM Invariance == Spec => []IInv
<1>1. Init => IInv
    BY InitInv
<1>2. IInv /\ [Next]_vars => IInv'
    BY InvariantStep
<1>. QED BY <1>1, <1>2, PTL DEF Spec

(* Every variable has its type, an open pipe has a decoder, and a decoder  *)
(* that ends doesn't outlive the action that started it.                   *)
THEOREM TypeCorrect == Spec => []TypeOK
<1>1. IInv => TypeOK
    <2> SUFFICES ASSUME IInv PROVE TypeOK
        OBVIOUS
    <2>1. actionSet \subseteq KeepOpen
        BY DEF IInv, KeptOK, Range
    <2>2. \A a \in Acts : file[a].content \in Seq(0..MaxProds) /\ executed[a] \in Seq(1..MaxProds)
        BY DEF IInv, OpenOK, FilesOK
    <2>3. \A a \in Acts : /\ pipe[a] = "open" => decoderPid[a] = "child"
                          /\ Kind[a] = "PIPE" /\ decoderPid[a] = "none" => child[a] = "none"
        BY DEF IInv, ChildrenOK, ChildOK
    <2>. QED BY <2>1, <2>2, <2>3 DEF IInv, ThreadOK, KeptOK, OpenOK, ChildrenOK, TypeOK, HasAction
<1>. QED BY <1>1, Invariance, PTL

(* getAction() and eraseLru() keep the set and the queue of persistent     *)
(* actions the same, with what was used last, and maxPersistent bounds     *)
(* what is open; reap() never meets a process that it doesn't know and     *)
(* none of them is left at the end.                                        *)
LEMMA KeptAreRecent == IInv => KeepsMostRecent
<1> SUFFICES ASSUME IInv PROVE KeepsMostRecent
    OBVIOUS
<1>a. ThreadOK /\ KeptOK /\ RoomOK /\ OpenOK /\ MaxKeepOpen \in Nat
    BY ActsAssumption DEF IInv
<1>b. /\ pc \in HasAction => InHand \in Acts
      /\ pc \notin HasAction => InHand = NoAct
    BY <1>a, InHandIs
<1>1. actionSet = ToSet(actionQueue)
    BY <1>a DEF KeptOK, Range, ToSet
<1>2. \E i \in 0..Len(used) : actionQueue = SubSeq(used, i + 1, Len(used))
    BY <1>a, SuffixIsSubSeq DEF KeptOK
<1> DEFINE open == {a \in Acts : pipe[a] # "closed" \/ file[a].open}
           n == Cardinality(actionSet)
<1>3. open \subseteq actionSet \cup {InHand}
    BY <1>a DEF OpenOK
<1>4. pc = "idle" => open \subseteq actionSet
    BY <1>3, <1>b, ActsAssumption DEF HasAction
<1>5. /\ IsFiniteSet(actionSet) /\ n \in Nat
      /\ n <= MaxKeepOpen \/ (n <= MaxKeepOpen + 1 /\ InHand \in actionSet)
    <2>1. IsFiniteSet(actionSet) /\ n \in Nat
        BY <1>a, FS_CardinalityType DEF RoomOK
    <2>. QED BY <1>a, <2>1 DEF RoomOK
<1> HIDE DEF n, open
<1>6. /\ IsFiniteSet(actionSet \cup {InHand})
      /\ Cardinality(actionSet \cup {InHand}) \in Nat
      /\ Cardinality(actionSet \cup {InHand}) <= MaxKeepOpen + 1
    <2>1. /\ IsFiniteSet(actionSet \cup {InHand})
          /\ Cardinality(actionSet \cup {InHand}) = n \/ Cardinality(actionSet \cup {InHand}) = n + 1
          /\ InHand \in actionSet => Cardinality(actionSet \cup {InHand}) = n
        BY <1>5, FS_AddElement DEF n
    <2>. QED BY <1>a, <1>5, <2>1
<1>7. Cardinality(open) <= MaxKeepOpen + 1
    <2>1. /\ IsFiniteSet(open) /\ Cardinality(open) \in Nat
          /\ Cardinality(open) <= Cardinality(actionSet \cup {InHand})
        BY <1>3, <1>6, FS_Subset, FS_CardinalityType
    <2>. QED BY <1>a, <1>6, <2>1
<1>. QED BY <1>1, <1>2, <1>4, <1>7 DEF KeepsMostRecent, open

LEMMA KnownChildren == IInv => ChildrenAreKnown
<1> SUFFICES ASSUME IInv PROVE ChildrenAreKnown
    OBVIOUS
<1>a. ThreadOK /\ KeptOK /\ OpenOK /\ ChildrenOK
    BY DEF IInv
<1>b. pc \notin HasAction => InHand = NoAct
    BY <1>a, InHandIs
<1>1. ASSUME NEW a \in Acts, child[a] # "none", pc \in {"reap", "destroyed"}
      PROVE  Kind[a] = "PIPE" /\ a \in childCmds
    <2>1. ChildOK(a) /\ Kind[a] \in {"PIPE", "EXEC", "FILE", "APPEND"}
        BY <1>a, ActsAssumption DEF ChildrenOK
    <2>. QED BY <1>1, <2>1 DEF ChildOK
<1>2. pc = "destroyed" => NoChildren
    <2>1. SUFFICES ASSUME pc = "destroyed", NEW a \in Acts, child[a] # "none" PROVE FALSE
        BY DEF NoChildren
    <2>2. actionSet = {}
        BY <1>a, <2>1 DEF KeptOK, Range
    <2>3. InHand = NoAct /\ dying = NoAct
        BY <1>a, <1>b, <2>1 DEF HasAction, ThreadOK, MayDie
    <2>4. pipe[a] = "closed" /\ a # NoAct
        BY <1>a, <2>2, <2>3, ActsAssumption DEF OpenOK
    <2>. QED BY <1>a, <1>1, <2>1, <2>3, <2>4 DEF ChildrenOK, ChildOK
<1>. QED BY <1>1, <1>2 DEF ChildrenAreKnown

THEOREM DecodersAreTrackedHolds == Spec => []DecodersAreTracked
<1>1. IInv => DecodersAreTracked
    BY KeptAreRecent, KnownChildren DEF DecodersAreTracked
<1>. QED BY <1>1, Invariance, PTL

(* A file that products are appended to holds those that its action        *)
(* succeeded for, in their order, and one that is overwritten nothing of   *)
(* an earlier product, whatever was written in part (WriteFile).           *)
THEOREM OutputIsExecutedHolds == Spec => []OutputIsExecuted
<1>1. IInv => OutputIsExecuted
    BY DEF IInv, FilesOK
<1>. QED BY <1>1, Invariance, PTL

(* Disposer::Impl::reap() never throws its logic error: dispose() ends its *)
(* thread only by an EXEC action.                                          *)
ReapNeverThrows == [][pc = "reap" => pc' # "ended"]_vars
THEOREM ReapNeverThrowsHolds == Spec => ReapNeverThrows
<1>1. IInv /\ [Next]_vars => [pc = "reap" => pc' # "ended"]_vars
    <2> SUFFICES ASSUME IInv, Next, pc = "reap", pc' = "ended" PROVE FALSE
        BY DEF vars, thread
    <2>1. PICK a \in Acts : ReapChild(a)
        <3>1. ~Dispose /\ ~KillChildren /\ ~Destroyed /\ ~GetAction /\ ~Trim /\ ~Trimmed
            BY DEF Dispose, KillChildren, Destroyed, GetAction, Trim, Trimmed
        <3>2. ~Retry /\ ~GiveUp /\ ~Succeed /\ ~Drop /\ ~ReapDone /\ ~CloseKept
            BY DEF Retry, GiveUp, Succeed, Drop, ReapDone, CloseKept
        <3>3. \A a \in Acts : ~EndOfInput(a) /\ ~Crash(a)
            BY DEF EndOfInput, Crash, thread
        <3>4. \A a \in Acts : ~Process(a)
            BY DEF Process, Refuse, CreatePipe, ReusePipe, WritePipe, BreakPipe, WaitForDecoder,
                   Exec, WriteFile
        <3>. QED BY <3>1, <3>2, <3>3, <3>4 DEF Next, Thread
    <2>2. child[a] # "none" /\ dying = NoAct /\ a \notin childCmds
        BY <2>1 DEF ReapChild
    <2>. QED BY <2>2, KnownChildren DEF ChildrenAreKnown
<1>. QED BY <1>1, Invariance, PTL DEF Spec, ReapNeverThrows

=============================================================================
