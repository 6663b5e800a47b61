----------------------------- MODULE SeqLemmas -----------------------------
(***************************************************************************)
(* Facts about sequences without repetitions, which is what the queues of  *)
(* requests, the lists of alternative peers and the queue of open products *)
(* are.                                                                    *)
(***************************************************************************)
EXTENDS Integers, Sequences, Functions, SequenceTheorems, TLAPS

(* Appending a new element to a sequence adds it to the range, keeps the   *)
(* front and repeats nothing.                                              *)
LEMMA AppendNew ==
    ASSUME NEW S, NEW s \in Seq(S), NEW e \in S
    PROVE  /\ Append(s, e) \in Seq(S)
           /\ Append(s, e) # <<>>
           /\ Range(Append(s, e)) = Range(s) \cup {e}
           /\ s # <<>> => Head(Append(s, e)) = Head(s)
           /\ s = <<>> => Head(Append(s, e)) = e
           /\ IsInjective(s) /\ e \notin Range(s) => IsInjective(Append(s, e))
<1> DEFINE t == Append(s, e)
<1>1. /\ t \in Seq(S) /\ Len(t) = Len(s) + 1 /\ t # <<>>
      /\ DOMAIN s = 1 .. Len(s) /\ DOMAIN t = 1 .. Len(s) + 1
      /\ \A i \in 1 .. Len(s) : t[i] = s[i]
      /\ t[Len(s) + 1] = e
      /\ Len(s) \in Nat
    OBVIOUS
<1>2. Range(t) = Range(s) \cup {e}
    BY <1>1 DEF Range
<1>3. s # <<>> => Head(t) = Head(s)
    <2>1. SUFFICES ASSUME s # <<>> PROVE Head(t) = Head(s)
        OBVIOUS
    <2>2. Len(s) >= 1
        BY <2>1
    <2>. QED BY <1>1, <2>2
<1>4. s = <<>> => Head(t) = e
    BY <1>1
<1>5. IsInjective(s) /\ e \notin Range(s) => IsInjective(t)
    BY <1>1 DEF Range, IsInjective
<1>. QED BY <1>1, <1>2, <1>3, <1>4, <1>5

(* Without its front, a sequence without repetitions has every other      *)
(* element, and repeats nothing.                                           *)
LEMMA TailWithout ==
    ASSUME NEW S, NEW s \in Seq(S), s # <<>>
    PROVE  /\ Tail(s) \in Seq(S)
           /\ Head(s) \in S
           /\ Head(s) \in Range(s)
           /\ Range(Tail(s)) \subseteq Range(s)
           /\ Range(s) \ {Head(s)} \subseteq Range(Tail(s))
           /\ IsInjective(s) => /\ IsInjective(Tail(s))
                                /\ Range(Tail(s)) = Range(s) \ {Head(s)}
<1> DEFINE t == Tail(s)
<1>1. /\ t \in Seq(S) /\ Len(s) \in Nat \ {0} /\ Len(t) = Len(s) - 1
      /\ DOMAIN s = 1 .. Len(s) /\ DOMAIN t = 1 .. Len(s) - 1
      /\ \A i \in 1 .. Len(s) - 1 : t[i] = s[i + 1]
      /\ Head(s) = s[1] /\ s[1] \in S
    OBVIOUS
<1>2. Head(s) \in Range(s)
    BY <1>1 DEF Range
<1>3. Range(t) \subseteq Range(s)
    BY <1>1 DEF Range
<1>4. Range(s) \ {Head(s)} \subseteq Range(t)
    <2>1. SUFFICES ASSUME NEW i \in 1 .. Len(s), s[i] # s[1]
                   PROVE  s[i] \in Range(t)
        BY <1>1 DEF Range
    <2>2. i - 1 \in DOMAIN t /\ t[i - 1] = s[i]
        BY <1>1, <2>1
    <2>. QED BY <2>2 DEF Range
<1>5. ASSUME IsInjective(s)
      PROVE  IsInjective(t) /\ Head(s) \notin Range(t)
    BY <1>1, <1>5 DEF IsInjective, Range
<1>. QED BY <1>1, <1>2, <1>3, <1>4, <1>5

(* Without its k-th element, a sequence has every other element, in their  *)
(* order.                                                                  *)
LEMMA WithoutPlace ==
    ASSUME NEW S, NEW s \in Seq(S), NEW k \in 1 .. Len(s)
    PROVE  LET t == SubSeq(s, 1, k - 1) \o SubSeq(s, k + 1, Len(s))
           IN  /\ t \in Seq(S)
               /\ Len(t) = Len(s) - 1
               /\ \A i \in 1 .. Len(s) - 1 : t[i] = IF i < k THEN s[i] ELSE s[i + 1]
<1> DEFINE u == SubSeq(s, 1, k - 1)
           v == SubSeq(s, k + 1, Len(s))
           t == u \o v
<1>1. Len(s) \in Nat /\ k \in Nat /\ k >= 1 /\ k <= Len(s) /\ DOMAIN s = 1 .. Len(s)
    OBVIOUS
<1>2. /\ u \in Seq(S) /\ Len(u) = k - 1
      /\ \A i \in 1 .. k - 1 : u[i] = s[i]
    <2>1. \A i \in 1 .. k - 1 : s[i] \in S
        BY <1>1
    <2>2. /\ u \in Seq(S)
          /\ Len(u) = IF 1 <= k - 1 THEN (k - 1) - 1 + 1 ELSE 0
          /\ \A i \in 1 .. (k - 1) - 1 + 1 : u[i] = s[1 + i - 1]
        BY <1>1, <2>1, SubSeqProperties
    <2>. HIDE DEF u
    <2>. QED BY <1>1, <2>2
<1>3. /\ v \in Seq(S) /\ Len(v) = Len(s) - k
      /\ \A i \in 1 .. Len(s) - k : v[i] = s[k + i]
    <2>1. \A i \in k + 1 .. Len(s) : s[i] \in S
        BY <1>1
    <2>2. /\ v \in Seq(S)
          /\ Len(v) = IF k + 1 <= Len(s) THEN Len(s) - (k + 1) + 1 ELSE 0
          /\ \A i \in 1 .. Len(s) - (k + 1) + 1 : v[i] = s[k + 1 + i - 1]
        BY <1>1, <2>1, SubSeqProperties
    <2>. HIDE DEF v
    <2>3. Len(v) = Len(s) - k
        <3>1. CASE k + 1 <= Len(s)
            <4>1. Len(v) = Len(s) - (k + 1) + 1
                BY <2>2, <3>1
            <4>. QED BY <1>1, <4>1
        <3>2. CASE ~(k + 1 <= Len(s))
            <4>1. Len(v) = 0
                BY <2>2, <3>2
            <4>2. \A m, n \in Nat : m <= n /\ ~(m + 1 <= n) => m = n
                OBVIOUS
            <4>3. k = Len(s)
                BY <1>1, <3>2, <4>2
            <4>. QED BY <1>1, <4>1, <4>3
        <3>. QED BY <3>1, <3>2
    <2>4. ASSUME NEW i \in 1 .. Len(s) - k
          PROVE  v[i] = s[k + i]
        <3>1. i \in 1 .. Len(s) - (k + 1) + 1 /\ k + 1 + i - 1 = k + i
            BY <1>1
        <3>. QED BY <2>2, <3>1
    <2>. QED BY <2>2, <2>3, <2>4
<1>4. /\ t \in Seq(S) /\ Len(t) = Len(s) - 1 /\ DOMAIN t = 1 .. Len(s) - 1
      /\ \A i \in 1 .. Len(s) - 1 :
            t[i] = IF i <= k - 1 THEN u[i] ELSE v[i - (k - 1)]
    <2>. HIDE DEF u, v
    <2>1. /\ t \in Seq(S) /\ Len(t) = Len(u) + Len(v)
          /\ \A i \in 1 .. Len(u) + Len(v) :
                t[i] = IF i <= Len(u) THEN u[i] ELSE v[i - Len(u)]
        BY <1>2, <1>3, ConcatProperties
    <2>2. DOMAIN t = 1 .. Len(t)
        BY <2>1
    <2>. HIDE DEF t
    <2>. QED BY <1>1, <1>2, <1>3, <2>1, <2>2
<1> HIDE DEF t, u, v
<1>5. \A i \in 1 .. Len(s) - 1 : t[i] = IF i < k THEN s[i] ELSE s[i + 1]
    <2>1. SUFFICES ASSUME NEW i \in 1 .. Len(s) - 1
                   PROVE  t[i] = IF i < k THEN s[i] ELSE s[i + 1]
        OBVIOUS
    <2>2. CASE i < k
        BY <1>1, <1>2, <1>4, <2>2
    <2>3. CASE ~(i < k)
        <3>1. i - (k - 1) \in 1 .. Len(s) - k /\ k + (i - (k - 1)) = i + 1
            BY <1>1, <2>3
        <3>2. v[i - (k - 1)] = s[i + 1]
            BY <1>3, <3>1
        <3>. QED BY <1>1, <1>4, <2>3, <3>2
    <2>. QED BY <2>2, <2>3
<1>. QED BY <1>4, <1>5 DEF t, u, v

(* If it repeats nothing, neither does the rest.                           *)
LEMMA WithoutElement ==
    ASSUME NEW S, NEW s \in Seq(S), IsInjective(s), NEW k \in 1 .. Len(s)
    PROVE  LET t == SubSeq(s, 1, k - 1) \o SubSeq(s, k + 1, Len(s))
           IN  /\ t \in Seq(S)
               /\ Len(t) = Len(s) - 1
               /\ IsInjective(t)
               /\ Range(t) = Range(s) \ {s[k]}
<1> DEFINE t == SubSeq(s, 1, k - 1) \o SubSeq(s, k + 1, Len(s))
<1>1. Len(s) \in Nat /\ k \in Nat /\ k >= 1 /\ k <= Len(s) /\ DOMAIN s = 1 .. Len(s)
    OBVIOUS
<1>2. /\ t \in Seq(S) /\ Len(t) = Len(s) - 1
      /\ \A i \in 1 .. Len(s) - 1 : t[i] = IF i < k THEN s[i] ELSE s[i + 1]
    BY WithoutPlace, Zenon
<1> HIDE DEF t
<1>3. DOMAIN t = 1 .. Len(s) - 1
    BY <1>1, <1>2
<1> DEFINE from(i) == IF i < k THEN i ELSE i + 1
<1>4. /\ \A i \in DOMAIN t : from(i) \in DOMAIN s \ {k} /\ t[i] = s[from(i)]
      /\ \A i, j \in DOMAIN t : from(i) = from(j) => i = j
    BY <1>1, <1>2, <1>3
<1> HIDE DEF from
<1>5. /\ IsInjective(t)
      /\ Range(t) \subseteq Range(s) \ {s[k]}
    <2>1. \A i, j \in DOMAIN s : s[i] = s[j] => i = j
        BY DEF IsInjective
    <2>2. IsInjective(t)
        BY <1>4, <2>1 DEF IsInjective
    <2>3. \A i \in DOMAIN t : t[i] \in Range(s) \ {s[k]}
        BY <1>1, <1>4, <2>1 DEF Range
    <2>. QED BY <2>2, <2>3 DEF Range
<1>6. Range(s) \ {s[k]} \subseteq Range(t)
    <2>1. SUFFICES ASSUME NEW i \in 1 .. Len(s), s[i] # s[k]
                   PROVE  s[i] \in Range(t)
        BY <1>1 DEF Range
    <2>2. CASE i < k
        <3>1. i \in 1 .. Len(s) - 1 /\ t[i] = s[i]
            BY <1>1, <1>2, <2>2
        <3>. QED BY <1>3, <3>1 DEF Range
    <2>3. CASE i > k
        <3>1. i - 1 \in 1 .. Len(s) - 1 /\ t[i - 1] = s[i]
            BY <1>1, <1>2, <2>3
        <3>. QED BY <1>3, <3>1 DEF Range
    <2>4. i # k
        BY <2>1
    <2>. QED BY <1>1, <2>2, <2>3, <2>4
<1>. QED BY <1>2, <1>5, <1>6 DEF t

=============================================================================
