--------------------------- MODULE LRUCacheProofs ---------------------------
(***************************************************************************)
(* For every set of keys and values and every cap, the cache serves only   *)
(* the value last set, its list, map and counter agree and are within the  *)
(* cap, and eviction takes the least recently used entries and no more of  *)
(* them than it must.                                                      *)
(***************************************************************************)
EXTENDS LRUCache, FiniteSetTheorems, WellFoundedInduction, TLAPS

Entries == [Keys -> [val : Vals, size : Nat]]

\* What the proof needs to know of the types.
Shape ==
    /\ items \subseteq Keys
    /\ entry \in Entries
    /\ stored \in [Keys -> SUBSET Vals]

IInv == Shape /\ ServesLastStored

\* evict only ever removes keys from the map.
LEMMA EvictRemoves ==
    ASSUME NEW s, NEW m, NEW en, NEW u, evict(s, m, en, u)
    PROVE  items' \subseteq m
  BY DEF evict

\* Set leaves the new entry in place of an old one of the same key, touches no
\* other entry and adds no other key to the map, however much it evicts.
LEMMA SetEffect ==
    ASSUME NEW k \in Keys, NEW v \in Vals, Set(k, v)
    PROVE  /\ items' \subseteq items \cup {k}
           /\ entry' = [entry EXCEPT ![k] = [val |-> v, size |-> Size[v]]]
           /\ stored' = [stored EXCEPT ![k] = {v}]
<1>1. CASE Update(k, v)
  BY <1>1, EvictRemoves DEF Set, Update
<1>2. CASE Insert(k, v)
  BY <1>2, EvictRemoves DEF Set, Insert
<1> QED
  BY <1>1, <1>2 DEF Set

\* The invariant holds initially: the map is empty.
LEMMA InitOK == Init => IInv
<1> SUFFICES ASSUME Init PROVE IInv
  OBVIOUS
<1>1. (CHOOSE v \in Vals : TRUE) \in Vals
  BY CacheAssumption
<1>2. NoEntry \in [val : Vals, size : Nat]
  BY <1>1 DEF NoEntry
<1> QED
  BY <1>2 DEF Init, IInv, Shape, Entries, ServesLastStored

\* Every call preserves the invariant.
LEMMA NextOK == IInv /\ [Next]_vars => IInv'
<1> SUFFICES ASSUME IInv, [Next]_vars PROVE IInv'
  OBVIOUS
<1> USE DEF IInv, Shape, Entries, ServesLastStored
<1>1. ASSUME NEW k \in Keys, Get(k) PROVE IInv'
  BY <1>1 DEF Get
<1>2. ASSUME NEW k \in Keys, Delete(k) PROVE IInv'
  BY <1>2 DEF Delete
<1>3. ASSUME NEW k \in Keys, NEW v \in Vals, Set(k, v) PROVE IInv'
  <2>1. [val |-> v, size |-> Size[v]] \in [val : Vals, size : Nat]
    BY CacheAssumption
  <2>2. Shape'
    <3>1. /\ items' \subseteq items \cup {k}
          /\ entry' = [entry EXCEPT ![k] = [val |-> v, size |-> Size[v]]]
          /\ stored' = [stored EXCEPT ![k] = {v}]
      BY <1>3, SetEffect
    <3>2. entry' \in Entries
      BY <2>1, <3>1
    <3> QED
      BY <3>1, <3>2
  <2>3. ASSUME NEW j \in items' PROVE stored'[j] = {entry'[j].val}
    BY <1>3, <2>3, SetEffect
  <2> QED
    BY <2>2, <2>3
<1>4. CASE UNCHANGED vars
  BY <1>4 DEF vars
<1> QED
  BY <1>1, <1>2, <1>3, <1>4 DEF Next

\* Whatever is evicted, updated or deleted, Get only ever finds the value that
\* was set last for the key and not deleted since.
THEOREM CacheServesLastStored == Spec => []ServesLastStored
<1>1. IInv => ServesLastStored
  BY DEF IInv
<1> QED
  BY InitOK, NextOK, <1>1, PTL DEF Spec
-----------------------------------------------------------------------------
(***************************************************************************)
(* Induction, on explicit sets of numbers                                  *)
(***************************************************************************)
\* A set of numbers that is not empty has a least element.
LEMMA Least ==
    ASSUME NEW T \in SUBSET Nat, T # {}
    PROVE  \E x \in T : \A y \in T : ~(y < x)
<1> DEFINE R == {ss \in Nat \X Nat : ss[1] < ss[2]}
<1>1. IsWellFoundedOn(R, Nat)
  BY NatLessThanWellFounded DEF OpToRel
<1>2. \E x \in T : \A y \in T : <<y, x>> \notin R
  <2> HIDE DEF R
  <2> QED
    BY <1>1, WFMin
<1>3. PICK x \in T : \A y \in T : <<y, x>> \notin R
  BY <1>2
<1>4. ASSUME NEW y \in T, y < x PROVE FALSE
  <2>1. <<y, x>> \in Nat \X Nat /\ <<y, x>>[1] = y /\ <<y, x>>[2] = x
    OBVIOUS
  <2> QED
    BY <1>3, <1>4, <2>1
<1> QED
  BY <1>4

\* What holds of 0 and is inherited by the next number holds up to L.
LEMMA CountUp ==
    ASSUME NEW L \in Nat, NEW S, 0 \in S,
           \A n \in 0..L : n \in S /\ n < L => n + 1 \in S
    PROVE  \A n \in 0..L : n \in S
<1> DEFINE T == {n \in 0..L : n \notin S}
<1>1. SUFFICES ASSUME T # {} PROVE FALSE
  OBVIOUS
<1>2. T \in SUBSET Nat
  OBVIOUS
<1>3. PICK x \in T : \A y \in T : ~(y < x)
  <2> HIDE DEF T
  <2> QED
    BY <1>1, <1>2, Least
<1>4. x # 0 /\ x - 1 \in 0..L /\ x - 1 < x /\ x - 1 < L /\ (x - 1) + 1 = x
  OBVIOUS
<1> QED
  BY <1>3, <1>4
-----------------------------------------------------------------------------
(***************************************************************************)
(* The sizes of lists                                                      *)
(***************************************************************************)
\* The size of the i-th element from the back.
SizeAt(s, en, i) == en[s[Len(s) - i + 1]].size

\* The sum of the first numbers of a list exists, however long the list.
LEMMA SumExists ==
    ASSUME NEW L \in Nat, NEW g \in [1..L -> Nat]
    PROVE  \E f : f = [i \in 0..L |-> IF i = 0 THEN 0 ELSE f[i - 1] + g[i]]
<1> DEFINE S == {m \in 0..L : \E f : f = [i \in 0..m |-> IF i = 0 THEN 0 ELSE f[i - 1] + g[i]]}
<1>1. 0 \in S
  <2> DEFINE f == [i \in 0..0 |-> 0]
  <2>1. f = [i \in 0..0 |-> IF i = 0 THEN 0 ELSE f[i - 1] + g[i]]
    OBVIOUS
  <2>2. 0 \in 0..L
    OBVIOUS
  <2> HIDE DEF f
  <2> QED
    BY <2>1, <2>2
<1>2. ASSUME NEW m \in 0..L, m \in S, m < L PROVE m + 1 \in S
  <2>1. PICK f : f = [i \in 0..m |-> IF i = 0 THEN 0 ELSE f[i - 1] + g[i]]
    BY <1>2
  <2> DEFINE h == [i \in 0..(m + 1) |-> IF i <= m THEN f[i] ELSE f[m] + g[m + 1]]
             e == [i \in 0..(m + 1) |-> IF i = 0 THEN 0 ELSE h[i - 1] + g[i]]
  <2>2. ASSUME NEW i \in 0..(m + 1) PROVE h[i] = e[i]
    <3>1. CASE i = 0
      BY <2>1, <3>1
    <3>2. CASE i \in 1..m
      <4>1. f[i] = f[i - 1] + g[i]
        BY <2>1, <3>2
      <4>2. h[i] = f[i] /\ h[i - 1] = f[i - 1] /\ e[i] = h[i - 1] + g[i]
        BY <3>2
      <4> QED
        BY <4>1, <4>2
    <3>3. CASE i = m + 1
      BY <3>3
    <3> QED
      BY <3>1, <3>2, <3>3
  <2>3. h = e
    BY <2>2
  <2>4. m + 1 \in 0..L
    BY <1>2
  <2> QED
    BY <2>3, <2>4
<1>3. L \in S
  <2> HIDE DEF S
  <2>1. \A n \in 0..L : n \in S
    BY <1>1, <1>2, CountUp
  <2> QED
    BY <2>1
<1> QED
  BY <1>3

\* Tailsize adds up the sizes from the back.
LEMMA TailsizeFacts ==
    ASSUME NEW s \in Seq(Keys), NEW en \in Entries
    PROVE  /\ Tailsize(s, en, 0) = 0
           /\ \A n \in 1..Len(s) :
                 /\ SizeAt(s, en, n) \in Nat
                 /\ Tailsize(s, en, n) = Tailsize(s, en, n - 1) + SizeAt(s, en, n)
           /\ \A n \in 0..Len(s) : Tailsize(s, en, n) \in Nat
<1> DEFINE L == Len(s)
           g == [i \in 1..L |-> SizeAt(s, en, i)]
           Q(f) == [i \in 0..L |-> IF i = 0 THEN 0 ELSE f[i - 1] + en[s[L - i + 1]].size]
           F == CHOOSE f : f = Q(f)
<1>1. L \in Nat /\ \A n \in 1..L : SizeAt(s, en, n) \in Nat
  <2>1. L \in Nat
    OBVIOUS
  <2>2. ASSUME NEW n \in 1..L PROVE SizeAt(s, en, n) \in Nat
    <3>1. L - n + 1 \in 1..L
      BY <2>1
    <3>2. s[L - n + 1] \in Keys
      BY <3>1
    <3> QED
      BY <3>2 DEF SizeAt, Entries
  <2> QED
    BY <2>1, <2>2
<1>2. g \in [1..L -> Nat]
  BY <1>1
<1>3. \E f : f = Q(f)
  <2>1. PICK f : f = [i \in 0..L |-> IF i = 0 THEN 0 ELSE f[i - 1] + g[i]]
    <3> HIDE DEF g, L
    <3> QED
      BY <1>1, <1>2, SumExists
  <2>2. ASSUME NEW i \in 0..L
        PROVE  (IF i = 0 THEN 0 ELSE f[i - 1] + g[i])
                  = (IF i = 0 THEN 0 ELSE f[i - 1] + en[s[L - i + 1]].size)
    BY <1>1 DEF SizeAt
  <2>3. f = Q(f)
    BY <2>1, <2>2
  <2> QED
    BY <2>3
<1>4. F = Q(F)
  BY <1>3
<1>5. \A n : Tailsize(s, en, n) = F[n]
  BY DEF Tailsize
<1> HIDE DEF F
<1>6. /\ F[0] = 0
      /\ \A n \in 1..L : F[n] = F[n - 1] + SizeAt(s, en, n)
  <2>1. F[0] = 0
    BY <1>1, <1>4
  <2>2. ASSUME NEW n \in 1..L PROVE F[n] = F[n - 1] + SizeAt(s, en, n)
    <3>1. n \in 0..L /\ n # 0
      BY <1>1
    <3>2. Q(F)[n] = F[n - 1] + SizeAt(s, en, n)
      BY <3>1 DEF SizeAt
    <3> QED
      BY <1>4, <3>2
  <2> QED
    BY <2>1, <2>2
<1>7. \A n \in 0..L : F[n] \in Nat
  <2> DEFINE S == {n \in 0..L : F[n] \in Nat}
  <2>1. 0 \in S
    BY <1>1, <1>6
  <2>2. ASSUME NEW n \in 0..L, n \in S, n < L PROVE n + 1 \in S
    <3>1. n + 1 \in 1..L /\ n + 1 \in 0..L /\ (n + 1) - 1 = n
      BY <1>1, <2>2
    <3>2. F[n + 1] = F[n] + SizeAt(s, en, n + 1)
      BY <1>6, <3>1
    <3> QED
      BY <1>1, <2>2, <3>1, <3>2
  <2>3. \A n \in 0..L : n \in S
    <3> HIDE DEF S, L
    <3> QED
      BY <1>1, <2>1, <2>2, CountUp
  <2> QED
    BY <2>3
<1> QED
  BY <1>1, <1>5, <1>6, <1>7

\* The N elements of s in front of the last a have the sizes of the N elements
\* of t in front of the last b.
Alike(s, en, a, t, em, b, N) ==
    /\ a + N <= Len(s) /\ b + N <= Len(t)
    /\ \A i \in 1..N : SizeAt(s, en, a + i) = SizeAt(t, em, b + i)

SameSum(s, en, a, t, em, b, N) ==
    Tailsize(s, en, a + N) + Tailsize(t, em, b) = Tailsize(t, em, b + N) + Tailsize(s, en, a)

\* Two stretches of lists with the same sizes add up to the same.
LEMMA SameStretch ==
    ASSUME NEW s \in Seq(Keys), NEW t \in Seq(Keys), NEW en \in Entries, NEW em \in Entries,
           NEW a \in Nat, NEW b \in Nat, NEW N \in Nat, Alike(s, en, a, t, em, b, N)
    PROVE  SameSum(s, en, a, t, em, b, N)
<1> DEFINE f(n) == Tailsize(s, en, n)
           h(n) == Tailsize(t, em, n)
           S == {n \in 0..N : f(a + n) + h(b) = h(b + n) + f(a)}
<1>1. /\ Len(s) \in Nat /\ Len(t) \in Nat
      /\ \A n \in 1..Len(s) : SizeAt(s, en, n) \in Nat /\ f(n) = f(n - 1) + SizeAt(s, en, n)
      /\ \A n \in 0..Len(s) : f(n) \in Nat
      /\ \A n \in 1..Len(t) : SizeAt(t, em, n) \in Nat /\ h(n) = h(n - 1) + SizeAt(t, em, n)
      /\ \A n \in 0..Len(t) : h(n) \in Nat
  BY TailsizeFacts
<1> HIDE DEF f, h
<1>2. 0 \in S
  <2>1. /\ a + 0 = a /\ b + 0 = b /\ a \in 0..Len(s) /\ b \in 0..Len(t) /\ 0 \in 0..N
    BY <1>1 DEF Alike
  <2> QED
    BY <1>1, <2>1
<1>3. ASSUME NEW n \in 0..N, n \in S, n < N PROVE n + 1 \in S
  <2>1. /\ a + (n + 1) \in 1..Len(s) /\ (a + (n + 1)) - 1 = a + n /\ a + n \in 0..Len(s)
        /\ b + (n + 1) \in 1..Len(t) /\ (b + (n + 1)) - 1 = b + n /\ b + n \in 0..Len(t)
        /\ n + 1 \in 1..N /\ n + 1 \in 0..N /\ a \in 0..Len(s) /\ b \in 0..Len(t)
    BY <1>1, <1>3 DEF Alike
  <2> DEFINE d == SizeAt(s, en, a + (n + 1))
             x == f(a + n)
             y == h(b + n)
             x1 == f(a + (n + 1))
             y1 == h(b + (n + 1))
             u == f(a)
             v == h(b)
  <2>2. x1 = x + d
    BY <1>1, <2>1
  <2>3. y1 = y + d
    <3>1. y1 = y + SizeAt(t, em, b + (n + 1))
      BY <1>1, <2>1
    <3>2. SizeAt(t, em, b + (n + 1)) = d
      BY <2>1 DEF Alike
    <3> QED
      BY <3>1, <3>2
  <2>4. /\ u \in Nat /\ v \in Nat /\ x \in Nat /\ y \in Nat /\ d \in Nat
        /\ x + v = y + u
    BY <1>1, <1>3, <2>1
  <2> HIDE DEF d, x, y, x1, y1, u, v
  <2>5. x1 + v = y1 + u
    BY <2>2, <2>3, <2>4
  <2> QED
    BY <2>1, <2>5 DEF x1, y1, u, v
<1>4. \A n \in 0..N : n \in S
  <2> HIDE DEF S
  <2> QED
    BY <1>2, <1>3, CountUp
<1>5. f(a + N) + h(b) = h(b + N) + f(a)
  BY <1>4
<1> QED
  BY <1>5 DEF f, h, SameSum
-----------------------------------------------------------------------------
(***************************************************************************)
(* Lists without repetitions                                               *)
(***************************************************************************)
Distinct(s) == \A i, j \in 1..Len(s) : s[i] = s[j] => i = j

Elems(s) == {s[i] : i \in 1..Len(s)}

Total(s, en) == Tailsize(s, en, Len(s))

\* A function on 1..n is a sequence.
LEMMA FunctionIsSeq ==
    ASSUME NEW S, NEW n \in Nat, NEW f \in [1..n -> S]
    PROVE  f \in Seq(S) /\ Len(f) = n
OBVIOUS

\* Removing the element of k: what remains and in which order.
LEMMA WithoutFacts ==
    ASSUME NEW s \in Seq(Keys), NEW k \in Elems(s)
    PROVE  /\ Without(s, k) \in Seq(Keys) /\ Len(Without(s, k)) = Len(s) - 1
           /\ \E p \in 1..Len(s) :
                 /\ s[p] = k
                 /\ \A i \in 1..(Len(s) - 1) :
                       Without(s, k)[i] = IF i < p THEN s[i] ELSE s[i + 1]
<1> DEFINE p == CHOOSE i \in 1..Len(s) : s[i] = k
           w == [i \in 1..(Len(s) - 1) |-> IF i < p THEN s[i] ELSE s[i + 1]]
<1>1. \E i \in 1..Len(s) : s[i] = k
  BY DEF Elems
<1>2. p \in 1..Len(s) /\ s[p] = k
  BY <1>1
<1>3. Without(s, k) = w
  BY <1>1 DEF Without
<1> HIDE DEF p
<1>4. Len(s) \in Nat /\ Len(s) >= 1
  BY <1>2
<1>5. w \in [1..(Len(s) - 1) -> Keys]
  <2>1. ASSUME NEW i \in 1..(Len(s) - 1) PROVE s[i] \in Keys /\ s[i + 1] \in Keys
    <3>1. i \in 1..Len(s) /\ i + 1 \in 1..Len(s)
      BY <1>4
    <3> QED
      BY <3>1
  <2> QED
    BY <2>1
<1>6. w \in Seq(Keys) /\ Len(w) = Len(s) - 1
  <2>1. Len(s) - 1 \in Nat
    BY <1>4
  <2> HIDE DEF w
  <2> QED
    BY <1>5, <2>1, FunctionIsSeq
<1> QED
  BY <1>2, <1>3, <1>6

\* A key that is not there is not removed.
LEMMA WithoutNothing ==
    ASSUME NEW s, NEW k, k \notin Elems(s)
    PROVE  Without(s, k) = s
BY DEF Without, Elems

\* What remains of a list without repetitions.
LEMMA WithoutElems ==
    ASSUME NEW s \in Seq(Keys), NEW k \in Keys, Distinct(s)
    PROVE  /\ Without(s, k) \in Seq(Keys) /\ Distinct(Without(s, k))
           /\ Elems(Without(s, k)) = Elems(s) \ {k}
<1>1. CASE k \notin Elems(s)
  BY <1>1, WithoutNothing
<1>2. CASE k \in Elems(s)
  <2> DEFINE w == Without(s, k)
  <2>1. w \in Seq(Keys) /\ Len(w) = Len(s) - 1 /\ Len(s) \in Nat
    BY <1>2, WithoutFacts
  <2>2. PICK p \in 1..Len(s) :
              /\ s[p] = k
              /\ \A i \in 1..(Len(s) - 1) : w[i] = IF i < p THEN s[i] ELSE s[i + 1]
    BY <1>2, WithoutFacts
  <2> HIDE DEF w
  <2> DEFINE at(i) == IF i < p THEN i ELSE i + 1
  <2>3. ASSUME NEW i \in 1..Len(w) PROVE at(i) \in 1..Len(s) /\ at(i) # p /\ w[i] = s[at(i)]
    BY <2>1, <2>2
  <2>4. Distinct(w)
    <3>1. ASSUME NEW i \in 1..Len(w), NEW j \in 1..Len(w), w[i] = w[j] PROVE i = j
      <4>1. at(i) = at(j)
        <5> HIDE DEF at
        <5> QED
          BY <2>3, <3>1 DEF Distinct
      <4> QED
        BY <2>1, <4>1
    <3> QED
      BY <3>1 DEF Distinct
  <2>5. ASSUME NEW i \in 1..Len(w) PROVE w[i] \in Elems(s) \ {k}
    <3> HIDE DEF at
    <3> QED
      BY <2>2, <2>3 DEF Distinct, Elems
  <2>6. ASSUME NEW i \in 1..Len(s), s[i] # k PROVE s[i] \in Elems(w)
    <3>1. i # p
      BY <2>2, <2>6
    <3>2. CASE i < p
      <4>1. i \in 1..Len(w) /\ w[i] = s[i]
        BY <2>1, <2>2, <3>2
      <4> QED
        BY <4>1 DEF Elems
    <3>3. CASE i > p
      <4>1. i - 1 \in 1..Len(w) /\ ~(i - 1 < p) /\ (i - 1) + 1 = i
        BY <2>1, <2>2, <3>3
      <4>2. w[i - 1] = s[i]
        BY <2>1, <2>2, <4>1
      <4> QED
        BY <4>1, <4>2 DEF Elems
    <3> QED
      BY <2>1, <3>1, <3>2, <3>3
  <2>7. Elems(w) = Elems(s) \ {k}
    BY <2>5, <2>6 DEF Elems
  <2> QED
    BY <2>1, <2>4, <2>7 DEF w
<1> QED
  BY <1>1, <1>2

\* Putting a key in front.
LEMMA ConsFacts ==
    ASSUME NEW w \in Seq(Keys), NEW k \in Keys
    PROVE  /\ <<k>> \o w \in Seq(Keys) /\ Len(<<k>> \o w) = Len(w) + 1 /\ Len(w) \in Nat
           /\ (<<k>> \o w)[1] = k
           /\ \A i \in 1..Len(w) : (<<k>> \o w)[i + 1] = w[i]
OBVIOUS

\* A new key in front of a list without repetitions.
LEMMA ConsElems ==
    ASSUME NEW w \in Seq(Keys), NEW k \in Keys, Distinct(w), k \notin Elems(w)
    PROVE  /\ Distinct(<<k>> \o w)
           /\ Elems(<<k>> \o w) = Elems(w) \cup {k}
<1> DEFINE s == <<k>> \o w
<1>1. /\ Len(w) \in Nat /\ Len(s) = Len(w) + 1 /\ s[1] = k
      /\ \A i \in 1..Len(w) : s[i + 1] = w[i]
  BY ConsFacts
<1> HIDE DEF s
<1>2. ASSUME NEW i \in 1..Len(s), i # 1
      PROVE  i - 1 \in 1..Len(w) /\ s[i] = w[i - 1]
  <2>1. i - 1 \in 1..Len(w) /\ (i - 1) + 1 = i
    BY <1>1, <1>2
  <2> QED
    BY <1>1, <2>1
<1>3. Distinct(s)
  <2>1. ASSUME NEW i \in 1..Len(s), NEW j \in 1..Len(s), s[i] = s[j], i # 1, j # 1 PROVE i = j
    <3>1. i - 1 = j - 1
      BY <1>2, <2>1 DEF Distinct
    <3> QED
      BY <1>1, <3>1
  <2>2. ASSUME NEW i \in 1..Len(s), i # 1 PROVE s[i] # k
    BY <1>2, <2>2 DEF Elems
  <2> QED
    BY <1>1, <2>1, <2>2 DEF Distinct
<1>4. \A i \in 1..Len(w) : i + 1 \in 1..Len(s) /\ 1 \in 1..Len(s)
  BY <1>1
<1>5. 1 \in 1..Len(s)
  BY <1>1
<1>6. Elems(s) = Elems(w) \cup {k}
  BY <1>1, <1>2, <1>4, <1>5 DEF Elems
<1> QED
  BY <1>3, <1>6 DEF s
-----------------------------------------------------------------------------
(***************************************************************************)
(* The counter                                                             *)
(***************************************************************************)
\* The total of a list does not depend on the entries of other keys.
LEMMA TotalOther ==
    ASSUME NEW s \in Seq(Keys), NEW en \in Entries, NEW em \in Entries,
           \A k \in Elems(s) : em[k] = en[k]
    PROVE  Total(s, em) = Total(s, en)
<1> DEFINE L == Len(s)
<1>1. L \in Nat /\ 0 + L = L /\ 0 \in Nat /\ L \in 0..L
  OBVIOUS
<1>2. ASSUME NEW i \in 1..L PROVE SizeAt(s, em, 0 + i) = SizeAt(s, en, 0 + i)
  <2>1. 0 + i = i /\ L - i + 1 \in 1..L
    BY <1>1
  <2>2. s[L - i + 1] \in Elems(s)
    BY <2>1 DEF Elems
  <2> QED
    BY <2>1, <2>2 DEF SizeAt
<1>3. Alike(s, em, 0, s, en, 0, L)
  BY <1>1, <1>2 DEF Alike
<1>4. /\ Tailsize(s, em, 0) = 0 /\ Tailsize(s, en, 0) = 0
      /\ Tailsize(s, em, L) \in Nat /\ Tailsize(s, en, L) \in Nat
  BY <1>1, TailsizeFacts
<1>5. SameSum(s, em, 0, s, en, 0, L)
  <2> HIDE DEF L
  <2> QED
    BY <1>1, <1>3, SameStretch
<1>6. Tailsize(s, em, L) + 0 = Tailsize(s, en, L) + 0
  BY <1>1, <1>4, <1>5 DEF SameSum
<1> QED
  BY <1>4, <1>6 DEF Total

\* A key in front adds its size.
LEMMA TotalCons ==
    ASSUME NEW w \in Seq(Keys), NEW k \in Keys, NEW en \in Entries
    PROVE  Total(<<k>> \o w, en) = Total(w, en) + en[k].size
<1> DEFINE s == <<k>> \o w
           N == Len(w)
<1>1. /\ s \in Seq(Keys) /\ N \in Nat /\ Len(s) = N + 1 /\ s[1] = k
      /\ \A i \in 1..N : s[i + 1] = w[i]
  BY ConsFacts
<1> HIDE DEF s
<1>2. ASSUME NEW i \in 1..N PROVE SizeAt(s, en, 0 + i) = SizeAt(w, en, 0 + i)
  <2>1. 0 + i = i /\ N - i + 1 \in 1..N /\ Len(s) - i + 1 = (N - i + 1) + 1
    BY <1>1
  <2> QED
    BY <1>1, <2>1 DEF SizeAt
<1>3. 0 + N = N /\ 0 \in Nat /\ N \in 0..N /\ N \in 0..Len(s)
  BY <1>1
<1>4. Alike(s, en, 0, w, en, 0, N)
  BY <1>1, <1>2, <1>3 DEF Alike
<1>5. /\ Tailsize(s, en, 0) = 0 /\ Tailsize(w, en, 0) = 0
      /\ Tailsize(s, en, N) \in Nat /\ Tailsize(w, en, N) \in Nat
  BY <1>1, <1>3, TailsizeFacts
<1>6. SameSum(s, en, 0, w, en, 0, N)
  <2> HIDE DEF N
  <2> QED
    BY <1>1, <1>3, <1>4, SameStretch
<1>7. Tailsize(s, en, N) = Tailsize(w, en, N)
  <2>1. Tailsize(s, en, N) + 0 = Tailsize(w, en, N) + 0
    BY <1>3, <1>5, <1>6 DEF SameSum
  <2> QED
    BY <1>5, <2>1
<1>8. Tailsize(s, en, Len(s)) = Tailsize(s, en, N) + SizeAt(s, en, Len(s))
  <2>1. Len(s) \in 1..Len(s) /\ Len(s) - 1 = N
    BY <1>1
  <2> QED
    BY <1>1, <2>1, TailsizeFacts
<1>9. SizeAt(s, en, Len(s)) = en[k].size
  <2>1. Len(s) - Len(s) + 1 = 1
    BY <1>1
  <2> QED
    BY <1>1, <2>1 DEF SizeAt
<1> QED
  BY <1>7, <1>8, <1>9 DEF Total, s

\* Removing a key takes its size away.
LEMMA TotalWithout ==
    ASSUME NEW s \in Seq(Keys), NEW k \in Elems(s), NEW en \in Entries
    PROVE  Total(s, en) = Total(Without(s, k), en) + en[k].size
<1> DEFINE w == Without(s, k)
<1>1. w \in Seq(Keys) /\ Len(w) = Len(s) - 1 /\ Len(s) \in Nat /\ Len(w) \in Nat
  <2>1. w \in Seq(Keys) /\ Len(w) = Len(s) - 1
    BY WithoutFacts
  <2> QED
    BY <2>1
<1>2. PICK p \in 1..Len(s) :
            /\ s[p] = k
            /\ \A i \in 1..(Len(s) - 1) : w[i] = IF i < p THEN s[i] ELSE s[i + 1]
  BY WithoutFacts
<1> HIDE DEF w
<1> DEFINE q == Len(s) - p + 1
           r == Len(s) - p
           N == p - 1
<1>3. /\ q \in 1..Len(s) /\ q \in Nat /\ r \in Nat /\ N \in Nat /\ 0 \in Nat /\ q = r + 1
      /\ 0 + r <= Len(s) /\ 0 + r <= Len(w) /\ q + N <= Len(s) /\ r + N <= Len(w)
      /\ q + N = Len(s) /\ r + N = Len(w) /\ 0 + r = r /\ q - 1 = r /\ Len(s) - q + 1 = p
      /\ r \in 0..Len(s) /\ r \in 0..Len(w) /\ Len(s) \in 0..Len(s) /\ Len(w) \in 0..Len(w)
  BY <1>1, <1>2
<1>4. ASSUME NEW i \in 1..r PROVE SizeAt(s, en, 0 + i) = SizeAt(w, en, 0 + i)
  <2>1. /\ 0 + i = i /\ Len(w) - i + 1 \in 1..(Len(s) - 1)
        /\ ~(Len(w) - i + 1 < p) /\ (Len(w) - i + 1) + 1 = Len(s) - i + 1
    BY <1>1, <1>2, <1>4
  <2> QED
    BY <1>2, <2>1 DEF SizeAt
<1>5. ASSUME NEW i \in 1..N PROVE SizeAt(s, en, q + i) = SizeAt(w, en, r + i)
  <2>1. /\ Len(w) - (r + i) + 1 \in 1..(Len(s) - 1)
        /\ Len(w) - (r + i) + 1 < p
        /\ Len(w) - (r + i) + 1 = Len(s) - (q + i) + 1
    BY <1>1, <1>2, <1>5
  <2> HIDE DEF q, r, N
  <2> QED
    BY <1>2, <2>1 DEF SizeAt
<1> HIDE DEF q, r, N
<1>6. Alike(s, en, 0, w, en, 0, r) /\ Alike(s, en, q, w, en, r, N)
  BY <1>3, <1>4, <1>5 DEF Alike
<1>7. SameSum(s, en, 0, w, en, 0, r) /\ SameSum(s, en, q, w, en, r, N)
  BY <1>1, <1>3, <1>6, SameStretch
<1> DEFINE a == Tailsize(s, en, r)
           b == Tailsize(w, en, r)
           d == en[k].size
           x == Total(s, en)
           y == Total(w, en)
           z == Tailsize(s, en, q)
<1>8. z = a + d /\ d \in Nat
  <2>1. z = Tailsize(s, en, q - 1) + SizeAt(s, en, q) /\ SizeAt(s, en, q) \in Nat
    BY <1>3, TailsizeFacts
  <2>2. SizeAt(s, en, q) = d
    BY <1>2, <1>3 DEF SizeAt
  <2> QED
    BY <1>3, <2>1, <2>2
<1>9. /\ Tailsize(s, en, 0) = 0 /\ Tailsize(w, en, 0) = 0
      /\ a \in Nat /\ b \in Nat /\ x \in Nat /\ y \in Nat
  BY <1>1, <1>3, TailsizeFacts DEF Total
<1>10. a + 0 = b + 0 /\ x + b = y + z
  BY <1>3, <1>7, <1>9 DEF SameSum, Total
<1> HIDE DEF a, b, d, x, y, z
<1>11. x = y + d
  BY <1>8, <1>9, <1>10
<1> QED
  BY <1>11 DEF x, y, d, w

\* A list without repetitions has as many keys as elements.
LEMMA DistinctCard ==
    ASSUME NEW s \in Seq(Keys), Distinct(s)
    PROVE  Cardinality(Elems(s)) = Len(s)
<1> DEFINE f == [i \in 1..Len(s) |-> s[i]]
<1>1. f \in Bijection(1..Len(s), Elems(s))
  BY DEF Distinct, Elems, Bijection, Injection, Surjection, IsInjective
<1>2. Len(s) \in Nat /\ IsFiniteSet(1..Len(s)) /\ Cardinality(1..Len(s)) = Len(s)
  <2>1. Len(s) \in Nat
    OBVIOUS
  <2> QED
    BY <2>1, FS_Interval
<1>3. ExistsBijection(1..Len(s), Elems(s))
  BY <1>1 DEF ExistsBijection
<1> QED
  BY <1>2, <1>3, FS_Bijection

\* evict takes elements from the back until the rest fits, and the last one it
\* takes would not have fitted.
LEMMA EvictFacts ==
    ASSUME NEW s \in Seq(Keys), NEW en \in Entries, Distinct(s),
           evict(s, Elems(s), en, Total(s, en))
    PROVE  \E n \in 0..Len(s) :
              /\ ll' \in Seq(Keys) /\ Len(ll') = Len(s) - n
              /\ \A i \in 1..(Len(s) - n) : ll'[i] = s[i]
              /\ Distinct(ll') /\ items' = Elems(ll')
              /\ used' = Total(ll', en) /\ used' <= Cap
              /\ n > 0 => used' + SizeAt(s, en, n) > Cap
<1> DEFINE L == Len(s)
           u == Total(s, en)
           enough(x) == u - Tailsize(s, en, x) <= Cap \/ x = L
           least(x) == enough(x) /\ \A y \in 0..(x - 1) : ~enough(y)
           n == CHOOSE x \in 0..L : least(x)
<1>1. L \in Nat /\ L \in 0..L /\ Cap \in Nat
  BY CacheAssumption
<1>2. \E x \in 0..L : least(x)
  <2> DEFINE T == {x \in 0..L : enough(x)}
  <2>1. T \in SUBSET Nat /\ L \in T
    BY <1>1
  <2>2. PICK x \in T : \A y \in T : ~(y < x)
    <3> HIDE DEF T
    <3> QED
      BY <2>1, Least
  <2>3. x \in 0..L /\ enough(x)
    BY <2>2
  <2>4. ASSUME NEW y \in 0..(x - 1) PROVE ~enough(y)
    <3>1. y \in 0..L /\ y < x
      BY <1>1, <2>3
    <3> QED
      BY <2>2, <3>1
  <2> QED
    BY <2>3, <2>4
<1>3. n \in 0..L /\ least(n)
  <2> HIDE DEF least
  <2> QED
    BY <1>2
<1>4. /\ ll' = SubSeq(s, 1, L - n)
      /\ items' = Elems(s) \ {s[i] : i \in (L - n + 1)..L}
      /\ used' = u - Tailsize(s, en, n)
  BY DEF evict
<1> HIDE DEF n
<1> DEFINE N == L - n
           t == ll'
<1>5. N \in Nat /\ N <= L /\ n \in Nat /\ n + N = L /\ L - n = N
  BY <1>1, <1>3
<1>6. t \in Seq(Keys) /\ Len(t) = N /\ \A i \in 1..N : t[i] = s[i]
  <2>1. ASSUME NEW i \in 1..N PROVE s[i] \in Keys
    <3>1. i \in 1..L
      BY <1>1, <1>5
    <3> QED
      BY <3>1
  <2>2. t = SubSeq(s, 1, N)
    BY <1>4
  <2> HIDE DEF N, t
  <2> QED
    BY <1>5, <2>1, <2>2
<1>7. Distinct(t)
  BY <1>1, <1>5, <1>6 DEF Distinct
<1>8. items' = Elems(t)
  <2>1. \A i \in 1..L : i \in 1..N \/ i \in (N + 1)..L
    BY <1>1, <1>5
  <2>2. \A i \in 1..N : i \in 1..L /\ \A j \in (N + 1)..L : j \in 1..L /\ i # j
    BY <1>1, <1>5
  <2>3. items' = Elems(s) \ {s[i] : i \in (N + 1)..L}
    BY <1>4
  <2>4. ASSUME NEW e \in items' PROVE e \in Elems(t)
    <3>1. PICK i \in 1..L : e = s[i]
      BY <2>3 DEF Elems
    <3>2. i \in 1..N
      BY <2>1, <2>3, <3>1
    <3> HIDE DEF N, t
    <3> QED
      BY <1>6, <3>1, <3>2 DEF Elems
  <2>5. ASSUME NEW i \in 1..N PROVE t[i] \in items'
    <3>1. s[i] \in Elems(s)
      BY <2>2 DEF Elems
    <3>2. \A j \in (N + 1)..L : s[j] # s[i]
      BY <2>2 DEF Distinct
    <3>3. t[i] = s[i]
      BY <1>6
    <3> HIDE DEF N, t
    <3> QED
      BY <2>3, <3>1, <3>2, <3>3
  <2>6. Elems(t) \subseteq items'
    <3> HIDE DEF N, t
    <3> QED
      BY <1>6, <2>5 DEF Elems
  <2> QED
    BY <2>4, <2>6
<1> DEFINE x == Tailsize(s, en, n)
           y == Total(t, en)
<1>9. used' = y /\ y \in Nat /\ x \in Nat /\ u \in Nat /\ u = x + y
  <2>1. ASSUME NEW i \in 1..N PROVE SizeAt(s, en, n + i) = SizeAt(t, en, 0 + i)
    <3>1. /\ Len(t) - (0 + i) + 1 \in 1..N
          /\ Len(t) - (0 + i) + 1 = Len(s) - (n + i) + 1
      BY <1>1, <1>5, <1>6
    <3> HIDE DEF N, t
    <3> QED
      BY <1>6, <3>1 DEF SizeAt
  <2>2. 0 + N = N /\ 0 \in Nat /\ n \in 0..L /\ L \in 0..L /\ N \in 0..N
    BY <1>1, <1>5
  <2>3. Alike(s, en, n, t, en, 0, N)
    <3> HIDE DEF N, t
    <3> QED
      BY <1>5, <1>6, <2>1, <2>2 DEF Alike
  <2>4. SameSum(s, en, n, t, en, 0, N)
    <3> HIDE DEF N, t, L
    <3> QED
      BY <1>5, <1>6, <2>2, <2>3, SameStretch
  <2>5. /\ Tailsize(t, en, 0) = 0 /\ x \in Nat /\ u \in Nat /\ y \in Nat
    <3> HIDE DEF N, t
    <3> QED
      BY <1>6, <2>2, TailsizeFacts DEF Total
  <2>6. u + 0 = y + x
    <3> HIDE DEF N, t
    <3> QED
      BY <1>5, <1>6, <2>2, <2>4, <2>5 DEF SameSum, Total
  <2>7. used' = u - x
    BY <1>4
  <2> HIDE DEF u, x, y
  <2> QED
    BY <2>5, <2>6, <2>7
<1>10. used' <= Cap
  <2>1. CASE u - x <= Cap
    <3> HIDE DEF u, x, y
    <3> QED
      BY <1>9, <2>1
  <2>2. CASE n = L
    <3>1. N = 0
      BY <1>1, <2>2
    <3>2. y = 0
      <4> HIDE DEF N, t
      <4> QED
        BY <1>6, <3>1, TailsizeFacts DEF Total
    <3> QED
      BY <1>1, <1>9, <3>2
  <2> QED
    BY <1>3, <2>1, <2>2
<1>11. ASSUME n > 0 PROVE used' + SizeAt(s, en, n) > Cap
  <2>1. n \in 1..L /\ n - 1 \in 0..(n - 1) /\ n - 1 # L /\ n - 1 \in 0..L
    <3>1. n \in 0..L
      BY <1>3
    <3> HIDE DEF L
    <3> QED
      BY <1>1, <1>5, <1>11, <3>1
  <2> DEFINE z == Tailsize(s, en, n - 1)
             d == SizeAt(s, en, n)
  <2>2. ~(u - z <= Cap) /\ z \in Nat
    BY <1>3, <2>1, TailsizeFacts
  <2>3. x = z + d /\ d \in Nat
    BY <2>1, TailsizeFacts
  <2> HIDE DEF u, x, y, z, d
  <2>4. used' + d > Cap
    BY <1>1, <1>9, <2>2, <2>3
  <2> QED
    BY <2>4 DEF d
<1> QED
  BY <1>3, <1>6, <1>7, <1>8, <1>9, <1>10, <1>11
-----------------------------------------------------------------------------
(***************************************************************************)
(* The order of use                                                        *)
(***************************************************************************)
\* a comes before b in s.
Above(s, a, b) == \E x, y \in 1..Len(s) : x < y /\ s[x] = a /\ s[y] = b

\* The keys of s are in r, in the same order.
Follows(s, r) ==
    /\ Elems(s) \subseteq Elems(r)
    /\ \A a, b \in Keys : Above(s, a, b) => Above(r, a, b)

\* Removing a key leaves the order of the others.
LEMMA WithoutOrder ==
    ASSUME NEW s \in Seq(Keys), Distinct(s), NEW k \in Keys, NEW a \in Keys, NEW b \in Keys
    PROVE  Above(Without(s, k), a, b) <=> (a # k /\ b # k /\ Above(s, a, b))
<1>1. CASE k \notin Elems(s)
  <2>1. Without(s, k) = s
    BY <1>1, WithoutNothing
  <2>2. Above(s, a, b) => a # k /\ b # k
    BY <1>1 DEF Above, Elems
  <2> QED
    BY <2>1, <2>2
<1>2. CASE k \in Elems(s)
  <2> DEFINE w == Without(s, k)
  <2>1. w \in Seq(Keys) /\ Len(w) = Len(s) - 1
    BY <1>2, WithoutFacts
  <2>2. PICK p \in 1..Len(s) :
              /\ s[p] = k
              /\ \A i \in 1..(Len(s) - 1) : w[i] = IF i < p THEN s[i] ELSE s[i + 1]
    BY <1>2, WithoutFacts
  <2>3. Len(s) \in Nat
    OBVIOUS
  <2> HIDE DEF w
  <2>4. ASSUME Above(w, a, b) PROVE a # k /\ b # k /\ Above(s, a, b)
    <3>1. PICK x \in 1..Len(w), y \in 1..Len(w) : x < y /\ w[x] = a /\ w[y] = b
      BY <2>4 DEF Above
    <3> DEFINE x1 == IF x < p THEN x ELSE x + 1
               y1 == IF y < p THEN y ELSE y + 1
    <3>2. x1 \in 1..Len(s) /\ y1 \in 1..Len(s) /\ x1 < y1 /\ x1 # p /\ y1 # p
      BY <2>1, <2>2, <2>3, <3>1
    <3>3. s[x1] = a /\ s[y1] = b
      BY <2>1, <2>2, <3>1
    <3> HIDE DEF x1, y1
    <3> QED
      BY <2>2, <3>2, <3>3 DEF Above, Distinct
  <2>5. ASSUME a # k, b # k, Above(s, a, b) PROVE Above(w, a, b)
    <3>1. PICK x \in 1..Len(s), y \in 1..Len(s) : x < y /\ s[x] = a /\ s[y] = b
      BY <2>5 DEF Above
    <3> DEFINE x1 == IF x < p THEN x ELSE x - 1
               y1 == IF y < p THEN y ELSE y - 1
    <3>2. x # p /\ y # p
      BY <2>2, <2>5, <3>1
    <3>3. /\ x1 \in 1..(Len(s) - 1) /\ y1 \in 1..(Len(s) - 1) /\ x1 < y1
          /\ x < p => x1 < p /\ x1 = x
          /\ ~(x < p) => ~(x1 < p) /\ x1 + 1 = x
          /\ y < p => y1 < p /\ y1 = y
          /\ ~(y < p) => ~(y1 < p) /\ y1 + 1 = y
      BY <2>2, <2>3, <3>1, <3>2
    <3> HIDE DEF x1, y1
    <3>4. w[x1] = a /\ w[y1] = b
      BY <2>2, <3>1, <3>3
    <3> QED
      BY <2>1, <3>3, <3>4 DEF Above
  <2> QED
    BY <2>4, <2>5 DEF w
<1> QED
  BY <1>1, <1>2

\* A key in front comes before the others and leaves their order.
LEMMA ConsOrder ==
    ASSUME NEW w \in Seq(Keys), NEW k \in Keys, NEW a \in Keys, NEW b \in Keys
    PROVE  Above(<<k>> \o w, a, b) <=> (Above(w, a, b) \/ (a = k /\ b \in Elems(w)))
<1> DEFINE s == <<k>> \o w
<1>1. /\ Len(w) \in Nat /\ Len(s) = Len(w) + 1 /\ s[1] = k
      /\ \A i \in 1..Len(w) : s[i + 1] = w[i]
  BY ConsFacts
<1> HIDE DEF s
<1>2. ASSUME Above(s, a, b) PROVE Above(w, a, b) \/ (a = k /\ b \in Elems(w))
  <2>1. PICK x \in 1..Len(s), y \in 1..Len(s) : x < y /\ s[x] = a /\ s[y] = b
    BY <1>2 DEF Above
  <2>2. y - 1 \in 1..Len(w) /\ (y - 1) + 1 = y
    BY <1>1, <2>1
  <2>3. w[y - 1] = b
    BY <1>1, <2>1, <2>2
  <2>4. CASE x = 1
    BY <1>1, <2>1, <2>2, <2>3, <2>4 DEF Elems
  <2>5. CASE x # 1
    <3>1. x - 1 \in 1..Len(w) /\ (x - 1) + 1 = x /\ x - 1 < y - 1
      BY <1>1, <2>1, <2>5
    <3>2. w[x - 1] = a
      BY <1>1, <2>1, <3>1
    <3> QED
      BY <2>2, <2>3, <3>1, <3>2 DEF Above
  <2> QED
    BY <2>4, <2>5
<1>3. ASSUME Above(w, a, b) PROVE Above(s, a, b)
  <2>1. PICK x \in 1..Len(w), y \in 1..Len(w) : x < y /\ w[x] = a /\ w[y] = b
    BY <1>3 DEF Above
  <2>2. x + 1 \in 1..Len(s) /\ y + 1 \in 1..Len(s) /\ x + 1 < y + 1
    BY <1>1, <2>1
  <2>3. s[x + 1] = a /\ s[y + 1] = b
    BY <1>1, <2>1
  <2> QED
    BY <2>2, <2>3 DEF Above
<1>4. ASSUME a = k, b \in Elems(w) PROVE Above(s, a, b)
  <2>1. PICK y \in 1..Len(w) : w[y] = b
    BY <1>4 DEF Elems
  <2>2. 1 \in 1..Len(s) /\ y + 1 \in 1..Len(s) /\ 1 < y + 1
    BY <1>1
  <2>3. s[1] = a /\ s[y + 1] = b
    BY <1>1, <1>4, <2>1
  <2> QED
    BY <2>2, <2>3 DEF Above
<1> QED
  BY <1>2, <1>3, <1>4 DEF s

\* Moving a key to the front.
LEMMA FrontFacts ==
    ASSUME NEW s \in Seq(Keys), Distinct(s), NEW k \in Keys
    PROVE  /\ ToFront(s, k) \in Seq(Keys) /\ Distinct(ToFront(s, k))
           /\ Elems(ToFront(s, k)) = Elems(s) \cup {k}
           /\ Len(ToFront(s, k)) \in Nat /\ Len(ToFront(s, k)) >= 1 /\ ToFront(s, k)[1] = k
           /\ \A a, b \in Keys :
                 Above(ToFront(s, k), a, b)
                   <=> \/ a # k /\ b # k /\ Above(s, a, b)
                       \/ a = k /\ b \in Elems(s) \ {k}
<1> DEFINE w == Without(s, k)
<1>1. w \in Seq(Keys) /\ Distinct(w) /\ Elems(w) = Elems(s) \ {k}
  BY WithoutElems
<1>2. \A a, b \in Keys : Above(w, a, b) <=> (a # k /\ b # k /\ Above(s, a, b))
  BY WithoutOrder
<1> HIDE DEF w
<1>3. <<k>> \o w \in Seq(Keys) /\ Len(w) \in Nat /\ Len(<<k>> \o w) = Len(w) + 1 /\ (<<k>> \o w)[1] = k
  BY <1>1, ConsFacts
<1>4. Distinct(<<k>> \o w) /\ Elems(<<k>> \o w) = Elems(w) \cup {k}
  BY <1>1, ConsElems
<1>5. \A a, b \in Keys : Above(<<k>> \o w, a, b) <=> (Above(w, a, b) \/ (a = k /\ b \in Elems(w)))
  BY <1>1, ConsOrder
<1> DEFINE t == <<k>> \o w
<1>6. ToFront(s, k) = t
  BY DEF ToFront, w
<1>7. t \in Seq(Keys) /\ Len(t) \in Nat /\ Len(t) >= 1 /\ t[1] = k /\ Distinct(t) /\ Elems(t) = Elems(w) \cup {k}
  <2> HIDE DEF t
  <2> QED
    BY <1>3, <1>4 DEF t
<1> HIDE DEF t
<1>8. \A a, b \in Keys : Above(t, a, b) <=> (Above(w, a, b) \/ (a = k /\ b \in Elems(w)))
  BY <1>5 DEF t
<1>9. \A a, b \in Keys : Above(t, a, b)
          <=> (a # k /\ b # k /\ Above(s, a, b)) \/ (a = k /\ b \in Elems(s) \ {k})
  BY <1>1, <1>2, <1>8
<1>10. Elems(t) = Elems(s) \cup {k}
  BY <1>1, <1>7
<1> QED
  BY <1>6, <1>7, <1>9, <1>10

\* Using a key moves it to the front of the list and of the order of use.
LEMMA FrontFollows ==
    ASSUME NEW s \in Seq(Keys), NEW r \in Seq(Keys), Distinct(s), Distinct(r), Follows(s, r),
           NEW k \in Keys
    PROVE  Follows(ToFront(s, k), ToFront(r, k))
<1>1. /\ Elems(ToFront(s, k)) = Elems(s) \cup {k}
      /\ \A a, b \in Keys :
            Above(ToFront(s, k), a, b)
              <=> \/ a # k /\ b # k /\ Above(s, a, b)
                  \/ a = k /\ b \in Elems(s) \ {k}
  BY FrontFacts
<1>2. /\ Elems(ToFront(r, k)) = Elems(r) \cup {k}
      /\ \A a, b \in Keys :
            Above(ToFront(r, k), a, b)
              <=> \/ a # k /\ b # k /\ Above(r, a, b)
                  \/ a = k /\ b \in Elems(r) \ {k}
  BY FrontFacts
<1> QED
  BY <1>1, <1>2 DEF Follows
-----------------------------------------------------------------------------
(***************************************************************************)
(* The inductive invariant: the list has no repetitions, the map holds its *)
(* keys, the counter its total, and the list is in the order of use.       *)
(***************************************************************************)
ListInv == ll \in Seq(Keys) /\ Distinct(ll) /\ items = Elems(ll)

CountInv == used = Total(ll, entry) /\ used <= Cap

RecencyInv == recency \in Seq(Keys) /\ Distinct(recency) /\ Follows(ll, recency)

CacheInv == IInv /\ ListInv /\ CountInv /\ RecencyInv

\* The parts are what the properties say.
LEMMA CacheInvSuffices == CacheInv => TypeOK /\ Consistent
<1> SUFFICES ASSUME CacheInv PROVE TypeOK /\ Consistent
  OBVIOUS
<1> USE DEF CacheInv, IInv, Shape, ListInv, CountInv, RecencyInv
<1>1. used \in Nat
  <2>1. Len(ll) \in 0..Len(ll)
    OBVIOUS
  <2> QED
    BY <2>1, TailsizeFacts DEF Total
<1>2. TypeOK
  BY <1>1 DEF TypeOK, Entries
<1>3. Cardinality(items) = Len(ll)
  BY DistinctCard
<1> QED
  BY <1>2, <1>3 DEF Consistent, Elems, Total

\* The cache starts empty.
LEMMA InitCache == Init => CacheInv
<1> SUFFICES ASSUME Init PROVE ListInv /\ CountInv /\ RecencyInv
  BY InitOK DEF CacheInv
<1>1. entry \in Entries
  BY InitOK DEF IInv, Shape
<1>2. Len(<<>>) = 0 /\ <<>> \in Seq(Keys)
  OBVIOUS
<1>3. ll = <<>> /\ recency = <<>> /\ items = {} /\ used = 0
  BY DEF Init
<1>4. Total(<<>>, entry) = 0
  BY <1>1, <1>2, TailsizeFacts DEF Total
<1>5. Elems(<<>>) = {} /\ Distinct(<<>>) /\ Follows(<<>>, <<>>)
  BY <1>2 DEF Elems, Distinct, Follows, Above
<1> QED
  BY <1>2, <1>3, <1>4, <1>5, CacheAssumption DEF ListInv, CountInv, RecencyInv

\* Set puts the key in front, whether it was there or not, counts its new size
\* and evicts from the list so changed.
LEMMA SetEvicts ==
    ASSUME CacheInv, NEW k \in Keys, NEW v \in Vals, Set(k, v)
    PROVE  LET s == ToFront(ll, k) IN
           /\ entry' \in Entries /\ entry'[k].size = Size[v]
           /\ \A j \in Keys \ {k} : entry'[j] = entry[j]
           /\ recency' = ToFront(recency, k)
           /\ evict(s, Elems(s), entry', Total(s, entry'))
<1> DEFINE s == ToFront(ll, k)
           w == Without(ll, k)
<1> USE DEF CacheInv, IInv, Shape, ListInv, CountInv
<1>1. /\ Elems(s) = items \cup {k}
      /\ w \in Seq(Keys) /\ Elems(w) = items \ {k}
      /\ s = <<k>> \o w
  BY FrontFacts, WithoutElems DEF ToFront
<1>2. /\ entry' = [entry EXCEPT ![k] = [val |-> v, size |-> Size[v]]]
      /\ recency' = ToFront(recency, k)
  BY DEF Set, Update, Insert
<1>3. Size[v] \in Nat
  BY CacheAssumption
<1>4. /\ entry' \in Entries /\ entry'[k].size = Size[v]
      /\ \A j \in Keys \ {k} : entry'[j] = entry[j]
  <2>1. [val |-> v, size |-> Size[v]] \in [val : Vals, size : Nat]
    BY <1>3
  <2> QED
    BY <1>2, <2>1 DEF Entries
<1> HIDE DEF w, s
<1>5. Total(s, entry') = Total(w, entry) + Size[v] /\ Total(w, entry) \in Nat
  <2>1. \A j \in Elems(w) : entry'[j] = entry[j]
    BY <1>1, <1>4
  <2>2. Total(w, entry') = Total(w, entry)
    BY <1>1, <1>4, <2>1, TotalOther
  <2>3. Total(s, entry') = Total(w, entry') + entry'[k].size
    BY <1>1, <1>4, TotalCons
  <2>4. Total(w, entry) \in Nat
    <3>1. Len(w) \in 0..Len(w)
      BY <1>1
    <3> QED
      BY <1>1, <3>1, TailsizeFacts DEF Total
  <2> QED
    BY <1>4, <2>2, <2>3, <2>4
<1>6. CASE Update(k, v)
  <2>1. k \in items /\ evict(s, items, entry', used - entry[k].size + Size[v])
    BY <1>6 DEF Update, s
  <2>2. items = Elems(s)
    BY <1>1, <2>1
  <2>3. used = Total(w, entry) + entry[k].size
    BY <2>1, TotalWithout DEF w
  <2>4. entry[k].size \in Nat
    BY DEF Entries
  <2>5. used - entry[k].size + Size[v] = Total(s, entry')
    BY <1>3, <1>5, <2>3, <2>4
  <2> QED
    BY <1>2, <1>4, <2>1, <2>2, <2>5 DEF s
<1>7. CASE Insert(k, v)
  <2>1. k \notin items /\ evict(<<k>> \o ll, items \cup {k}, entry', used + Size[v])
    BY <1>7 DEF Insert
  <2>2. w = ll
    BY <2>1, WithoutNothing DEF w
  <2>3. evict(s, Elems(s), entry', Total(s, entry'))
    BY <1>1, <1>5, <2>1, <2>2
  <2> QED
    BY <1>2, <1>4, <2>3 DEF s
<1> QED
  BY <1>6, <1>7 DEF Set

\* A list that begins like another is in its order.
LEMMA PrefixFollows ==
    ASSUME NEW t \in Seq(Keys), NEW s \in Seq(Keys), NEW r, Len(t) <= Len(s),
           \A i \in 1..Len(t) : t[i] = s[i], Follows(s, r)
    PROVE  Follows(t, r)
<1>1. \A i \in 1..Len(t) : i \in 1..Len(s)
  OBVIOUS
<1>2. Elems(t) \subseteq Elems(s)
  BY <1>1 DEF Elems
<1>3. \A a, b \in Keys : Above(t, a, b) => Above(s, a, b)
  BY <1>1 DEF Above
<1> QED
  BY <1>2, <1>3 DEF Follows

\* Every call preserves the invariant.
LEMMA NextCache == CacheInv /\ [Next]_vars => CacheInv'
<1> SUFFICES ASSUME CacheInv, [Next]_vars PROVE ListInv' /\ CountInv' /\ RecencyInv'
  BY NextOK DEF CacheInv
<1> USE DEF CacheInv, IInv, Shape, ListInv, CountInv, RecencyInv
<1>1. ASSUME NEW k \in Keys, Get(k) PROVE ListInv' /\ CountInv' /\ RecencyInv'
  <2> DEFINE s == ToFront(ll, k)
             w == Without(ll, k)
             r == ToFront(recency, k)
  <2>1. ll' = s /\ recency' = r /\ items' = items /\ entry' = entry /\ used' = used /\ k \in items
    BY <1>1 DEF Get
  <2>2. s \in Seq(Keys) /\ Distinct(s) /\ Elems(s) = items
    <3>1. s \in Seq(Keys) /\ Distinct(s) /\ Elems(s) = Elems(ll) \cup {k}
      BY FrontFacts
    <3> HIDE DEF s
    <3> QED
      BY <2>1, <3>1
  <2>3. r \in Seq(Keys) /\ Distinct(r) /\ Follows(s, r)
    BY FrontFacts, FrontFollows
  <2>4. Total(s, entry) = used
    <3>1. w \in Seq(Keys)
      BY WithoutElems
    <3>2. Total(ll, entry) = Total(w, entry) + entry[k].size
      BY <2>1, TotalWithout
    <3>3. Total(s, entry) = Total(w, entry) + entry[k].size
      <4>1. s = <<k>> \o w
        BY DEF ToFront
      <4> HIDE DEF w, s
      <4> QED
        BY <3>1, <4>1, TotalCons
    <3> QED
      BY <3>2, <3>3
  <2> HIDE DEF s, r
  <2> QED
    BY <2>1, <2>2, <2>3, <2>4
<1>2. ASSUME NEW k \in Keys, Delete(k) PROVE ListInv' /\ CountInv' /\ RecencyInv'
  <2> DEFINE w == Without(ll, k)
  <2>1. /\ ll' = w /\ recency' = recency /\ items' = items \ {k} /\ entry' = entry
        /\ used' = used - entry[k].size /\ k \in items
    BY <1>2 DEF Delete
  <2>2. w \in Seq(Keys) /\ Distinct(w) /\ Elems(w) = items \ {k}
    BY WithoutElems
  <2>3. Follows(w, recency)
    <3>1. \A a, b \in Keys : Above(w, a, b) => Above(ll, a, b)
      BY WithoutOrder
    <3> HIDE DEF w
    <3> QED
      BY <2>2, <3>1 DEF Follows
  <2>4. used' = Total(w, entry) /\ used' <= Cap
    <3>1. used = Total(w, entry) + entry[k].size
      BY <2>1, TotalWithout
    <3>2. entry[k].size \in Nat
      BY DEF Entries
    <3>3. Total(w, entry) \in Nat
      <4> HIDE DEF w
      <4>1. Len(w) \in 0..Len(w)
        BY <2>2
      <4> QED
        BY <2>2, <4>1, TailsizeFacts DEF Total
    <3> HIDE DEF w
    <3> QED
      BY <2>1, <3>1, <3>2, <3>3, CacheAssumption
  <2> HIDE DEF w
  <2> QED
    BY <2>1, <2>2, <2>3, <2>4
<1>3. ASSUME NEW k \in Keys, NEW v \in Vals, Set(k, v)
      PROVE  ListInv' /\ CountInv' /\ RecencyInv'
  <2> DEFINE s == ToFront(ll, k)
             r == ToFront(recency, k)
  <2>1. /\ entry' \in Entries /\ recency' = r
        /\ evict(s, Elems(s), entry', Total(s, entry'))
    BY <1>3, SetEvicts
  <2>2. s \in Seq(Keys) /\ Distinct(s)
    BY FrontFacts
  <2>3. r \in Seq(Keys) /\ Distinct(r) /\ Follows(s, r)
    BY FrontFacts, FrontFollows
  <2> HIDE DEF s, r
  <2>4. PICK n \in 0..Len(s) :
              /\ ll' \in Seq(Keys) /\ Len(ll') = Len(s) - n
              /\ \A i \in 1..(Len(s) - n) : ll'[i] = s[i]
              /\ Distinct(ll') /\ items' = Elems(ll')
              /\ used' = Total(ll', entry') /\ used' <= Cap
    BY <2>1, <2>2, EvictFacts
  <2>5. Len(s) - n <= Len(s)
    BY <2>2
  <2>6. Follows(ll', r)
    BY <2>2, <2>3, <2>4, <2>5, PrefixFollows
  <2> QED
    BY <2>1, <2>3, <2>4, <2>6
<1>4. CASE UNCHANGED vars
  BY <1>4 DEF vars
<1> QED
  BY <1>1, <1>2, <1>3, <1>4 DEF Next

\* The invariant of the cache holds throughout.
THEOREM CacheCorrect == Spec => []CacheInv
  BY InitCache, NextCache, PTL DEF Spec

\* The counter never goes below zero, for any sizes and any cap.
THEOREM TypeCorrect == Spec => []TypeOK
  BY CacheCorrect, CacheInvSuffices, PTL

\* After any sequence of calls the list, the map and the counter describe the
\* same entries, within the cap.
THEOREM CacheStaysConsistent == Spec => []Consistent
  BY CacheCorrect, CacheInvSuffices, PTL

\* Where a key stands in the order of use.
LEMMA PositionFacts ==
    ASSUME CacheInv, NEW a \in Keys, NEW b \in Keys, Above(recency, a, b)
    PROVE  PositionOf(a) < PositionOf(b) /\ PositionOf(a) \in Nat /\ PositionOf(b) \in Nat
<1>1. PICK x \in 1..Len(recency), y \in 1..Len(recency) :
            x < y /\ recency[x] = a /\ recency[y] = b
  BY DEF Above
<1>2. Distinct(recency)
  BY DEF CacheInv, RecencyInv
<1>3. PositionOf(a) \in 1..Len(recency) /\ recency[PositionOf(a)] = a
  BY <1>1 DEF PositionOf
<1>4. PositionOf(b) \in 1..Len(recency) /\ recency[PositionOf(b)] = b
  BY <1>1 DEF PositionOf
<1>5. PositionOf(a) = x /\ PositionOf(b) = y
  BY <1>1, <1>2, <1>3, <1>4 DEF Distinct
<1> QED
  BY <1>1, <1>5

\* What a Set evicts, and what it leaves.
LEMMA SetEvictsLeast ==
    ASSUME CacheInv, NEW k0 \in Keys, NEW v \in Vals, Set(k0, v),
           NEW k \in items \ items'
    PROVE  /\ \A j \in items' : \E i \in 1..Len(recency') :
                 /\ recency'[i] = j
                 /\ \A m \in 1..Len(recency') : recency'[m] = k => i < m
           /\ \E b \in items \ items' :
                 PositionOf(k) <= PositionOf(b) => used' + entry[k].size > Cap
<1> DEFINE s == ToFront(ll, k0)
           r == ToFront(recency, k0)
           L == Len(s)
<1> USE DEF CacheInv, IInv, Shape, ListInv, CountInv, RecencyInv
<1>1. /\ entry' \in Entries /\ entry'[k0].size = Size[v] /\ recency' = r
      /\ \A j \in Keys \ {k0} : entry'[j] = entry[j]
      /\ evict(s, Elems(s), entry', Total(s, entry'))
  BY SetEvicts
<1>2. /\ s \in Seq(Keys) /\ Distinct(s) /\ Elems(s) = items \cup {k0}
      /\ L \in Nat /\ L >= 1 /\ s[1] = k0
      /\ \A a, b \in Keys : Above(s, a, b) /\ a # k0 /\ b # k0 => Above(ll, a, b)
  <2>1. /\ s \in Seq(Keys) /\ Distinct(s) /\ Elems(s) = Elems(ll) \cup {k0}
        /\ L \in Nat /\ L >= 1 /\ s[1] = k0
        /\ \A a, b \in Keys : Above(s, a, b)
              <=> \/ a # k0 /\ b # k0 /\ Above(ll, a, b)
                  \/ a = k0 /\ b \in Elems(ll) \ {k0}
    BY FrontFacts
  <2> HIDE DEF s
  <2> QED
    BY <2>1
<1>3. r \in Seq(Keys) /\ Distinct(r) /\ Follows(s, r)
  BY FrontFacts, FrontFollows
<1> HIDE DEF s, r
<1>4. PICK n \in 0..L :
            /\ ll' \in Seq(Keys) /\ Len(ll') = L - n
            /\ \A i \in 1..(L - n) : ll'[i] = s[i]
            /\ Distinct(ll') /\ items' = Elems(ll')
            /\ used' = Total(ll', entry') /\ used' <= Cap
            /\ n > 0 => used' + SizeAt(s, entry', n) > Cap
  BY <1>1, <1>2, EvictFacts
<1>5. items' = {s[i] : i \in 1..(L - n)}
  BY <1>4 DEF Elems
<1>6. PICK ik \in 1..L : s[ik] = k /\ ik > L - n
  <2>1. PICK ik \in 1..L : s[ik] = k
    BY <1>2 DEF Elems
  <2>2. ik \notin 1..(L - n)
    BY <1>5, <2>1
  <2> QED
    BY <1>2, <2>1, <2>2
<1>7. n \in 1..L /\ n > 0
  BY <1>2, <1>6
<1>8. \A j \in items' : Above(r, j, k)
  <2>1. ASSUME NEW j \in items' PROVE Above(r, j, k)
    <3>1. PICK i \in 1..(L - n) : s[i] = j
      BY <1>5
    <3>2. i \in 1..L /\ i < ik
      BY <1>2, <1>6
    <3>3. Above(s, j, k)
      BY <1>6, <3>1, <3>2 DEF Above
    <3>4. j \in Keys /\ k \in Keys
      BY <1>2, <1>6, <3>1, <3>2
    <3> QED
      BY <1>3, <3>3, <3>4 DEF Follows
  <2> QED
    BY <2>1
<1>9. \A j \in items' : \E i \in 1..Len(r) :
          r[i] = j /\ \A m \in 1..Len(r) : r[m] = k => i < m
  <2>1. ASSUME NEW j \in items'
        PROVE  \E i \in 1..Len(r) : r[i] = j /\ \A m \in 1..Len(r) : r[m] = k => i < m
    <3>1. PICK x \in 1..Len(r), y \in 1..Len(r) : x < y /\ r[x] = j /\ r[y] = k
      BY <1>8 DEF Above
    <3>2. \A m \in 1..Len(r) : r[m] = k => m = y
      BY <1>3, <3>1 DEF Distinct
    <3> QED
      BY <3>1, <3>2
  <2> QED
    BY <2>1
<1> DEFINE p == L - n + 1
           b == s[p]
<1>10. p \in 1..L /\ p \notin 1..(L - n) /\ p <= ik
  BY <1>2, <1>6, <1>7
<1>11. b \notin items' /\ b \in Elems(s)
  <2>1. \A i \in 1..(L - n) : i \in 1..L /\ i # p
    BY <1>2, <1>7, <1>10
  <2> HIDE DEF p
  <2> QED
    BY <1>2, <1>5, <1>10, <2>1 DEF Distinct, Elems
<1>12. SizeAt(s, entry', n) = entry'[b].size
  BY DEF SizeAt
<1>13. n # L
  <2>1. SUFFICES ASSUME n = L PROVE FALSE
    OBVIOUS
  <2>2. b = k0
    BY <1>2, <2>1
  <2>3. Len(ll') = 0
    BY <1>2, <1>4, <2>1
  <2>4. used' = 0
    BY <1>1, <1>4, <2>3, TailsizeFacts DEF Total
  <2>5. used' + Size[v] > Cap
    BY <1>1, <1>4, <1>7, <1>12, <2>2
  <2>6. Size[v] <= Cap /\ Size[v] \in Nat
    BY CacheAssumption DEF Set
  <2> QED
    BY <2>4, <2>5, <2>6, CacheAssumption
<1>14. k0 \in items'
  <2>1. 1 \in 1..(L - n)
    BY <1>2, <1>7, <1>13
  <2> QED
    BY <1>2, <1>5, <2>1
<1>15. b # k0 /\ k # k0 /\ b \in items \ items' /\ b \in Keys /\ k \in Keys
  BY <1>2, <1>11, <1>14
<1>16. ASSUME PositionOf(k) <= PositionOf(b) PROVE used' + entry[k].size > Cap
  <2>1. k = b
    <3>1. SUFFICES ASSUME k # b PROVE FALSE
      OBVIOUS
    <3>2. p < ik
      BY <1>2, <1>6, <1>10, <3>1
    <3>3. Above(s, b, k)
      BY <1>6, <1>10, <3>2 DEF Above
    <3> HIDE DEF b, p
    <3>4. Above(recency, b, k)
      BY <1>2, <1>15, <3>3 DEF Follows
    <3> QED
      BY <1>15, <1>16, <3>4, PositionFacts
  <2>2. entry'[b] = entry[k]
    BY <1>1, <1>15, <2>1
  <2> QED
    BY <1>4, <1>7, <1>12, <2>2
<1> HIDE DEF b
<1> QED
  BY <1>1, <1>9, <1>15, <1>16

\* Eviction, which only Set performs, takes the least recently used entries,
\* and the most recent of those it takes would not have fitted.
THEOREM EvictionTakesLeastRecent == Spec => EvictsLeastRecent
<1>1. ASSUME CacheInv, [Next]_vars PROVE [EvictsNoMore]_vars
  <2>1. ASSUME NEW k \in Keys, Get(k) PROVE Evicted = {}
    BY <2>1 DEF Get, Evicted
  <2>2. ASSUME NEW k \in Keys, Delete(k) PROVE Evicted = {}
    <3>1. items' = items \ {k} /\ stored'[k] = {}
      BY <1>1, <2>2 DEF Delete, CacheInv, IInv, Shape
    <3> QED
      BY <3>1 DEF Evicted
  <2>3. ASSUME NEW k0 \in Keys, NEW v \in Vals, Set(k0, v) PROVE EvictsNoMore
    <3>1. \A j \in items \ items' : j \in Evicted
      <4>1. ASSUME NEW j \in items \ items' PROVE stored'[j] # {}
        <5>1. stored' = [stored EXCEPT ![k0] = {v}] /\ stored \in [Keys -> SUBSET Vals] /\ j \in Keys
          BY <1>1, <2>3 DEF Set, CacheInv, IInv, Shape
        <5>2. stored[j] = {entry[j].val}
          BY <1>1 DEF CacheInv, IInv, ServesLastStored
        <5> QED
          BY <5>1, <5>2
      <4> QED
        BY <4>1 DEF Evicted
    <3>2. ASSUME NEW k \in Evicted
          PROVE  /\ \A j \in items' : \E i \in 1..Len(recency') : recency'[i] = j
                       /\ \A m \in 1..Len(recency') : recency'[m] = k => i < m
                 /\ (\A j \in Evicted : PositionOf(k) <= PositionOf(j))
                       => used' + entry[k].size > Cap
      <4>1. k \in items \ items'
        BY DEF Evicted
      <4>2. \A j \in items' : \E i \in 1..Len(recency') : recency'[i] = j
               /\ \A m \in 1..Len(recency') : recency'[m] = k => i < m
        BY <1>1, <2>3, <4>1, SetEvictsLeast
      <4>3. PICK b \in items \ items' :
                  PositionOf(k) <= PositionOf(b) => used' + entry[k].size > Cap
        BY <1>1, <2>3, <4>1, SetEvictsLeast
      <4>4. b \in Evicted
        BY <3>1
      <4> QED
        BY <4>2, <4>3, <4>4
    <3> QED
      BY <3>2 DEF EvictsNoMore
  <2>4. CASE UNCHANGED vars
    BY <2>4
  <2> QED
    BY <1>1, <2>1, <2>2, <2>3, <2>4 DEF Next, EvictsNoMore
<1> QED
  BY <1>1, CacheCorrect, PTL DEF Spec, EvictsLeastRecent
=============================================================================
