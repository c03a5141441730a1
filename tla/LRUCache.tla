------------------------------ MODULE LRUCache ------------------------------
(***************************************************************************)
(* The byte-capped LRU cache of internal/storage/cache.go.  Its operations *)
(* run under the mutex, so each is one action.  The list ll holds the      *)
(* keys, most recently used first; an element of the list and the pointer  *)
(* to it in the map items are both identified by the key.                  *)
(***************************************************************************)
EXTENDS Integers, Sequences, FiniteSets

CONSTANTS
    Keys,
    Vals,
    Size,       \* Size[v]: len(v)
    Cap         \* c.cap, 64 MB in main

ASSUME CacheAssumption ==
    Vals # {} /\ Size \in [Vals -> Nat] /\ Cap \in Nat

VARIABLES
    ll,         \* the list: keys, front first
    items,      \* the map: its keys
    entry,      \* entry[k]: val and size of the list element of k
    used,       \* c.used
    \* history
    stored,     \* stored[k]: the values the callers may see: set last, not deleted
    recency     \* the keys ever used, most recently used first

vars == <<ll, items, entry, used, stored, recency>>

NoEntry == [val |-> CHOOSE v \in Vals : TRUE, size |-> 0]

Init ==
    /\ ll = <<>> /\ items = {} /\ used = 0
    /\ entry = [k \in Keys |-> NoEntry]
    /\ stored = [k \in Keys |-> {}]
    /\ recency = <<>>

\* list.Remove: the elements behind that of k move up.
Without(s, k) ==
    LET p == CHOOSE i \in 1..Len(s) : s[i] = k
    IN IF \E i \in 1..Len(s) : s[i] = k
         THEN [i \in 1..(Len(s) - 1) |-> IF i < p THEN s[i] ELSE s[i + 1]]
         ELSE s

\* list.MoveToFront
ToFront(s, k) == <<k>> \o Without(s, k)

\* The total size of the last n elements of a list s with entries en.
Tailsize(s, en, n) ==
    LET sum[i \in 0..Len(s)] ==
          IF i = 0 THEN 0 ELSE sum[i - 1] + en[s[Len(s) - i + 1]].size
    IN sum[n]

\* evict on the list s, map m, entries en and counter u: removeElement of the
\* back of the list until the counter is within the cap or the list is empty.
evict(s, m, en, u) ==
    LET enough(n) == u - Tailsize(s, en, n) <= Cap \/ n = Len(s)
        n == CHOOSE x \in 0..Len(s) : enough(x) /\ \A y \in 0..(x - 1) : ~enough(y)
    IN /\ ll' = SubSeq(s, 1, Len(s) - n)
       /\ items' = m \ {s[i] : i \in (Len(s) - n + 1)..Len(s)}
       /\ used' = u - Tailsize(s, en, n)

\* Mutant: a hit does not move the element.
Get_NoMove(k) ==
    /\ k \in items
    /\ recency' = ToFront(recency, k)
    /\ UNCHANGED <<ll, items, entry, used, stored>>

\* A hit moves the element to the front; a miss changes nothing.
Get(k) ==
    /\ k \in items
    /\ ll' = ToFront(ll, k)
    /\ recency' = ToFront(recency, k)
    /\ UNCHANGED <<items, entry, used, stored>>

\* Mutant: the update of an existing entry keeps its old size in the count.
Update_KeepsCount(k, v) ==
    /\ k \in items
    /\ entry' = [entry EXCEPT ![k] = [val |-> v, size |-> Size[v]]]
    /\ evict(ToFront(ll, k), items, entry', used + Size[v])

\* Mutant: the value of an existing entry is not replaced.
Update_KeepsValue(k, v) ==
    /\ k \in items
    /\ entry' = [entry EXCEPT ![k].size = Size[v]]
    /\ evict(ToFront(ll, k), items, entry', used - entry[k].size + Size[v])

Update(k, v) ==
    /\ k \in items
    /\ entry' = [entry EXCEPT ![k] = [val |-> v, size |-> Size[v]]]
    /\ evict(ToFront(ll, k), items, entry', used - entry[k].size + Size[v])

Insert(k, v) ==
    /\ k \notin items
    /\ entry' = [entry EXCEPT ![k] = [val |-> v, size |-> Size[v]]]
    /\ evict(<<k>> \o ll, items \cup {k}, entry', used + Size[v])

\* A value larger than the cap is skipped, and an older value of the key stays.
Set(k, v) ==
    /\ Size[v] <= Cap
    /\ Update(k, v) \/ Insert(k, v)
    /\ stored' = [stored EXCEPT ![k] = {v}]
    /\ recency' = ToFront(recency, k)

\* Mutant: removeElement without looking the key up.
Delete_Unchecked(k) ==
    /\ ll' = Without(ll, k)
    /\ items' = items \ {k}
    /\ used' = used - entry[k].size
    /\ stored' = [stored EXCEPT ![k] = {}]
    /\ UNCHANGED <<entry, recency>>

\* Delete, removeElement
Delete(k) ==
    /\ k \in items
    /\ ll' = Without(ll, k)
    /\ items' = items \ {k}
    /\ used' = used - entry[k].size
    /\ stored' = [stored EXCEPT ![k] = {}]
    /\ UNCHANGED <<entry, recency>>

Next == \E k \in Keys : Get(k) \/ Delete(k) \/ \E v \in Vals : Set(k, v)

Spec == Init /\ [][Next]_vars
-----------------------------------------------------------------------------
\* Every variable stays in its type; in particular the counter never goes
\* below zero.
TypeOK ==
    /\ ll \in Seq(Keys) /\ items \subseteq Keys
    /\ entry \in [Keys -> [val : Vals, size : Nat]]
    /\ used \in Nat
    /\ stored \in [Keys -> SUBSET Vals]
    /\ recency \in Seq(Keys)

\* The list, the map and the counter describe the same entries after any
\* sequence of calls, and together they are within the cap.
Consistent ==
    /\ Cardinality(items) = Len(ll) /\ items = {ll[i] : i \in 1..Len(ll)}
    /\ used = Tailsize(ll, entry, Len(ll))
    /\ used <= Cap

\* The cache never serves a value other than the one last set (a Set above the
\* cap, which the code skips, does not count), nor one that was deleted: the
\* write handlers rely on Delete to invalidate.
ServesLastStored == \A k \in items : stored[k] = {entry[k].val}

PositionOf(k) == CHOOSE i \in 1..Len(recency) : recency[i] = k

\* The entries a step evicts.
Evicted == {k \in items \ items' : stored'[k] # {}}

EvictsNoMore ==
    \A k \in Evicted :
        /\ \A j \in items' : \E i \in 1..Len(recency') : recency'[i] = j
              /\ \A m \in 1..Len(recency') : recency'[m] = k => i < m
        /\ (\A j \in Evicted : PositionOf(k) <= PositionOf(j))
              => used' + entry[k].size > Cap

\* Eviction, which only Set performs, takes the least recently used entries
\* and no more of them than needed: every entry kept was used after every
\* entry evicted, and the most recent of those would not have fitted.
EvictsLeastRecent == [][EvictsNoMore]_vars
=============================================================================
