--------------------------- MODULE LruCacheProofs ---------------------------
(***************************************************************************)
(* The cache under any sequence of operations, for every capacity and      *)
(* every set of keys and values: the values and the map from an invariant  *)
(* on their agreement, the eviction order from one on when keys were used. *)
(***************************************************************************)
EXTENDS LruCacheSpec, CollectionLemmas, FiniteSetTheorems

LruInv ==
    /\ cache \in Caches(Key, Val, CacheCap)
    /\ given \in [Key -> Val \cup {Nothing}]
    /\ ServesLatestPut

LEMMA LruInvInit == Init => LruInv
<1> SUFFICES ASSUME Init PROVE LruInv
  OBVIOUS
<1> QED
  BY CacheAssumption, NewLRUType DEF Init, LruInv, ServesLatestPut

LEMMA LruInvNext ==
    ASSUME LruInv, [Next]_vars
    PROVE  LruInv'
<1>0. /\ cache \in Caches(Key, Val, CacheCap)
      /\ given \in [Key -> Val \cup {Nothing}]
      /\ \A k \in DOMAIN cache.items : k \in Key /\ cache.items[k] = given[k]
  BY PartialMapElim DEF LruInv, ServesLatestPut, Caches
<1>1. ASSUME NEW k \in Key, Hit(k)
      PROVE  LruInv'
  <2>1. cache' \in Caches(Key, Val, CacheCap) /\ cache'.items = cache.items
    BY <1>0, <1>1, CacheAssumption, LruGetPreserves DEF Hit
  <2>2. given' = given
    BY <1>1 DEF Hit
  <2> QED
    BY <1>0, <2>1, <2>2 DEF LruInv, ServesLatestPut
<1>2. ASSUME NEW k \in Key, NEW v \in Val, Put(k, v)
      PROVE  LruInv'
  <2>1. /\ cache' \in Caches(Key, Val, CacheCap)
        /\ \A x \in DOMAIN cache'.items :
              \/ x = k /\ cache'.items[x] = v
              \/ x # k /\ x \in DOMAIN cache.items /\ cache'.items[x] = cache.items[x]
    BY <1>0, <1>2, CacheAssumption, LruPutPreserves DEF Put
  <2>2. /\ given' \in [Key -> Val \cup {Nothing}]
        /\ given'[k] = v
        /\ \A x \in Key \ {k} : given'[x] = given[x]
    BY <1>0, <1>2 DEF Put
  <2> QED
    BY <1>0, <2>1, <2>2 DEF LruInv, ServesLatestPut
<1>3. ASSUME NEW k \in Key, Drop(k)
      PROVE  LruInv'
  <2>1. /\ cache' \in Caches(Key, Val, CacheCap)
        /\ DOMAIN cache'.items = DOMAIN cache.items \ {k}
        /\ \A x \in DOMAIN cache.items \ {k} : cache'.items[x] = cache.items[x]
    BY <1>0, <1>3, CacheAssumption, LruRemovePreserves DEF Drop
  <2>2. /\ given' \in [Key -> Val \cup {Nothing}]
        /\ \A x \in Key \ {k} : given'[x] = given[x]
    BY <1>0, <1>3 DEF Drop
  <2> QED
    BY <1>0, <2>1, <2>2 DEF LruInv, ServesLatestPut
<1>4. CASE UNCHANGED vars
  BY <1>4 DEF vars, LruInv, ServesLatestPut
<1> QED
  BY <1>1, <1>2, <1>3, <1>4 DEF Next

LEMMA LruInvariant == Spec => []LruInv
BY LruInvInit, LruInvNext, PTL DEF Spec

\* However the cache is used, its list and its map hold the same keys, once
\* each and within capacity (store.go, lruCache.get, put and remove).
THEOREM CacheListAndMapAgree == Spec => []ListAndMapAgree
<1>1. LruInv => ListAndMapAgree
  BY DEF LruInv, Caches, ListAndMapAgree
<1> QED
  BY <1>1, LruInvariant, PTL

\* A hit never serves a value from before the key's latest put or removal.
THEOREM CacheServesLatestPut == Spec => []ServesLatestPut
<1>1. LruInv => ServesLatestPut
  BY DEF LruInv
<1> QED
  BY <1>1, LruInvariant, PTL

-----------------------------------------------------------------------------
(* Least recently used.  The list is kept in the order of last use, so the *)
(* key an eviction takes is older than CacheCap cached ones; they remain   *)
(* witnesses that it was not recently used until it is used again.         *)

Ordered(s, use) ==
    \A i, j \in 1..Len(s) : i < j => use[s[i]] > use[s[j]]

UsedKeys == {x \in Key : lastUse[x] > 0}

UseInv ==
    /\ clock \in Nat
    /\ lastUse \in [Key -> Nat]
    /\ \A k \in Key : lastUse[k] <= clock
    /\ IsFiniteSet(UsedKeys)

OrderInv == Ordered(cache.ll, lastUse)

Outlived(k) ==
    \E S \in SUBSET UsedSince(k) : IsFiniteSet(S) /\ Cardinality(S) = CacheCap

OldInv ==
    \A k \in Key : given[k] # Nothing /\ ~Cached(cache, k) => Outlived(k)

RecentInv == UseInv /\ OrderInv /\ OldInv

\* A list without repetition has as many keys as entries.
LEMMA InjectiveCount ==
    ASSUME NEW S, NEW s \in Seq(S), IsInjective(s)
    PROVE  IsFiniteSet(ToSet(s)) /\ Cardinality(ToSet(s)) = Len(s)
<1>0. DOMAIN s = 1..Len(s) /\ Len(s) \in Nat /\ s \in [1..Len(s) -> ToSet(s)]
  BY LenProperties DEF ToSet
<1>1. s \in Bijection(1..Len(s), ToSet(s))
  <2>1. s \in Injection(1..Len(s), ToSet(s))
    BY <1>0 DEF IsInjective, Injection
  <2>2. s \in Surjection(1..Len(s), ToSet(s))
    BY <1>0 DEF ToSet, Surjection
  <2> QED
    BY <2>1, <2>2 DEF Bijection
<1>2. ExistsBijection(1..Len(s), ToSet(s))
  BY <1>1 DEF ExistsBijection
<1> QED
  BY <1>0, <1>2, FS_NatBijection, FS_CountingElements

\* Taking a key out keeps the order of the others.
LEMMA WithoutIsOrdered ==
    ASSUME NEW S, NEW s \in Seq(S), NEW k \in ToSet(s), NEW use,
           Ordered(s, use)
    PROVE  Ordered(Without(s, k), use)
<1> DEFINE i == CHOOSE j \in 1..Len(s) : s[j] = k
           w == RemoveAt(s, i)
           old(j) == IF j < i THEN j ELSE j+1
<1>0. DOMAIN s = 1..Len(s) /\ Len(s) \in Nat
  BY LenProperties
<1>1. i \in 1..Len(s)
  BY <1>0 DEF ToSet
<1>2. Without(s, k) = w
  BY DEF Without
<1> HIDE DEF i
<1>3. /\ Len(w) = Len(s) - 1
      /\ \A j \in 1..Len(s)-1 : w[j] = IF j < i THEN s[j] ELSE s[j+1]
  BY <1>1, RemoveAtProperties
<1> HIDE DEF w
<1>4. SUFFICES ASSUME NEW a \in 1..Len(w), NEW b \in 1..Len(w), a < b
               PROVE  use[w[a]] > use[w[b]]
  BY <1>2 DEF Ordered
<1>5. /\ old(a) \in 1..Len(s) /\ old(b) \in 1..Len(s) /\ old(a) < old(b)
      /\ w[a] = s[old(a)] /\ w[b] = s[old(b)]
  BY <1>0, <1>1, <1>3, <1>4
<1> QED
  BY <1>5 DEF Ordered

\* The key just used, pushed to the front, is in its place.
LEMMA PushFrontIsOrdered ==
    ASSUME NEW S, NEW s \in Seq(S), NEW k \in S, NEW use,
           Ordered(s, use), \A x \in ToSet(s) : use[k] > use[x]
    PROVE  Ordered(<< k >> \o s, use)
<1> DEFINE w == << k >> \o s
<1>0. DOMAIN s = 1..Len(s) /\ Len(s) \in Nat
  BY LenProperties
<1>1. /\ << k >> \in Seq(S) /\ Len(<< k >>) = 1 /\ << k >>[1] = k
  OBVIOUS
<1>2. /\ Len(w) = Len(s) + 1
      /\ \A j \in 1..Len(s)+1 : w[j] = IF j <= 1 THEN << k >>[j] ELSE s[j-1]
  BY <1>0, <1>1, ConcatProperties
<1>3. w[1] = k /\ \A j \in 2..Len(s)+1 : w[j] = s[j-1] /\ j-1 \in 1..Len(s)
  BY <1>0, <1>1, <1>2
<1> HIDE DEF w
<1>4. SUFFICES ASSUME NEW a \in 1..Len(w), NEW b \in 1..Len(w), a < b
               PROVE  use[w[a]] > use[w[b]]
  BY DEF Ordered, w
<1>5. b \in 2..Len(s)+1
  BY <1>0, <1>2, <1>4
<1>6. CASE a = 1
  <2>1. w[b] \in ToSet(s)
    BY <1>0, <1>3, <1>5 DEF ToSet
  <2> QED
    BY <1>3, <1>6, <2>1
<1>7. CASE a # 1
  <2>1. a \in 2..Len(s)+1 /\ a-1 < b-1
    BY <1>0, <1>2, <1>4, <1>7
  <2> QED
    BY <1>3, <1>5, <2>1 DEF Ordered
<1> QED
  BY <1>6, <1>7

\* The back of the list is its least recently used key.
LEMMA FrontIsOrdered ==
    ASSUME NEW S, NEW s \in Seq(S), s # << >>, NEW use, Ordered(s, use)
    PROVE  /\ Ordered(Front(s), use)
           /\ \A x \in ToSet(Front(s)) : use[x] > use[Last(s)]
<1> DEFINE n == Len(s)
           w == SubSeq(s, 1, n-1)
<1>0. DOMAIN s = 1..n /\ n \in Nat /\ n >= 1
  BY LenProperties, EmptySeq
<1>1. /\ w \in Seq(S) /\ Len(w) = n-1
      /\ \A j \in 1..n-1 : w[j] = s[j]
  BY <1>0, SubSeqProperties
<1>2. DOMAIN w = 1..n-1
  BY <1>1, LenProperties
<1>3. Front(s) = w /\ Last(s) = s[n]
  BY DEF Front, Last
<1> HIDE DEF w
<1>4. Ordered(w, use)
  <2>1. SUFFICES ASSUME NEW a \in 1..n-1, NEW b \in 1..n-1, a < b
                 PROVE  use[s[a]] > use[s[b]]
    BY <1>1 DEF Ordered
  <2>2. a \in 1..Len(s) /\ b \in 1..Len(s)
    BY <1>0
  <2> QED
    BY <2>1, <2>2 DEF Ordered
<1>5. \A x \in ToSet(w) : use[x] > use[s[n]]
  BY <1>0, <1>1, <1>2 DEF Ordered, ToSet
<1> QED
  BY <1>3, <1>4, <1>5

\* A use of k leaves the order of a list without k as it was.
LEMMA UseOfOther ==
    ASSUME NEW s \in Seq(Key), NEW k, k \notin ToSet(s), NEW use \in [Key -> Nat],
           NEW t, Ordered(s, use)
    PROVE  Ordered(s, [use EXCEPT ![k] = t])
<1> DEFINE u == [use EXCEPT ![k] = t]
<1>1. \A i \in 1..Len(s) : s[i] \in Key /\ s[i] # k
  BY LenProperties DEF ToSet
<1>2. \A i \in 1..Len(s) : u[s[i]] = use[s[i]]
  BY <1>1
<1> HIDE DEF u
<1>3. Ordered(s, u)
  BY <1>2 DEF Ordered
<1> QED
  BY <1>3 DEF u

\* What a use does to the clock, and whom it makes older.
LEMMA UseEffect ==
    ASSUME UseInv, NEW k \in Key, Use(k)
    PROVE  /\ UseInv'
           /\ lastUse' = [lastUse EXCEPT ![k] = clock + 1]
           /\ \A x \in Key : x # k => lastUse'[k] > lastUse'[x]
           /\ \A x \in Key : x # k => UsedSince(x) \subseteq UsedSince(x)'
<1>1. /\ clock' = clock + 1 /\ lastUse' = [lastUse EXCEPT ![k] = clock + 1]
      /\ clock \in Nat /\ lastUse \in [Key -> Nat]
      /\ \A x \in Key : lastUse[x] <= clock
  BY DEF Use, UseInv
<1>2. /\ lastUse' \in [Key -> Nat] /\ lastUse'[k] = clock + 1
      /\ \A x \in Key : x # k => lastUse'[x] = lastUse[x]
  BY <1>1
<1>3. UsedKeys' = UsedKeys \cup {k}
  BY <1>1, <1>2 DEF UsedKeys
<1>4. IsFiniteSet(UsedKeys')
  BY <1>3, FS_AddElement DEF UseInv
<1>5. \A x \in Key : lastUse'[x] <= clock'
  BY <1>1, <1>2
<1>6. UseInv'
  BY <1>1, <1>2, <1>4, <1>5 DEF UseInv
<1>7. ASSUME NEW x \in Key, x # k
      PROVE  lastUse'[k] > lastUse'[x] /\ UsedSince(x) \subseteq UsedSince(x)'
  <2>1. lastUse'[k] > lastUse'[x] /\ lastUse'[x] = lastUse[x]
    BY <1>1, <1>2, <1>7
  <2>2. \A y \in Key : lastUse[y] > lastUse[x] => lastUse'[y] > lastUse'[x]
    BY <1>2, <1>7, <2>1
  <2> QED
    BY <2>1, <2>2 DEF UsedSince
<1> QED
  BY <1>1, <1>6, <1>7

LEMMA StillOutlived ==
    ASSUME NEW x, UsedSince(x) \subseteq UsedSince(x)', Outlived(x)
    PROVE  Outlived(x)'
BY DEF Outlived

LEMMA ListOfCaches ==
    ASSUME NEW c \in Caches(Key, Val, CacheCap)
    PROVE  /\ c.ll \in Seq(Key) /\ IsInjective(c.ll) /\ Len(c.ll) <= CacheCap
           /\ DOMAIN c.items = ToSet(c.ll) /\ ToSet(c.ll) \subseteq Key
           /\ Len(c.ll) \in Nat
<1>1. /\ c.ll \in Seq(Key) /\ IsInjective(c.ll) /\ Len(c.ll) <= CacheCap
      /\ DOMAIN c.items = ToSet(c.ll)
  BY DEF Caches, LruWellFormed
<1>2. ToSet(c.ll) \subseteq Key /\ Len(c.ll) \in Nat
  BY <1>1, LenProperties DEF ToSet
<1> QED
  BY <1>1, <1>2

\* Moving the key just used to the front restores the order.
LEMMA MovedIsOrdered ==
    ASSUME NEW s \in Seq(Key), IsInjective(s), NEW k \in ToSet(s), k \in Key,
           NEW use \in [Key -> Nat], Ordered(s, use),
           NEW t \in Nat, \A x \in Key : use[x] < t
    PROVE  Ordered(MoveToFront(s, k), [use EXCEPT ![k] = t])
<1> DEFINE w == Without(s, k)
           u == [use EXCEPT ![k] = t]
<1>0. ToSet(s) \subseteq Key
  BY LenProperties DEF ToSet
<1>1. w \in Seq(Key) /\ ToSet(w) = ToSet(s) \ {k} /\ ToSet(s) \subseteq Key
  BY <1>0, WithoutProperties
<1>2. Ordered(w, use)
  BY WithoutIsOrdered
<1>3. MoveToFront(s, k) = << k >> \o w
  BY DEF MoveToFront
<1> HIDE DEF w
<1>4. Ordered(w, u)
  BY <1>1, <1>2, UseOfOther
<1>5. \A x \in ToSet(w) : u[k] > u[x]
  BY <1>1
<1> HIDE DEF u
<1>6. Ordered(<< k >> \o w, u)
  BY <1>1, <1>4, <1>5, PushFrontIsOrdered
<1> QED
  BY <1>3, <1>6 DEF u

LEMMA RecentHit ==
    ASSUME LruInv, RecentInv, NEW k \in Key, Hit(k)
    PROVE  RecentInv'
<1>0. /\ cache \in Caches(Key, Val, CacheCap) /\ k \in ToSet(cache.ll)
      /\ cache' = LruGet(cache, k) /\ given' = given
  BY ListOfCaches DEF LruInv, Hit, Cached
<1>1. /\ UseInv' /\ lastUse' = [lastUse EXCEPT ![k] = clock + 1]
      /\ \A x \in Key : x # k => UsedSince(x) \subseteq UsedSince(x)'
  BY UseEffect DEF Hit, RecentInv
<1>2. OrderInv'
  <2>1. cache'.ll = MoveToFront(cache.ll, k)
    BY <1>0 DEF LruGet, Caches
  <2>2. /\ clock + 1 \in Nat /\ lastUse \in [Key -> Nat]
        /\ \A x \in Key : lastUse[x] < clock + 1
    BY DEF RecentInv, UseInv
  <2>3. Ordered(cache.ll, lastUse)
    BY DEF RecentInv, OrderInv
  <2>4. cache.ll \in Seq(Key) /\ IsInjective(cache.ll)
    BY <1>0, ListOfCaches
  <2>5. Ordered(MoveToFront(cache.ll, k), [lastUse EXCEPT ![k] = clock + 1])
    BY <1>0, <2>2, <2>3, <2>4, MovedIsOrdered
  <2> QED
    BY <1>1, <2>1, <2>5 DEF OrderInv, Ordered
<1>3. OldInv'
  <2>1. cache'.items = cache.items
    BY <1>0, CacheAssumption, LruGetPreserves
  <2>2. SUFFICES ASSUME NEW x \in Key, given[x] # Nothing, ~Cached(cache, x)
                 PROVE  Outlived(x)'
    BY <1>0, <2>1 DEF OldInv, Cached
  <2>3. x # k /\ Outlived(x)
    BY <2>2 DEF Hit, RecentInv, OldInv
  <2> QED
    BY <1>1, <2>3, StillOutlived
<1> QED
  BY <1>1, <1>2, <1>3 DEF RecentInv

\* A put of a cached key touches it; of a new one, it pushes it to the front
\* and evicts the back of a full list.
LEMMA PutShape ==
    ASSUME NEW c \in Caches(Key, Val, CacheCap), NEW k \in Key, NEW v \in Val
    PROVE  LET l == << k >> \o c.ll
               p == LruPut(c, k, v)
           IN  \/ k \in ToSet(c.ll) /\ p.ll = MoveToFront(c.ll, k)
                  /\ DOMAIN p.items = ToSet(c.ll)
               \/ k \notin ToSet(c.ll) /\ p.ll = l
                  /\ DOMAIN p.items = ToSet(c.ll) \cup {k}
               \/ k \notin ToSet(c.ll) /\ p.ll = Front(l) /\ Len(l) > CacheCap
                  /\ DOMAIN p.items = (ToSet(c.ll) \cup {k}) \ {Last(l)}
<1> DEFINE l == << k >> \o c.ll
           p == LruPut(c, k, v)
           m == Bind(c.items, k, v)
<1>1. DOMAIN c.items = ToSet(c.ll) /\ c.cap = CacheCap
  BY ListOfCaches DEF Caches
<1>2. DOMAIN m = ToSet(c.ll) \cup {k}
  BY <1>1 DEF Bind
<1>3. DOMAIN Unbind(m, Last(l)) = DOMAIN m \ {Last(l)}
  BY DEF Unbind, Restrict
<1>4. CASE Cached(c, k)
  <2>1. p = [cap |-> c.cap, ll |-> MoveToFront(c.ll, k), items |-> m]
    BY <1>4 DEF LruPut
  <2>2. k \in ToSet(c.ll)
    BY <1>1, <1>4 DEF Cached
  <2>3. DOMAIN m = ToSet(c.ll)
    BY <1>2, <2>2
  <2> HIDE DEF m, p, l
  <2>4. p.ll = MoveToFront(c.ll, k) /\ DOMAIN p.items = ToSet(c.ll)
    BY <2>1, <2>3
  <2> QED
    BY <2>2, <2>4 DEF p
<1>5. CASE ~Cached(c, k)
  <2>1. p = IF Len(l) > CacheCap
              THEN [cap |-> CacheCap, ll |-> Front(l), items |-> Unbind(m, Last(l))]
              ELSE [cap |-> CacheCap, ll |-> l, items |-> m]
    BY <1>1, <1>5 DEF LruPut, LruInsert
  <2>2. k \notin ToSet(c.ll)
    BY <1>1, <1>5 DEF Cached
  <2> QED
    BY <1>2, <1>3, <2>1, <2>2
<1> QED
  BY <1>4, <1>5

LEMMA RecentPut ==
    ASSUME LruInv, RecentInv, NEW k \in Key, NEW v \in Val, Put(k, v)
    PROVE  RecentInv'
<1> DEFINE s == cache.ll
           l == << k >> \o s
           u == [lastUse EXCEPT ![k] = clock + 1]
<1>0. /\ cache \in Caches(Key, Val, CacheCap) /\ cache' = LruPut(cache, k, v)
      /\ \A x \in Key : x # k => given'[x] = given[x]
  BY DEF LruInv, Put
<1>1. /\ UseInv' /\ lastUse' = u
      /\ \A x \in Key : x # k => UsedSince(x) \subseteq UsedSince(x)'
  BY UseEffect DEF Put, RecentInv
<1>2. /\ clock + 1 \in Nat /\ lastUse \in [Key -> Nat]
      /\ \A x \in Key : lastUse[x] < clock + 1
      /\ Ordered(s, lastUse)
  BY DEF RecentInv, UseInv, OrderInv
<1>3. /\ s \in Seq(Key) /\ IsInjective(s) /\ Len(s) <= CacheCap
      /\ DOMAIN cache.items = ToSet(s) /\ ToSet(s) \subseteq Key /\ Len(s) \in Nat
  BY <1>0, ListOfCaches
<1>4. u[k] = clock + 1 /\ \A x \in Key : x # k => u[x] = lastUse[x]
  BY <1>2
<1>5. ASSUME k \notin ToSet(s)
      PROVE  /\ Ordered(l, u) /\ l \in Seq(Key) /\ IsInjective(l)
             /\ Len(l) = Len(s) + 1 /\ ToSet(l) = ToSet(s) \cup {k} /\ l # << >>
  <2>1. Ordered(s, u)
    BY <1>2, <1>3, <1>5, UseOfOther
  <2>2. \A x \in ToSet(s) : u[k] > u[x]
    BY <1>2, <1>3, <1>4, <1>5
  <2> HIDE DEF u
  <2>3. Ordered(l, u)
    BY <1>3, <2>1, <2>2, PushFrontIsOrdered
  <2>4. /\ l \in Seq(Key) /\ IsInjective(l) /\ Len(l) = Len(s) + 1
        /\ ToSet(l) = ToSet(s) \cup {k}
    BY <1>3, <1>5, PushFrontProperties
  <2>5. l # << >>
    BY <1>3, <2>4, EmptySeq
  <2> QED
    BY <2>3, <2>4, <2>5
<1>6. CASE k \in ToSet(s) /\ cache'.ll = MoveToFront(s, k)
           /\ DOMAIN cache'.items = ToSet(s)
  <2>1. OrderInv'
    <3>1. Ordered(MoveToFront(s, k), u)
      BY <1>2, <1>3, <1>6, MovedIsOrdered
    <3> QED
      BY <1>1, <1>6, <3>1 DEF OrderInv, Ordered
  <2>2. OldInv'
    <3>1. SUFFICES ASSUME NEW x \in Key, given'[x] # Nothing, x \notin ToSet(s)
                   PROVE  Outlived(x)'
      BY <1>6 DEF OldInv, Cached
    <3>2. x # k /\ Outlived(x)
      BY <1>0, <1>3, <1>6, <3>1 DEF RecentInv, OldInv, Cached
    <3> QED
      BY <1>1, <3>2, StillOutlived
  <2> QED
    BY <1>1, <2>1, <2>2 DEF RecentInv
<1>7. CASE k \notin ToSet(s) /\ cache'.ll = l
           /\ DOMAIN cache'.items = ToSet(s) \cup {k}
  <2>1. OrderInv'
    BY <1>1, <1>5, <1>7 DEF OrderInv, Ordered
  <2>2. OldInv'
    <3>1. SUFFICES ASSUME NEW x \in Key, given'[x] # Nothing, x \notin ToSet(s) \cup {k}
                   PROVE  Outlived(x)'
      BY <1>7 DEF OldInv, Cached
    <3>2. x # k /\ Outlived(x)
      BY <1>0, <1>3, <3>1 DEF RecentInv, OldInv, Cached
    <3> QED
      BY <1>1, <3>2, StillOutlived
  <2> QED
    BY <1>1, <2>1, <2>2 DEF RecentInv
<1>8. CASE k \notin ToSet(s) /\ cache'.ll = Front(l) /\ Len(l) > CacheCap
           /\ DOMAIN cache'.items = (ToSet(s) \cup {k}) \ {Last(l)}
  <2>0. /\ Ordered(l, u) /\ l \in Seq(Key) /\ IsInjective(l)
        /\ Len(l) = Len(s) + 1 /\ ToSet(l) = ToSet(s) \cup {k} /\ l # << >>
    BY <1>5, <1>8
  <2> HIDE DEF l, u
  <2>1. /\ Ordered(Front(l), u)
        /\ \A x \in ToSet(Front(l)) : u[x] > u[Last(l)]
    BY <2>0, FrontIsOrdered
  <2>2. /\ Front(l) \in Seq(Key) /\ IsInjective(Front(l))
        /\ Len(Front(l)) = Len(l) - 1 /\ ToSet(Front(l)) = ToSet(l) \ {Last(l)}
    BY <2>0, FrontProperties
  <2>3. OrderInv'
    BY <1>1, <1>8, <2>1 DEF OrderInv, Ordered
  <2>4. ASSUME NEW x \in Key, x = Last(l)
        PROVE  Outlived(x)'
    <3>1. /\ IsFiniteSet(ToSet(Front(l)))
          /\ Cardinality(ToSet(Front(l))) = CacheCap
      <4>1. Len(Front(l)) = CacheCap
        BY <1>3, <1>8, <2>0, <2>2, CacheAssumption
      <4> QED
        BY <2>2, <4>1, InjectiveCount
    <3>2. ToSet(Front(l)) \subseteq Key
      BY <1>3, <2>0, <2>2
    <3>3. ToSet(Front(l)) \subseteq {y \in Key : u[y] > u[x]}
      BY <2>1, <2>4, <3>2
    <3>4. UsedSince(x)' = {y \in Key : u[y] > u[x]}
      BY <1>1 DEF UsedSince
    <3> QED
      BY <3>1, <3>3, <3>4 DEF Outlived
  <2>5. OldInv'
    <3>1. SUFFICES ASSUME NEW x \in Key, given'[x] # Nothing,
                          x \notin (ToSet(s) \cup {k}) \ {Last(l)}
                   PROVE  Outlived(x)'
      BY <1>8 DEF OldInv, Cached
    <3>2. CASE x = Last(l)
      BY <2>4, <3>2
    <3>3. CASE x # Last(l)
      <4>1. x # k /\ Outlived(x)
        BY <1>0, <1>3, <3>1, <3>3 DEF RecentInv, OldInv, Cached
      <4> QED
        BY <1>1, <4>1, StillOutlived
    <3> QED
      BY <3>2, <3>3
  <2> QED
    BY <1>1, <2>3, <2>5 DEF RecentInv
<1> QED
  BY <1>0, <1>6, <1>7, <1>8, PutShape

LEMMA RecentDrop ==
    ASSUME LruInv, RecentInv, NEW k \in Key, Drop(k)
    PROVE  RecentInv'
<1>0. /\ cache \in Caches(Key, Val, CacheCap) /\ given \in [Key -> Val \cup {Nothing}]
      /\ cache' = LruRemove(cache, k)
      /\ given' = [given EXCEPT ![k] = Nothing]
      /\ clock' = clock /\ lastUse' = lastUse
  BY DEF LruInv, Drop
<1>1. UseInv'
  BY <1>0 DEF RecentInv, UseInv, UsedKeys
<1>2. OrderInv'
  <2>1. cache.ll \in Seq(Key) /\ DOMAIN cache.items = ToSet(cache.ll)
    BY <1>0, ListOfCaches
  <2>2. CASE Cached(cache, k)
    <3>1. cache'.ll = Without(cache.ll, k)
      BY <1>0, <2>2 DEF LruRemove
    <3>2. Ordered(Without(cache.ll, k), lastUse)
      BY <2>1, <2>2, WithoutIsOrdered DEF Cached, RecentInv, OrderInv
    <3> QED
      BY <1>0, <3>1, <3>2 DEF OrderInv
  <2>3. CASE ~Cached(cache, k)
    BY <1>0, <2>3 DEF LruRemove, RecentInv, OrderInv
  <2> QED
    BY <2>2, <2>3
<1>3. OldInv'
  <2>1. DOMAIN cache'.items = DOMAIN cache.items \ {k}
    BY <1>0, CacheAssumption, LruRemovePreserves
  <2>2. SUFFICES ASSUME NEW x \in Key, given'[x] # Nothing, ~Cached(cache, x) \/ x = k
                 PROVE  Outlived(x)'
    BY <2>1 DEF OldInv, Cached
  <2>3. x # k /\ given'[x] = given[x]
    BY <1>0, <2>2
  <2>4. Outlived(x)
    BY <2>2, <2>3 DEF RecentInv, OldInv
  <2> QED
    BY <1>0, <2>4 DEF Outlived, UsedSince
<1> QED
  BY <1>1, <1>2, <1>3 DEF RecentInv

LEMMA RecentInit == Init => RecentInv
<1> SUFFICES ASSUME Init PROVE RecentInv
  OBVIOUS
<1>1. UseInv
  <2>1. UsedKeys = {}
    BY DEF Init, UsedKeys
  <2> QED
    BY <2>1, FS_EmptySet DEF Init, UseInv
<1>2. OrderInv
  <2>1. cache.ll = << >> /\ Len(<< >>) = 0
    BY EmptySeq DEF Init, NewLRU
  <2> QED
    BY <2>1 DEF OrderInv, Ordered
<1>3. OldInv
  BY DEF Init, OldInv
<1> QED
  BY <1>1, <1>2, <1>3 DEF RecentInv

LEMMA RecentNext ==
    ASSUME LruInv, RecentInv, [Next]_vars
    PROVE  RecentInv'
<1>1. CASE UNCHANGED vars
  <2>1. /\ cache' = cache /\ clock' = clock /\ lastUse' = lastUse /\ given' = given
    BY <1>1 DEF vars
  <2> QED
    BY <2>1 DEF RecentInv, UseInv, UsedKeys, OrderInv, OldInv, Outlived, UsedSince
<1> QED
  BY <1>1, RecentHit, RecentPut, RecentDrop DEF Next

LEMMA RecentInvariant == Spec => [](LruInv /\ RecentInv)
BY LruInvInit, LruInvNext, RecentInit, RecentNext, PTL DEF Spec

\* A key that was put and not removed since is evicted only once as many other
\* keys as the cache holds have been used after it (store.go, lruCache.put).
THEOREM CacheKeepsRecentlyUsed == Spec => []KeepsRecentlyUsed
<1>1. ASSUME RecentInv PROVE KeepsRecentlyUsed
  <2>1. SUFFICES ASSUME NEW k \in Key, given[k] # Nothing, ~Cached(cache, k)
                 PROVE  ~(Cardinality(UsedSince(k)) < CacheCap)
    BY DEF KeepsRecentlyUsed
  <2>2. PICK S \in SUBSET UsedSince(k) : IsFiniteSet(S) /\ Cardinality(S) = CacheCap
    BY <1>1, <2>1 DEF RecentInv, OldInv, Outlived
  <2>3. UsedSince(k) \in SUBSET UsedKeys /\ IsFiniteSet(UsedKeys)
    <3>1. lastUse \in [Key -> Nat] /\ IsFiniteSet(UsedKeys)
      BY <1>1 DEF RecentInv, UseInv
    <3> QED
      BY <3>1 DEF UsedSince, UsedKeys
  <2>4. IsFiniteSet(UsedSince(k))
    BY <2>3, FS_Subset
  <2>5. Cardinality(S) <= Cardinality(UsedSince(k))
    BY <2>2, <2>4, FS_Subset
  <2>6. Cardinality(UsedSince(k)) \in Nat
    BY <2>4, FS_CardinalityType
  <2> QED
    BY <2>2, <2>5, <2>6, CacheAssumption
<1> QED
  BY <1>1, RecentInvariant, PTL
=============================================================================
