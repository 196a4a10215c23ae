---------------------------- MODULE LruCacheSpec ----------------------------
(***************************************************************************)
(* The cache of LruCache under arbitrary sequences of get, put and remove, *)
(* with history variables that say when each key was last used and what it *)
(* was last given, so that "least recently used" can be stated without     *)
(* mentioning the list.  DiskUserStore holds cacheMu around every call, so *)
(* each operation is one step.                                             *)
(***************************************************************************)
EXTENDS LruCache

CONSTANTS Key, Val, Nothing,
          CacheCap,             \* newLRU(50)
          MaxUses               \* bound on the history's clock

ASSUME CacheAssumption == CacheCap \in Nat \ {0} /\ Nothing \notin Val

VARIABLES cache,
          clock,                \* history: number of uses so far
          lastUse,              \* history: clock of the last put or hit, 0 = never
          given                 \* history: last value put and not removed since

vars == << cache, clock, lastUse, given >>

TypeOK ==
    /\ cache.ll \in Seq(Key)
    /\ DOMAIN cache.items \subseteq Key
    /\ \A k \in DOMAIN cache.items : cache.items[k] \in Val
    /\ clock \in 0..MaxUses
    /\ lastUse \in [Key -> 0..clock]
    /\ given \in [Key -> Val \cup {Nothing}]

Init ==
    /\ cache = NewLRU(CacheCap)
    /\ clock = 0
    /\ lastUse = [k \in Key |-> 0]
    /\ given = [k \in Key |-> Nothing]

Use(k) ==
    /\ clock < MaxUses
    /\ clock' = clock + 1
    /\ lastUse' = [lastUse EXCEPT ![k] = clock + 1]

Hit(k) ==
    /\ Cached(cache, k)
    /\ cache' = LruGet(cache, k)
    /\ Use(k)
    /\ UNCHANGED given

Put(k, v) ==
    /\ cache' = LruPut(cache, k, v)
    /\ Use(k)
    /\ given' = [given EXCEPT ![k] = v]

Drop(k) ==
    /\ cache' = LruRemove(cache, k)
    /\ given' = [given EXCEPT ![k] = Nothing]
    /\ UNCHANGED << clock, lastUse >>

Next ==
    \E k \in Key :
        \/ Hit(k)
        \/ \E v \in Val : Put(k, v)
        \/ Drop(k)

Spec == Init /\ [][Next]_vars

\* The list and the map never disagree on which keys are cached, no key is
\* listed twice and the capacity holds: an entry that eviction or removal took
\* out of one but not of the other would be served for ever or never evicted.
ListAndMapAgree == LruWellFormed(cache)

\* A hit serves the value of the latest put since the key's last removal,
\* never one from before an invalidation.
ServesLatestPut ==
    \A k \in DOMAIN cache.items : cache.items[k] = given[k]

UsedSince(k) == {x \in Key : lastUse[x] > lastUse[k]}

\* A key that was put and not removed since is still cached unless CacheCap
\* other keys have been used after it: eviction only takes the oldest entry.
KeepsRecentlyUsed ==
    \A k \in Key :
        given[k] # Nothing /\ Cardinality(UsedSince(k)) < CacheCap
            => Cached(cache, k)

=============================================================================
