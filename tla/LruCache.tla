------------------------------ MODULE LruCache ------------------------------
(***************************************************************************)
(* The least-recently-used cache of internal/data/store.go (lruCache).     *)
(*                                                                         *)
(* The Go value is a doubly linked list of entries, most recent first, and *)
(* a map from a key to its list element.  Here the list keeps the order of *)
(* the keys and the map keeps each key's value: an element that the list   *)
(* has dropped but the map still references would still be found, as in Go.*)
(***************************************************************************)
EXTENDS Naturals, SequencesExt

NewLRU(cap) == [cap |-> cap, ll |-> << >>, items |-> [k \in {} |-> k]]

Cached(c, k) == k \in DOMAIN c.items

\* list.Remove of the element that holds k.
Without(ll, k) == RemoveAt(ll, CHOOSE i \in 1..Len(ll) : ll[i] = k)

Bind(items, k, v) ==
    [x \in DOMAIN items \cup {k} |-> IF x = k THEN v ELSE items[x]]

Unbind(items, k) == Restrict(items, DOMAIN items \ {k})

\* list.MoveToFront is a no-op for an element that is no longer in the list.
MoveToFront(ll, k) ==
    IF k \in ToSet(ll) THEN << k >> \o Without(ll, k) ELSE ll

\* Mutant of LruGet: a hit does not count as a use.
LruGetWithoutMove(c, k) == c

LruGet(c, k) == [c EXCEPT !.ll = MoveToFront(@, k)]

\* Mutant of LruInsert: eviction forgets the map.
LruInsertEvictsListOnly(c, k, v) ==
    LET ll == << k >> \o c.ll IN
    [c EXCEPT !.ll = IF Len(ll) > c.cap THEN Front(ll) ELSE ll, !.items = Bind(@, k, v)]

\* PushFront of a new key, then eviction of the back entry above capacity.
LruInsert(c, k, v) ==
    LET ll == << k >> \o c.ll
        items == Bind(c.items, k, v)
    IN  IF Len(ll) > c.cap
          THEN [cap |-> c.cap, ll |-> Front(ll), items |-> Unbind(items, Last(ll))]
          ELSE [cap |-> c.cap, ll |-> ll, items |-> items]

LruPut(c, k, v) ==
    IF Cached(c, k)
      THEN [cap |-> c.cap, ll |-> MoveToFront(c.ll, k), items |-> Bind(c.items, k, v)]
      ELSE LruInsert(c, k, v)

\* Mutant of LruRemove: removal forgets the map.
LruRemoveFromListOnly(c, k) ==
    IF k \in ToSet(c.ll) THEN [c EXCEPT !.ll = Without(@, k)] ELSE c

LruRemove(c, k) ==
    IF Cached(c, k)
      THEN [cap |-> c.cap, ll |-> Without(c.ll, k), items |-> Unbind(c.items, k)]
      ELSE c

\* The list and the map describe the same keys, each once, within capacity.
LruWellFormed(c) ==
    /\ DOMAIN c.items = ToSet(c.ll)
    /\ IsInjective(c.ll)
    /\ Len(c.ll) <= c.cap
=============================================================================
