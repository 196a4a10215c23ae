----------------------------- MODULE MCLruCache -----------------------------
(* Four keys compete for two entries: a key can be evicted, be removed and  *)
(* come back, and two keys can be evicted in a row.                         *)
EXTENDS LruCacheSpec
Symmetry == Permutations(Key) \cup Permutations(Val)
=============================================================================
