--------------------------- MODULE MCStoreHistory ----------------------------
(* The instances of MCUserStore, with the history of the cache.              *)
EXTENDS MCUserStore, StoreHistory
=============================================================================
