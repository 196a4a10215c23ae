----------------------------- MODULE MCTransfer -----------------------------
(* Two users, two good contents and a bad one, and a link.                   *)
EXTENDS Transfer, TLC
Symmetry == Permutations(User) \cup Permutations(Request) \cup Permutations(Export)
=============================================================================
