--------------------------- MODULE MCTokenSigner ----------------------------
(* Tokens of two seconds signed in the first two seconds, two verifiers: a   *)
(* token can be presented before, at and after its expiry, swept, and        *)
(* presented again.  MCTokens.cfg gives the constants their values.          *)
EXTENDS TokenSigner
=============================================================================
