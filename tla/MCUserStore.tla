---------------------------- MODULE MCUserStore -----------------------------
(* Small instances of UserStore.  Two texts parse: one to the empty export   *)
(* (such as "{}"), one to a corpus with content.                             *)
EXTENDS UserStore

CONSTANTS torn, braces, full, corpus

MCText == {torn, braces, full}
MCDoc == {EmptyDoc, corpus}
MCParse == [t \in MCText |-> CASE t = braces -> EmptyDoc
                               [] t = full -> corpus
                               [] t = torn -> ParseError]
MCMarshal == [d \in MCDoc |-> IF d = corpus THEN full ELSE braces]

Symmetry == Permutations(Request) \cup Permutations(User) \cup Permutations(TempName)
=============================================================================
