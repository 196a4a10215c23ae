------------------------------ MODULE Transfer ------------------------------
(***************************************************************************)
(* How a corpus gets in and out: the tools import_data and                 *)
(* request_export_link and the route GET /download, over the user store    *)
(* and the token signer, in http mode (main always gives it a signer).     *)
(*                                                                         *)
(* Store and signer appear as what UserStore and TokenSigner show of them: *)
(* Raw and Replace take effect at one instant, a token is accepted once.   *)
(* A handler's steps are its calls of the two.  The corpus remembers which *)
(* id it was written for, a history field.                                 *)
(***************************************************************************)
EXTENDS Naturals, FiniteSets

CONSTANTS
    User, Anon,
    Content,            \* what clients send: parseable or not
    Export,             \* those contents that data.Parse accepts
    Token,              \* bound: the links that are ever signed
    Request,
    NoCorpus,           \* no file
    NoToken, NoContent

ASSUME TransferAssumption ==
    /\ Anon \notin User
    /\ Export \subseteq Content
    /\ NoToken \notin Token
    /\ NoContent \notin Content

Id == User \cup {Anon}
Corpus == [of : User, content : Export]

ASSUME CorpusAssumption == NoCorpus \notin Corpus

VARIABLES
    file,               \* per user, the corpus on disk
    token,              \* per token: unsigned, live, spent or expired
    owner,              \* the user a token was signed for
    pc,                 \* where each request is, or how it was answered
    user,               \* the id the request runs as
    content,            \* import: the content sent
    overwrite,          \* import: the overwrite argument
    link,               \* link, download: the token
    shown,              \* import: the corpus reported; download: the one sent
    served,             \* history: per token, the downloads answered with 200,
                        \* where 2 stands for two or more
    lost,               \* history: the tokens whose download met an error
    disturbed           \* history: the import's last look at the store failed
                        \* or was of a superseded corpus, or another import
                        \* of the user came after it

vars == << file, token, owner, pc, user, content, overwrite, link, shown, served, lost,
           disturbed >>
args == << user, content, overwrite, link >>

Working == {"check", "replace", "reread", "sign", "stream"}
Answer == {"refused", "failed", "not reread", "imported",       \* import_data
           "linked",                                            \* request_export_link
           "bad request", "unauthorized", "gone", "not found", "downloaded"}   \* /download

TypeOK ==
    /\ file \in [User -> Corpus \cup {NoCorpus}]
    /\ token \in [Token -> {"unsigned", "live", "spent", "expired"}]
    /\ owner \in [Token -> Id]
    /\ pc \in [Request -> {"idle"} \cup Working \cup Answer]
    /\ user \in [Request -> Id]
    /\ content \in [Request -> Content \cup {NoContent}]
    /\ overwrite \in [Request -> BOOLEAN]
    /\ link \in [Request -> Token \cup {NoToken}]
    /\ shown \in [Request -> Corpus \cup {NoCorpus}]
    /\ served \in [Token -> 0..2]
    /\ lost \subseteq Token
    /\ disturbed \in [Request -> BOOLEAN]

Init ==
    /\ file = [u \in User |-> NoCorpus]
    /\ token = [t \in Token |-> "unsigned"]
    /\ owner = [t \in Token |-> Anon]
    /\ pc = [r \in Request |-> "idle"]
    /\ user = [r \in Request |-> Anon]
    /\ content = [r \in Request |-> NoContent]
    /\ overwrite = [r \in Request |-> TRUE]
    /\ link = [r \in Request |-> NoToken]
    /\ shown = [r \in Request |-> NoCorpus]
    /\ served = [t \in Token |-> 0]
    /\ lost = {}
    /\ disturbed = [r \in Request |-> FALSE]

Goto(r, label) == pc' = [pc EXCEPT ![r] = label]

Return(r) ==
    /\ pc[r] \in Answer
    /\ Goto(r, "idle")
    /\ user' = [user EXCEPT ![r] = Anon]
    /\ content' = [content EXCEPT ![r] = NoContent]
    /\ overwrite' = [overwrite EXCEPT ![r] = TRUE]
    /\ link' = [link EXCEPT ![r] = NoToken]
    /\ shown' = [shown EXCEPT ![r] = NoCorpus]
    /\ disturbed' = [disturbed EXCEPT ![r] = FALSE]
    /\ UNCHANGED << file, token, owner, served, lost >>

-----------------------------------------------------------------------------
(* import_data                                                             *)

\* Without an identity, or with bad or empty arguments, nothing is done.
ImportCall(r, u, c, ow) ==
    /\ pc[r] = "idle"
    /\ IF u = Anon \/ c = NoContent THEN Goto(r, "refused")
       ELSE IF ow THEN Goto(r, "replace")
       ELSE Goto(r, "check")
    /\ user' = [user EXCEPT ![r] = u]
    /\ content' = [content EXCEPT ![r] = c]
    /\ overwrite' = [overwrite EXCEPT ![r] = ow]
    /\ UNCHANGED << file, token, owner, link, shown, served, lost, disturbed >>

\* Mutant of ImportCheck: the result of Raw is ignored.
ImportCheckIgnored(r) ==
    /\ pc[r] = "check"
    /\ Goto(r, "replace")
    /\ UNCHANGED << file, token, owner, args, shown, served, lost, disturbed >>

\* overwrite: false looks whether Raw finds data.
ImportCheck(r) ==
    /\ pc[r] = "check"
    /\ Goto(r, IF file[user[r]] # NoCorpus THEN "refused" ELSE "replace")
    /\ UNCHANGED << file, token, owner, args, shown, served, lost, disturbed >>

\* An error of Raw, whatever it is, counts as no data.
ImportCheckError(r) ==
    /\ pc[r] = "check"
    /\ Goto(r, "replace")
    /\ disturbed' = [disturbed EXCEPT ![r] = TRUE]
    /\ UNCHANGED << file, token, owner, args, shown, served, lost >>

\* Imports of the same user that have looked at the store before r writes.
Disturb(r) ==
    [q \in Request |-> /\ q # r
                       /\ \/ disturbed[q]
                          \/ user[q] = user[r] /\ pc[q] \in {"replace", "reread"}]

\* Mutant of ImportReplace: the content is stored unparsed.
ImportReplaceUnparsed(r) ==
    /\ pc[r] = "replace"
    /\ file' = [file EXCEPT ![user[r]] = [of |-> user[r], content |-> content[r]]]
    /\ Goto(r, "reread")
    /\ disturbed' = Disturb(r)
    /\ UNCHANGED << token, owner, args, shown, served, lost >>

\* Store.Replace refuses what does not parse.
ImportReplace(r) ==
    /\ pc[r] = "replace"
    /\ content[r] \in Export
    /\ file' = [file EXCEPT ![user[r]] = [of |-> user[r], content |-> content[r]]]
    /\ Goto(r, "reread")
    /\ disturbed' = Disturb(r)
    /\ UNCHANGED << token, owner, args, shown, served, lost >>

ImportReplaceError(r) ==
    /\ pc[r] = "replace"
    /\ Goto(r, "failed")
    /\ UNCHANGED << file, token, owner, args, shown, served, lost, disturbed >>

\* Mutant of ImportReread: the corpus of the previous import is reported.
ImportRereadNothing(r) ==
    /\ pc[r] = "reread"
    /\ Goto(r, "imported")
    /\ UNCHANGED << file, token, owner, args, shown, served, lost, disturbed >>

\* The counts of the answer come from a Load of what is now stored.
ImportReread(r) ==
    /\ pc[r] = "reread"
    /\ shown' = [shown EXCEPT ![r] = file[user[r]]]
    /\ Goto(r, "imported")
    /\ UNCHANGED << file, token, owner, args, served, lost, disturbed >>

\* Another call of the user that read the store before the Replace has filled
\* the cache since (see CacheInvalidated of UserStore): the counts are those
\* of some other corpus.  Which one is left open.
ImportRereadSuperseded(r) ==
    /\ pc[r] = "reread"
    /\ \E c \in Corpus \cup {NoCorpus} :
          /\ c # NoCorpus => c.of = user[r]
          /\ shown' = [shown EXCEPT ![r] = c]
    /\ disturbed' = [disturbed EXCEPT ![r] = TRUE]
    /\ Goto(r, "imported")
    /\ UNCHANGED << file, token, owner, args, served, lost >>

ImportRereadError(r) ==
    /\ pc[r] = "reread"
    /\ Goto(r, "not reread")
    /\ UNCHANGED << file, token, owner, args, shown, served, lost, disturbed >>

-----------------------------------------------------------------------------
(* request_export_link                                                     *)

\* Bound: no more links are asked for than there are tokens.
MoreTokens ==
    Cardinality({r \in Request : pc[r] = "sign"})
        < Cardinality({t \in Token : token[t] = "unsigned"})

\* Mutant of LinkCall: a link is given out before there is data.
LinkCallUnchecked(r, u) ==
    /\ pc[r] = "idle"
    /\ MoreTokens
    /\ Goto(r, IF u = Anon THEN "refused" ELSE "sign")
    /\ user' = [user EXCEPT ![r] = u]
    /\ UNCHANGED << file, token, owner, content, overwrite, link, shown, served, lost, disturbed >>

\* Raw must find data; its error counts as none.
LinkCall(r, u) ==
    /\ pc[r] = "idle"
    /\ \/ Goto(r, "refused")
       \/ /\ u # Anon
          /\ file[u] # NoCorpus
          /\ MoreTokens
          /\ Goto(r, "sign")
    /\ user' = [user EXCEPT ![r] = u]
    /\ UNCHANGED << file, token, owner, content, overwrite, link, shown, served, lost, disturbed >>

LinkSign(r) ==
    /\ pc[r] = "sign"
    /\ \E t \in Token :
          /\ token[t] = "unsigned"
          /\ token' = [token EXCEPT ![t] = "live"]
          /\ owner' = [owner EXCEPT ![t] = user[r]]
          /\ link' = [link EXCEPT ![r] = t]
    /\ Goto(r, "linked")
    /\ UNCHANGED << file, user, content, overwrite, shown, served, lost, disturbed >>

-----------------------------------------------------------------------------
(* GET /download, which has no identity but the token's                    *)

\* What a request presents: no token, or one that Verify finds in some state,
\* where "unsigned" is any it did not sign, forged or malformed.
Standing(t) == IF t = NoToken THEN "missing" ELSE token[t]

\* Mutant of DownloadCall: the token is verified but not consumed.
DownloadCallKeepsToken(r, t) ==
    /\ pc[r] = "idle"
    /\ Goto(r, CASE Standing(t) = "missing" -> "bad request"
                 [] Standing(t) = "unsigned" -> "unauthorized"
                 [] Standing(t) \in {"expired", "spent"} -> "gone"
                 [] Standing(t) = "live" -> "stream")
    /\ user' = [user EXCEPT ![r] = IF t = NoToken THEN Anon ELSE owner[t]]
    /\ link' = [link EXCEPT ![r] = t]
    /\ UNCHANGED << file, token, owner, content, overwrite, shown, served, lost, disturbed >>

\* The request is refused, or its token is consumed before there is anything
\* to send.
DownloadCall(r, t) ==
    /\ pc[r] = "idle"
    /\ \/ /\ Standing(t) = "missing"
          /\ Goto(r, "bad request")
          /\ UNCHANGED << token, user >>
       \/ /\ Standing(t) = "unsigned"
          /\ Goto(r, "unauthorized")
          /\ UNCHANGED << token, user >>
       \/ /\ Standing(t) \in {"expired", "spent"}
          /\ Goto(r, "gone")
          /\ UNCHANGED << token, user >>
       \/ /\ Standing(t) = "live"
          /\ token' = [token EXCEPT ![t] = "spent"]
          /\ user' = [user EXCEPT ![r] = owner[t]]
          /\ Goto(r, "stream")
    /\ link' = [link EXCEPT ![r] = t]
    /\ UNCHANGED << file, owner, content, overwrite, shown, served, lost, disturbed >>

DownloadStream(r) ==
    /\ pc[r] = "stream"
    /\ IF file[user[r]] = NoCorpus
         THEN Goto(r, "not found") /\ UNCHANGED << shown, served >>
         ELSE /\ Goto(r, "downloaded")
              /\ shown' = [shown EXCEPT ![r] = file[user[r]]]
              /\ served' = [served EXCEPT ![link[r]] = IF @ = 0 THEN 1 ELSE 2]
    /\ UNCHANGED << file, token, owner, args, lost, disturbed >>

\* Any error of Raw: the link is used up all the same.
DownloadError(r) ==
    /\ pc[r] = "stream"
    /\ Goto(r, "not found")
    /\ lost' = lost \cup {link[r]}
    /\ UNCHANGED << file, token, owner, args, shown, served, disturbed >>

Expire(t) ==
    /\ token[t] = "live"
    /\ token' = [token EXCEPT ![t] = "expired"]
    /\ UNCHANGED << file, owner, pc, args, shown, served, lost, disturbed >>

-----------------------------------------------------------------------------

ToolCall(r, u) ==
    \/ \E c \in Content \cup {NoContent}, ow \in BOOLEAN : ImportCall(r, u, c, ow)
    \/ LinkCall(r, u)

Step(r) ==
    \/ ImportCheck(r)
    \/ ImportReplace(r) \/ ImportReplaceError(r)
    \/ ImportReread(r) \/ ImportRereadSuperseded(r) \/ ImportRereadError(r)
    \/ LinkSign(r)
    \/ DownloadStream(r) \/ DownloadError(r)
    \/ Return(r)

Download == \E r \in Request, t \in Token \cup {NoToken} : DownloadCall(r, t)

Next ==
    \/ \E r \in Request : \/ Step(r) \/ ImportCheckError(r)
                          \/ \E u \in Id : ToolCall(r, u)
    \/ Download
    \/ \E t \in Token : Expire(t)

Spec == Init /\ [][Next]_vars

-----------------------------------------------------------------------------
(* Properties.                                                             *)

\* import_data with overwrite: false never replaces data ("If false and data
\* already exists for this user, refuse to replace", its schema).  It does:
\* another import may come between Raw and Replace, or Raw may fail.
KeepsUnlessOverwrite ==
    [][\A r \in Request :
          pc[r] = "replace" /\ pc'[r] = "reread" /\ ~overwrite[r]
              => file[user[r]] = NoCorpus]_vars

\* Nothing else makes it replace data: what the check saw decides.
KeepsWhenUndisturbed ==
    [][\A r \in Request :
          pc[r] = "replace" /\ pc'[r] = "reread" /\ ~overwrite[r] /\ ~disturbed[r]
              => file[user[r]] = NoCorpus]_vars

\* The counts that import_data answers are those of the corpus it imported,
\* unless another call of the user overlaps it.
ImportReportIsOwn ==
    \A r \in Request : pc[r] = "imported" /\ ~disturbed[r] =>
        shown[r] = [of |-> user[r], content |-> content[r]]

\* A link that was handed out has something to download behind it for as long
\* as it lives: no operation takes a corpus away.
LinkHasData ==
    \A t \in Token : token[t] # "unsigned" =>
        owner[t] \in User /\ file[owner[t]] # NoCorpus

\* A link serves one download at most, of the corpus of the user who asked
\* for it, and is spent by it ("single use", MULTITENANCY.md).  A link that is
\* spent is being served, or was served once, or its one download met an error
\* of the store, after which it serves no other: nothing else uses a link up.
DownloadIsOwnAndOnce ==
    /\ \A t \in Token : token[t] = "spent" =>
          \/ \E r \in Request : pc[r] = "stream" /\ link[r] = t
          \/ IF t \in lost THEN served[t] = 0 ELSE served[t] = 1
    /\ \A t \in Token : served[t] > 0 => served[t] = 1 /\ token[t] = "spent"
    /\ \A r \in Request : pc[r] = "downloaded" =>
          /\ shown[r].of = owner[link[r]]
          /\ token[link[r]] = "spent"
=============================================================================
