--------------------------- MODULE TransferProofs ---------------------------
(***************************************************************************)
(* Imports, export links and downloads are safe for every set of users,    *)
(* contents, tokens and requests, in every interleaving of the handlers.   *)
(*                                                                         *)
(* The properties speak of answers; the inductive invariant says what each *)
(* handler knows on its way there, between its calls of the store and of   *)
(* the signer.                                                             *)
(***************************************************************************)
EXTENDS Transfer, TLAPS

\* Whoever is past the check of the identity is a user, and has what its
\* handler needs: the types that TypeOK leaves to the control.
ActsForUser ==
    /\ \A r \in Request :
          /\ pc[r] \in Working => user[r] \in User
          /\ pc[r] \in {"check", "replace", "reread"} => content[r] \in Content
          /\ pc[r] = "stream" => link[r] \in Token
    /\ \A t \in Token : token[t] # "unsigned" => owner[t] \in User

\* A corpus is under the id it was written for.
FilesAreOwn == \A u \in User : file[u] # NoCorpus => file[u].of = u

\* request_export_link, between Raw and Sign: the data it saw is still there.
SignerHasData ==
    \A r \in Request : pc[r] = "sign" => file[user[r]] # NoCorpus

\* serveDownload, between Consume and Raw: the link is spent, it is unserved,
\* it has met no error and it is no other request's.
StreamerHoldsLink ==
    \A r \in Request : pc[r] = "stream" =>
        /\ token[link[r]] = "spent"
        /\ served[link[r]] = 0
        /\ link[r] \notin lost
        /\ user[r] = owner[link[r]]
        /\ \A q \in Request \ {r} : pc[q] = "stream" => link[q] # link[r]

ServedIsSpent ==
    \A t \in Token : served[t] > 0 => served[t] = 1 /\ token[t] = "spent"

\* A link whose download met an error is spent for nothing.
LostIsUnserved == \A t \in lost : token[t] = "spent" /\ served[t] = 0

\* A spent link is being served, or met an error, or was served.
SpentIsAccounted ==
    \A t \in Token : token[t] = "spent" =>
        \/ \E r \in Request : pc[r] = "stream" /\ link[r] = t
        \/ t \in lost
        \/ served[t] = 1

DownloadedIsOwn ==
    \A r \in Request : pc[r] = "downloaded" =>
        /\ link[r] \in Token
        /\ shown[r].of = owner[link[r]]
        /\ token[link[r]] = "spent"

\* import_data, between its look at the store and its Replace, and between
\* its Replace and its Load: undisturbed, the store is as it saw or left it.
ReplacesNothing ==
    \A r \in Request : pc[r] = "replace" /\ ~overwrite[r] /\ ~disturbed[r] =>
        file[user[r]] = NoCorpus

RereadsOwn ==
    \A r \in Request : pc[r] = "reread" /\ ~disturbed[r] =>
        file[user[r]] = [of |-> user[r], content |-> content[r]]

LinkInv ==
    /\ FilesAreOwn
    /\ SignerHasData
    /\ LinkHasData

DownloadInv ==
    /\ StreamerHoldsLink
    /\ ServedIsSpent
    /\ LostIsUnserved
    /\ SpentIsAccounted
    /\ DownloadedIsOwn

ImportInv ==
    /\ ReplacesNothing
    /\ RereadsOwn
    /\ ImportReportIsOwn

TransferInv == TypeOK /\ ActsForUser /\ LinkInv /\ DownloadInv /\ ImportInv

Typed == TypeOK /\ ActsForUser

LEMMA Labels ==
    /\ {"check", "replace", "reread", "sign", "stream"} = Working
    /\ {"refused", "failed", "not reread", "imported", "linked", "bad request",
        "unauthorized", "gone", "not found", "downloaded"} = Answer
    /\ \A l \in Answer \cup {"idle"} : l \notin Working
BY DEF Working, Answer

LEMMA Counts == 1 \in 0..2 /\ 2 \in 0..2
OBVIOUS

LEMMA InitTyped == Init => Typed
<1> SUFFICES ASSUME Init PROVE Typed
  OBVIOUS
<1>1. TypeOK
  BY DEF Init, TypeOK, Id
<1>2. ActsForUser
  BY Labels DEF Init, ActsForUser
<1> QED
  BY <1>1, <1>2 DEF Typed

\* A handler that goes from one label to another and changes nothing else that
\* has to do with types.
LEMMA MoveTyped ==
    ASSUME Typed, NEW r \in Request, NEW l \in {"idle"} \cup Working \cup Answer,
           Goto(r, l), l \in Working => pc[r] \in Working,
           l \in {"check", "replace", "reread"} => pc[r] \in {"check", "replace", "reread"},
           l = "stream" => pc[r] = "stream",
           UNCHANGED << token, owner, user, content, overwrite, link, served >>,
           file' \in [User -> Corpus \cup {NoCorpus}],
           shown' \in [Request -> Corpus \cup {NoCorpus}],
           lost' \subseteq Token,
           disturbed' \in [Request -> BOOLEAN]
    PROVE  Typed'
BY Labels DEF Typed, TypeOK, ActsForUser, Goto

LEMMA StepTyped ==
    ASSUME Typed, NEW r \in Request, Step(r) \/ ImportCheckError(r)
    PROVE  Typed'
<1>u. /\ Anon \in Id /\ User \subseteq Id
      /\ \A q \in Request : pc[q] \in Working => file[user[q]] \in Corpus \cup {NoCorpus}
  BY DEF Id, Typed, TypeOK, ActsForUser
<1>1. CASE ImportCheck(r) \/ ImportCheckError(r)
  <2>1. PICK l \in {"refused", "replace"} : Goto(r, l)
    BY <1>1 DEF ImportCheck, ImportCheckError
  <2>2. /\ pc[r] = "check"
        /\ UNCHANGED << file, token, owner, args, shown, served, lost >>
        /\ disturbed' \in [Request -> BOOLEAN]
    BY <1>1 DEF ImportCheck, ImportCheckError, Typed, TypeOK
  <2> QED
    BY <2>1, <2>2, MoveTyped, Labels DEF args, Typed, TypeOK
<1>2. CASE ImportReplace(r)
  <2>1. [of |-> user[r], content |-> content[r]] \in Corpus
    BY <1>2, Labels DEF ImportReplace, Typed, ActsForUser, Corpus
  <2>2. /\ file' \in [User -> Corpus \cup {NoCorpus}]
        /\ disturbed' \in [Request -> BOOLEAN]
    BY <1>2, <2>1 DEF ImportReplace, Disturb, Typed, TypeOK
  <2> QED
    BY <1>2, <2>2, MoveTyped, Labels DEF ImportReplace, args, Typed, TypeOK
<1>3. CASE ImportReplaceError(r) \/ ImportRereadError(r) \/ DownloadError(r)
  <2>1. PICK l \in {"failed", "not reread", "not found"} : Goto(r, l)
    BY <1>3 DEF ImportReplaceError, ImportRereadError, DownloadError
  <2>2. lost' \subseteq Token
    BY <1>3 DEF ImportReplaceError, ImportRereadError, DownloadError, Typed, TypeOK,
       ActsForUser
  <2> QED
    BY <1>3, <2>1, <2>2, MoveTyped, Labels
    DEF ImportReplaceError, ImportRereadError, DownloadError, args, Typed, TypeOK
<1>4. CASE ImportReread(r) \/ ImportRereadSuperseded(r)
  <2>1. shown' \in [Request -> Corpus \cup {NoCorpus}]
    <3>1. PICK c \in Corpus \cup {NoCorpus} : shown' = [shown EXCEPT ![r] = c]
      BY <1>4, <1>u, Labels DEF ImportReread, ImportRereadSuperseded
    <3> QED
      BY <3>1 DEF Typed, TypeOK
  <2>2. disturbed' \in [Request -> BOOLEAN]
    BY <1>4 DEF ImportReread, ImportRereadSuperseded, Typed, TypeOK
  <2> QED
    BY <1>4, <2>1, <2>2, MoveTyped, Labels
    DEF ImportReread, ImportRereadSuperseded, args, Typed, TypeOK
<1>5. CASE LinkSign(r)
  <2>1. PICK t \in Token :
          /\ token' = [token EXCEPT ![t] = "live"]
          /\ owner' = [owner EXCEPT ![t] = user[r]]
          /\ link' = [link EXCEPT ![r] = t]
    BY <1>5 DEF LinkSign
  <2>2. /\ user[r] \in User /\ pc' = [pc EXCEPT ![r] = "linked"]
        /\ UNCHANGED << file, user, content, overwrite, shown, served, lost, disturbed >>
    BY <1>5, Labels DEF LinkSign, Goto, Typed, ActsForUser
  <2>3. TypeOK'
    BY <2>1, <2>2, <1>u, Labels DEF Typed, TypeOK
  <2>4. ActsForUser'
    BY <2>1, <2>2, Labels DEF Typed, TypeOK, ActsForUser
  <2> QED
    BY <2>3, <2>4 DEF Typed
<1>6. CASE DownloadStream(r)
  <2>1. /\ pc[r] = "stream" /\ link[r] \in Token
        /\ UNCHANGED << file, token, owner, args, lost, disturbed >>
    BY <1>6 DEF DownloadStream, Typed, ActsForUser
  <2>2. PICK l \in {"not found", "downloaded"} : Goto(r, l)
    BY <1>6 DEF DownloadStream
  <2>3. shown' \in [Request -> Corpus \cup {NoCorpus}]
    BY <1>6, <1>u, Labels DEF DownloadStream, Typed, TypeOK
  <2>4. served' \in [Token -> 0..2]
    <3>1. \/ served' = served
          \/ served' = [served EXCEPT ![link[r]] = 1]
          \/ served' = [served EXCEPT ![link[r]] = 2]
      BY <1>6 DEF DownloadStream
    <3> QED
      BY <3>1, Counts DEF Typed, TypeOK
  <2> QED
    BY <2>1, <2>2, <2>3, <2>4, Labels DEF Typed, TypeOK, ActsForUser, Goto, args
<1>7. CASE Return(r)
  BY <1>7, <1>u, Labels DEF Return, Goto, Typed, TypeOK, ActsForUser
<1> QED
  BY <1>1, <1>2, <1>3, <1>4, <1>5, <1>6, <1>7 DEF Step

LEMMA CallTyped ==
    ASSUME Typed, NEW r \in Request, NEW u \in Id, ToolCall(r, u)
    PROVE  Typed'
<1>u. u # Anon => u \in User
  BY DEF Id
<1>1. ASSUME NEW c \in Content \cup {NoContent}, NEW ow \in BOOLEAN, ImportCall(r, u, c, ow)
      PROVE  Typed'
  <2>1. PICK l \in {"refused", "replace", "check"} :
          Goto(r, l) /\ (l # "refused" => u \in User /\ c \in Content)
    BY <1>1, <1>u DEF ImportCall
  <2>2. /\ user' = [user EXCEPT ![r] = u]
        /\ content' = [content EXCEPT ![r] = c]
        /\ overwrite' = [overwrite EXCEPT ![r] = ow]
        /\ UNCHANGED << file, token, owner, link, shown, served, lost, disturbed >>
    BY <1>1 DEF ImportCall
  <2> QED
    BY <2>1, <2>2, Labels DEF Typed, TypeOK, ActsForUser, Goto
<1>2. CASE LinkCall(r, u)
  <2>1. PICK l \in {"refused", "sign"} : Goto(r, l) /\ (l = "sign" => u \in User)
    BY <1>2, <1>u DEF LinkCall
  <2>2. /\ user' = [user EXCEPT ![r] = u]
        /\ UNCHANGED << file, token, owner, content, overwrite, link, shown, served, lost, disturbed >>
    BY <1>2 DEF LinkCall
  <2> QED
    BY <2>1, <2>2, Labels DEF Typed, TypeOK, ActsForUser, Goto
<1> QED
  BY <1>1, <1>2 DEF ToolCall

LEMMA NextTyped == Typed /\ [Next]_vars => Typed'
<1> SUFFICES ASSUME Typed, [Next]_vars PROVE Typed'
  OBVIOUS
<1>1. ASSUME NEW r \in Request, NEW t \in Token \cup {NoToken}, DownloadCall(r, t)
      PROVE  Typed'
  <2>1. CASE /\ UNCHANGED << token, user >>
             /\ \E l \in {"bad request", "unauthorized", "gone"} : Goto(r, l)
    BY <1>1, <2>1, Labels DEF DownloadCall, Goto, Typed, TypeOK, ActsForUser
  <2>2. CASE /\ Standing(t) = "live"
             /\ token' = [token EXCEPT ![t] = "spent"]
             /\ user' = [user EXCEPT ![r] = owner[t]]
             /\ Goto(r, "stream")
    <3>1. t \in Token /\ token[t] = "live" /\ owner[t] \in User
      BY <2>2 DEF Standing, Typed, ActsForUser
    <3>2. User \subseteq Id
      BY DEF Id
    <3> QED
      BY <1>1, <2>2, <3>1, <3>2, Labels DEF DownloadCall, Goto, Typed, TypeOK, ActsForUser
  <2> QED
    BY <1>1, <2>1, <2>2 DEF DownloadCall
<1>2. ASSUME NEW t \in Token, Expire(t) PROVE Typed'
  BY <1>2 DEF Expire, args, Typed, TypeOK, ActsForUser
<1>3. CASE UNCHANGED vars
  BY <1>3 DEF vars, Typed, TypeOK, ActsForUser
<1> QED
  BY <1>1, <1>2, <1>3, StepTyped, CallTyped DEF Next, Download

LEMMA TypedInvariant == Spec => []Typed
BY InitTyped, NextTyped, PTL DEF Spec

-----------------------------------------------------------------------------
(* Links have data behind them.                                            *)

\* What Replace stores is a corpus, the user's own.
LEMMA ReplacedFile ==
    ASSUME Typed, NEW r \in Request, ImportReplace(r)
    PROVE  /\ user[r] \in User
           /\ [of |-> user[r], content |-> content[r]] \in Corpus
           /\ file' = [file EXCEPT ![user[r]] = [of |-> user[r], content |-> content[r]]]
           /\ file' \in [User -> Corpus \cup {NoCorpus}]
           /\ UNCHANGED << token, owner, user, content, overwrite, link, shown, served >>
<1>1. user[r] \in User /\ content[r] \in Export
  BY Labels DEF ImportReplace, Typed, ActsForUser
<1>2. [of |-> user[r], content |-> content[r]] \in Corpus
  BY <1>1 DEF Corpus
<1> QED
  BY <1>1, <1>2 DEF ImportReplace, Typed, TypeOK, args

LEMMA LinkNext == Typed /\ LinkInv /\ [Next]_vars => LinkInv'
<1> SUFFICES ASSUME Typed, LinkInv, [Next]_vars PROVE LinkInv'
  OBVIOUS
<1> USE DEF LinkInv, FilesAreOwn, SignerHasData, LinkHasData, Goto, args
<1>t. /\ pc \in [Request -> {"idle"} \cup Working \cup Answer]
      /\ user \in [Request -> Id]
      /\ file \in [User -> Corpus \cup {NoCorpus}]
      /\ token \in [Token -> {"unsigned", "live", "spent", "expired"}]
      /\ owner \in [Token -> Id]
      /\ \A r \in Request : pc[r] \in Working => user[r] \in User
  BY DEF Typed, TypeOK, ActsForUser
<1>1. ASSUME NEW r \in Request, ImportReplace(r) PROVE LinkInv'
  <2> DEFINE c == [of |-> user[r], content |-> content[r]]
  <2>1. /\ user[r] \in User /\ c \in Corpus /\ c # NoCorpus
        /\ file' = [file EXCEPT ![user[r]] = c]
        /\ UNCHANGED << token, owner, user >>
    BY <1>1, ReplacedFile, CorpusAssumption
  <2>2. c.of = user[r]
    OBVIOUS
  <2> HIDE DEF c
  <2>3. pc' = [pc EXCEPT ![r] = "reread"]
    BY <1>1 DEF ImportReplace
  <2>4. /\ file'[user[r]] = c
        /\ \A u \in User \ {user[r]} : file'[u] = file[u]
    BY <2>1, <1>t
  <2>5. \A u \in User : file[u] # NoCorpus => file'[u] # NoCorpus
    BY <2>1, <2>4
  <2>6. FilesAreOwn'
    BY <2>1, <2>2, <2>4
  <2>7. SignerHasData'
    <3>1. \A q \in Request : pc'[q] = "sign" => pc[q] = "sign"
      BY <2>3, <1>t
    <3>2. \A q \in Request : pc[q] = "sign" => user[q] \in User
      BY <1>t, Labels
    <3> QED
      BY <2>1, <2>5, <3>1, <3>2
  <2>8. LinkHasData'
    BY <2>1, <2>5
  <2> QED
    BY <2>6, <2>7, <2>8
<1>2. ASSUME NEW r \in Request, NEW u \in Id, LinkCall(r, u) PROVE LinkInv'
  BY <1>2, <1>t, Labels DEF LinkCall
<1>3. ASSUME NEW r \in Request, LinkSign(r) PROVE LinkInv'
  <2>1. PICK t \in Token :
          /\ token' = [token EXCEPT ![t] = "live"]
          /\ owner' = [owner EXCEPT ![t] = user[r]]
    BY <1>3 DEF LinkSign
  <2>2. /\ user[r] \in User /\ file[user[r]] # NoCorpus
        /\ UNCHANGED << file, user >> /\ pc' = [pc EXCEPT ![r] = "linked"]
    BY <1>3, <1>t, Labels DEF LinkSign
  <2> QED
    BY <2>1, <2>2, <1>t
<1>4. ASSUME NEW r \in Request, NEW l \in {"idle"} \cup Working \cup Answer, Goto(r, l),
             l # "sign", UNCHANGED << file, owner >>,
             \A q \in Request \ {r} : user'[q] = user[q],
             \A t \in Token : token'[t] = "unsigned" <=> token[t] = "unsigned"
      PROVE  LinkInv'
  BY <1>4, <1>t
<1>5. ASSUME NEW r \in Request, NEW u \in Id, NEW c \in Content \cup {NoContent},
             NEW ow \in BOOLEAN, ImportCall(r, u, c, ow)
      PROVE  LinkInv'
  <2>1. PICK l \in {"refused", "replace", "check"} : Goto(r, l)
    BY <1>5 DEF ImportCall
  <2> QED
    BY <1>4, <1>5, <2>1, <1>t, Labels DEF ImportCall
<1>6. ASSUME NEW r \in Request, Step(r) \/ ImportCheckError(r),
             ~ImportReplace(r), ~LinkSign(r)
      PROVE  LinkInv'
  <2>1. PICK l \in {"refused", "replace", "failed", "imported", "not reread",
                    "not found", "downloaded", "idle"} : Goto(r, l)
    BY <1>6 DEF Step, ImportCheck, ImportCheckError, ImportReplaceError, ImportReread,
       ImportRereadSuperseded, ImportRereadError, DownloadStream, DownloadError, Return
  <2>2. /\ UNCHANGED << file, token, owner >>
        /\ \A q \in Request \ {r} : user'[q] = user[q]
    BY <1>6, <1>t DEF Step, ImportCheck, ImportCheckError, ImportReplaceError, ImportReread,
       ImportRereadSuperseded, ImportRereadError, DownloadStream, DownloadError, Return
  <2> QED
    BY <1>4, <2>1, <2>2, Labels
<1>7. ASSUME NEW r \in Request, NEW t \in Token \cup {NoToken}, DownloadCall(r, t)
      PROVE  LinkInv'
  <2>1. PICK l \in {"bad request", "unauthorized", "gone", "stream"} : Goto(r, l)
    BY <1>7 DEF DownloadCall
  <2>2. /\ UNCHANGED << file, owner >>
        /\ \A q \in Request \ {r} : user'[q] = user[q]
    BY <1>7, <1>t DEF DownloadCall
  <2>3. \A x \in Token : token'[x] = "unsigned" <=> token[x] = "unsigned"
    BY <1>7, <1>t DEF DownloadCall, Standing
  <2> QED
    BY <1>4, <2>1, <2>2, <2>3, Labels
<1>8. ASSUME NEW t \in Token, Expire(t) PROVE LinkInv'
  BY <1>8, <1>t DEF Expire
<1>9. CASE UNCHANGED vars
  BY <1>9 DEF vars
<1> QED
  BY <1>1, <1>2, <1>3, <1>5, <1>6, <1>7, <1>8, <1>9 DEF Next, Download, ToolCall, Step


-----------------------------------------------------------------------------
(* A link serves one download, of its owner's corpus.                      *)

LEMMA DownloadNext == Typed /\ LinkInv /\ DownloadInv /\ [Next]_vars => DownloadInv'
<1> SUFFICES ASSUME Typed, LinkInv, DownloadInv, [Next]_vars PROVE DownloadInv'
  OBVIOUS
<1> USE DEF DownloadInv, StreamerHoldsLink, ServedIsSpent, LostIsUnserved,
            SpentIsAccounted, DownloadedIsOwn, Goto, args
<1>t. /\ pc \in [Request -> {"idle"} \cup Working \cup Answer]
      /\ user \in [Request -> Id]
      /\ link \in [Request -> Token \cup {NoToken}]
      /\ shown \in [Request -> Corpus \cup {NoCorpus}]
      /\ token \in [Token -> {"unsigned", "live", "spent", "expired"}]
      /\ owner \in [Token -> Id]
      /\ served \in [Token -> 0..2] /\ lost \subseteq Token
      /\ \A r \in Request : pc[r] = "stream" => link[r] \in Token /\ user[r] \in User
  BY Labels DEF Typed, TypeOK, ActsForUser
\* What r does on the way to a label that is no download's disturbs nobody's.
<1>1. ASSUME NEW r \in Request, NEW l \in {"idle"} \cup Working \cup Answer, Goto(r, l),
             pc[r] # "stream", l \notin {"stream", "downloaded"}, UNCHANGED << served, lost >>,
             \A t \in Token : token'[t] = "spent" <=> token[t] = "spent",
             \A t \in Token : token[t] = "spent" => owner'[t] = owner[t],
             \A q \in Request \ {r} :
                /\ user'[q] = user[q] /\ link'[q] = link[q] /\ shown'[q] = shown[q]
      PROVE  DownloadInv'
  <2>1. pc'[r] = l /\ \A q \in Request \ {r} : pc'[q] = pc[q]
    BY <1>1, <1>t
  <2>2. StreamerHoldsLink'
    BY <1>1, <2>1, <1>t
  <2>3. DownloadedIsOwn'
    BY <1>1, <2>1, <1>t
  <2>4. SpentIsAccounted'
    BY <1>1, <2>1
  <2>5. ServedIsSpent' /\ LostIsUnserved'
    BY <1>1, <1>t
  <2> QED
    BY <2>2, <2>3, <2>4, <2>5
<1>2. ASSUME NEW r \in Request, NEW u \in Id, ToolCall(r, u) PROVE DownloadInv'
  <2>1. PICK l \in {"refused", "replace", "check", "sign"} : Goto(r, l)
    BY <1>2 DEF ToolCall, ImportCall, LinkCall
  <2>2. /\ UNCHANGED << token, owner, link, shown, served, lost >> /\ pc[r] = "idle"
        /\ \A q \in Request \ {r} : user'[q] = user[q]
    BY <1>2, <1>t DEF ToolCall, ImportCall, LinkCall
  <2> QED
    BY <1>1, <2>1, <2>2, Labels
<1>3. ASSUME NEW r \in Request, ImportReplace(r) PROVE DownloadInv'
  <2>1. Goto(r, "reread") /\ pc[r] = "replace" /\ UNCHANGED lost
    BY <1>3 DEF ImportReplace
  <2>2. UNCHANGED << token, owner, user, link, shown, served >>
    BY <1>3, ReplacedFile
  <2>3. pc[r] # "stream"
    BY <2>1
  <2>4. PICK l \in {"reread"} : Goto(r, l)
    BY <2>1
  <2> QED
    BY <1>1, <2>1, <2>2, <2>3, <2>4, Labels
<1>4. ASSUME NEW r \in Request, LinkSign(r) PROVE DownloadInv'
  <2>1. PICK t \in Token :
          /\ token[t] = "unsigned"
          /\ token' = [token EXCEPT ![t] = "live"]
          /\ owner' = [owner EXCEPT ![t] = user[r]]
          /\ link' = [link EXCEPT ![r] = t]
    BY <1>4 DEF LinkSign
  <2>2. UNCHANGED << user, shown, served, lost >> /\ pc[r] = "sign"
    BY <1>4 DEF LinkSign
  <2>3. /\ \A x \in Token : token'[x] = "spent" <=> token[x] = "spent"
        /\ \A x \in Token : token[x] = "spent" => owner'[x] = owner[x]
    <3>1. token'[t] = "live" /\ \A x \in Token \ {t} : token'[x] = token[x] /\ owner'[x] = owner[x]
      BY <2>1, <1>t
    <3> QED
      BY <2>1, <3>1
  <2>4. \A q \in Request \ {r} :
          user'[q] = user[q] /\ link'[q] = link[q] /\ shown'[q] = shown[q]
    BY <2>1, <2>2, <1>t
  <2>5. PICK l \in {"linked"} : Goto(r, l)
    BY <1>4 DEF LinkSign
  <2> QED
    BY <1>1, <2>2, <2>3, <2>4, <2>5, Labels
\* The link's corpus is there, so that only an error keeps it from being sent.
<1>5. ASSUME NEW r \in Request, DownloadStream(r)
      PROVE  DownloadInv'
  <2>0. pc[r] = "stream" /\ user[r] \in User /\ file[user[r]] # NoCorpus
    <3>1. pc[r] = "stream" /\ user[r] \in User /\ link[r] \in Token
      BY <1>5, <1>t DEF DownloadStream
    <3>2. token[link[r]] # "unsigned" /\ user[r] = owner[link[r]]
      BY <3>1
    <3> QED
      BY <3>1, <3>2 DEF LinkInv, LinkHasData
  <2>1. /\ pc' = [pc EXCEPT ![r] = "downloaded"]
        /\ shown' = [shown EXCEPT ![r] = file[user[r]]]
        /\ served' = [served EXCEPT ![link[r]] = IF @ = 0 THEN 1 ELSE 2]
        /\ UNCHANGED << token, owner, user, link, lost >>
    BY <1>5, <2>0 DEF DownloadStream
  <2>2. /\ link[r] \in Token /\ user[r] = owner[link[r]] /\ link[r] \notin lost
        /\ token[link[r]] = "spent" /\ served[link[r]] = 0
    BY <2>0, <1>t
  <2>3. file[user[r]].of = user[r]
    BY <2>0 DEF LinkInv, FilesAreOwn
  <2>4. served'[link[r]] = 1 /\ \A t \in Token \ {link[r]} : served'[t] = served[t]
    BY <2>1, <2>2, <1>t
  <2>5. /\ pc'[r] = "downloaded" /\ shown'[r] = file[user[r]]
        /\ \A q \in Request \ {r} : pc'[q] = pc[q] /\ shown'[q] = shown[q]
    BY <2>1, <1>t
  <2>6. StreamerHoldsLink'
    <3>1. \A q \in Request : pc'[q] = "stream" =>
            /\ q # r /\ pc[q] = "stream"
            /\ link[q] \in Token \ {link[r]}
      BY <2>0, <2>5, <1>t
    <3> QED
      BY <2>1, <2>4, <3>1
  <2>7. DownloadedIsOwn'
    BY <2>1, <2>2, <2>3, <2>5
  <2>8. ServedIsSpent' /\ LostIsUnserved'
    BY <2>1, <2>2, <2>4, <1>t
  <2>9. SpentIsAccounted'
    BY <2>0, <2>1, <2>4, <2>5
  <2> QED
    BY <2>6, <2>7, <2>8, <2>9
<1>6. ASSUME NEW r \in Request, DownloadError(r) PROVE DownloadInv'
  <2>1. /\ pc[r] = "stream" /\ pc' = [pc EXCEPT ![r] = "not found"]
        /\ lost' = lost \cup {link[r]}
        /\ UNCHANGED << token, owner, user, link, shown, served >>
    BY <1>6 DEF DownloadError
  <2>2. link[r] \in Token /\ token[link[r]] = "spent" /\ served[link[r]] = 0
    BY <2>1, <1>t
  <2>3. pc'[r] = "not found" /\ \A q \in Request \ {r} : pc'[q] = pc[q]
    BY <2>1, <1>t
  <2>4. \A q \in Request \ {r} : pc[q] = "stream" => link[q] # link[r]
    BY <2>1
  <2>5. StreamerHoldsLink'
    <3>1. \A q \in Request : pc'[q] = "stream" => q # r /\ pc[q] = "stream"
      BY <2>3
    <3> QED
      BY <2>1, <2>4, <3>1
  <2>8. DownloadedIsOwn'
    BY <2>1, <2>3
  <2>6. ServedIsSpent' /\ LostIsUnserved'
    BY <2>1, <2>2
  <2>7. SpentIsAccounted'
    <3>1. ASSUME NEW t \in Token, token'[t] = "spent"
          PROVE  \/ \E q \in Request : pc'[q] = "stream" /\ link'[q] = t
                 \/ t \in lost' \/ served'[t] = 1
      <4>1. CASE t = link[r]
        BY <2>1, <4>1
      <4>2. CASE t # link[r]
        <5>1. token[t] = "spent"
          BY <2>1, <3>1
        <5>2. ASSUME NEW q \in Request, pc[q] = "stream", link[q] = t
              PROVE  pc'[q] = "stream" /\ link'[q] = t
          BY <2>1, <2>3, <4>2, <5>2
        <5> QED
          BY <2>1, <5>1, <5>2
      <4> QED
        BY <4>1, <4>2
    <3> QED
      BY <3>1
  <2> QED
    BY <2>5, <2>6, <2>7, <2>8
<1>10. ASSUME NEW r \in Request, Step(r) \/ ImportCheckError(r), ~ImportReplace(r),
              ~LinkSign(r), ~DownloadStream(r), ~DownloadError(r)
      PROVE  DownloadInv'
  <2>1. PICK l \in {"refused", "replace", "failed", "imported", "not reread", "idle"} :
          Goto(r, l) /\ pc[r] # "stream"
    BY <1>10, Labels DEF Step, ImportCheck, ImportCheckError, ImportReplaceError,
       ImportReread, ImportRereadSuperseded, ImportRereadError, Return
  <2>2. UNCHANGED << token, owner, served, lost >>
    BY <1>10 DEF Step, ImportCheck, ImportCheckError, ImportReplaceError, ImportReread,
       ImportRereadSuperseded, ImportRereadError, Return
  <2>3. \A q \in Request \ {r} :
          user'[q] = user[q] /\ link'[q] = link[q] /\ shown'[q] = shown[q]
    BY <1>10, <1>t DEF Step, ImportCheck, ImportCheckError, ImportReplaceError,
       ImportReread, ImportRereadSuperseded, ImportRereadError, Return
  <2> QED
    BY <1>1, <2>1, <2>2, <2>3, Labels
<1>7. ASSUME NEW r \in Request, NEW t \in Token \cup {NoToken}, DownloadCall(r, t)
      PROVE  DownloadInv'
  <2>1. /\ link' = [link EXCEPT ![r] = t]
        /\ UNCHANGED << owner, shown, served, lost >> /\ pc[r] = "idle"
    BY <1>7 DEF DownloadCall
  <2>2. CASE /\ UNCHANGED << token, user >>
             /\ \E l \in {"bad request", "unauthorized", "gone"} : Goto(r, l)
    BY <1>1, <1>t, <2>1, <2>2, Labels
  <2>3. CASE /\ Standing(t) = "live"
             /\ token' = [token EXCEPT ![t] = "spent"]
             /\ user' = [user EXCEPT ![r] = owner[t]]
             /\ Goto(r, "stream")
    <3>1. t \in Token /\ token[t] = "live" /\ served[t] = 0 /\ t \notin lost
      BY <2>3, <1>t DEF Standing
    <3>2. /\ pc'[r] = "stream" /\ link'[r] = t /\ user'[r] = owner[t] /\ token'[t] = "spent"
          /\ \A q \in Request \ {r} :
                pc'[q] = pc[q] /\ link'[q] = link[q] /\ user'[q] = user[q]
          /\ \A x \in Token : token[x] = "spent" => token'[x] = "spent"
          /\ \A x \in Token : token'[x] = "spent" => token[x] = "spent" \/ x = t
      BY <2>1, <2>3, <3>1, <1>t
    <3>3. StreamerHoldsLink'
      <4>1. \A q \in Request \ {r} : pc'[q] = "stream" =>
              link'[q] \in Token /\ token[link'[q]] = "spent" /\ link'[q] # t
        BY <3>1, <3>2, <1>t
      <4> QED
        BY <2>1, <3>1, <3>2, <4>1, <1>t
    <3>4. DownloadedIsOwn'
      BY <2>1, <3>1, <3>2, <1>t
    <3>5. ServedIsSpent' /\ LostIsUnserved'
      BY <2>1, <3>2, <1>t
    <3>6. SpentIsAccounted'
      BY <2>1, <3>2
    <3> QED
      BY <3>3, <3>4, <3>5, <3>6
  <2> QED
    BY <1>7, <2>2, <2>3 DEF DownloadCall
<1>8. ASSUME NEW t \in Token, Expire(t) PROVE DownloadInv'
  <2>1. \A x \in Token : token'[x] = "spent" <=> token[x] = "spent"
    BY <1>8, <1>t DEF Expire
  <2> QED
    BY <1>8, <2>1, <1>t DEF Expire
<1>9. CASE UNCHANGED vars
  BY <1>9 DEF vars
<1> QED
  BY <1>2, <1>3, <1>4, <1>5, <1>6, <1>7, <1>8, <1>9, <1>10 DEF Next, Download, Step

-----------------------------------------------------------------------------
(* Imports keep what they should and report what they stored.              *)

LEMMA ImportNext == Typed /\ ImportInv /\ [Next]_vars => ImportInv'
<1> SUFFICES ASSUME Typed, ImportInv, [Next]_vars PROVE ImportInv'
  OBVIOUS
<1> USE DEF ImportInv, ReplacesNothing, RereadsOwn, ImportReportIsOwn, Goto, args
<1>t. /\ pc \in [Request -> {"idle"} \cup Working \cup Answer]
      /\ user \in [Request -> Id]
      /\ content \in [Request -> Content \cup {NoContent}]
      /\ overwrite \in [Request -> BOOLEAN]
      /\ shown \in [Request -> Corpus \cup {NoCorpus}]
      /\ disturbed \in [Request -> BOOLEAN]
      /\ file \in [User -> Corpus \cup {NoCorpus}]
      /\ \A r \in Request : pc[r] \in {"check", "replace", "reread"} => user[r] \in User
  BY Labels DEF Typed, TypeOK, ActsForUser
\* A step of r that is not a Replace leaves the others' imports as they were.
<1>1. ASSUME NEW r \in Request, NEW l \in {"idle"} \cup Working \cup Answer, Goto(r, l),
             UNCHANGED file,
             \A q \in Request \ {r} :
                /\ user'[q] = user[q] /\ content'[q] = content[q]
                /\ overwrite'[q] = overwrite[q]
                /\ shown'[q] = shown[q] /\ disturbed'[q] = disturbed[q],
             l = "replace" /\ ~overwrite'[r] /\ ~disturbed'[r] => file[user'[r]] = NoCorpus,
             l # "reread",
             l = "imported" /\ ~disturbed'[r] =>
                shown'[r] = [of |-> user'[r], content |-> content'[r]]
      PROVE  ImportInv'
  <2>1. pc'[r] = l /\ \A q \in Request \ {r} : pc'[q] = pc[q]
    BY <1>1, <1>t
  <2>2. ReplacesNothing'
    BY <1>1, <2>1
  <2>3. RereadsOwn'
    BY <1>1, <2>1
  <2>4. ImportReportIsOwn'
    BY <1>1, <2>1
  <2> QED
    BY <2>2, <2>3, <2>4
<1>2. ASSUME NEW r \in Request, NEW u \in Id, ToolCall(r, u) PROVE ImportInv'
  <2>1. PICK l \in {"refused", "replace", "check", "sign"} : Goto(r, l)
    BY <1>2 DEF ToolCall, ImportCall, LinkCall
  <2>2. /\ UNCHANGED << file, shown, disturbed >>
        /\ \A q \in Request \ {r} :
              user'[q] = user[q] /\ content'[q] = content[q] /\ overwrite'[q] = overwrite[q]
    BY <1>2, <1>t DEF ToolCall, ImportCall, LinkCall
  <2>3. l = "replace" => overwrite'[r]
    BY <1>2, <2>1, <1>t DEF ToolCall, ImportCall, LinkCall
  <2> QED
    BY <1>1, <2>1, <2>2, <2>3, Labels
<1>3. ASSUME NEW r \in Request, ImportCheck(r) PROVE ImportInv'
  <2>1. PICK l \in {"refused", "replace"} :
          Goto(r, l) /\ (l = "replace" => file[user[r]] = NoCorpus)
    BY <1>3 DEF ImportCheck
  <2>2. UNCHANGED << file, user, content, overwrite, shown, disturbed >>
    BY <1>3 DEF ImportCheck
  <2> QED
    BY <1>1, <2>1, <2>2, Labels
<1>4. ASSUME NEW r \in Request, ImportCheckError(r) PROVE ImportInv'
  <2>1. /\ Goto(r, "replace") /\ disturbed' = [disturbed EXCEPT ![r] = TRUE]
        /\ UNCHANGED << file, user, content, overwrite, shown >>
    BY <1>4 DEF ImportCheckError
  <2>2. disturbed'[r] /\ \A q \in Request \ {r} : disturbed'[q] = disturbed[q]
    BY <2>1, <1>t
  <2> QED
    BY <1>1, <2>1, <2>2, Labels
<1>5. ASSUME NEW r \in Request, ImportReplace(r) PROVE ImportInv'
  <2> DEFINE c == [of |-> user[r], content |-> content[r]]
  <2>1. /\ user[r] \in User
        /\ file' = [file EXCEPT ![user[r]] = c]
        /\ UNCHANGED << user, content, overwrite, shown >>
    BY <1>5, ReplacedFile
  <2>2. pc' = [pc EXCEPT ![r] = "reread"] /\ disturbed' = Disturb(r)
    BY <1>5 DEF ImportReplace
  <2>3. /\ pc'[r] = "reread" /\ file'[user[r]] = c
        /\ \A q \in Request \ {r} : pc'[q] = pc[q]
        /\ \A u \in User \ {user[r]} : file'[u] = file[u]
    BY <2>1, <2>2, <1>t
  \* Those whose file this is are disturbed.
  <2>4. \A q \in Request \ {r} : ~disturbed'[q] =>
          ~disturbed[q] /\ (pc[q] \in {"replace", "reread"} => user[q] # user[r])
    BY <2>2 DEF Disturb
  <2>5. \A q \in Request \ {r} :
          ~disturbed'[q] /\ pc[q] \in {"replace", "reread"} => file'[user[q]] = file[user[q]]
    BY <2>3, <2>4, <1>t
  <2> HIDE DEF c
  <2>6. ReplacesNothing'
    BY <2>1, <2>3, <2>4, <2>5
  <2>7. RereadsOwn'
    BY <2>1, <2>3, <2>4, <2>5 DEF c
  <2>8. ImportReportIsOwn'
    BY <2>1, <2>3, <2>4
  <2> QED
    BY <2>6, <2>7, <2>8
<1>6. ASSUME NEW r \in Request, ImportReread(r) PROVE ImportInv'
  <2>1. /\ Goto(r, "imported") /\ pc[r] = "reread"
        /\ shown' = [shown EXCEPT ![r] = file[user[r]]]
        /\ UNCHANGED << file, user, content, overwrite, disturbed >>
    BY <1>6 DEF ImportReread
  <2>2. shown'[r] = file[user[r]] /\ \A q \in Request \ {r} : shown'[q] = shown[q]
    BY <2>1, <1>t
  <2>3. ~disturbed[r] => file[user[r]] = [of |-> user[r], content |-> content[r]]
    BY <2>1
  <2> QED
    BY <1>1, <2>1, <2>2, <2>3, Labels
<1>7. ASSUME NEW r \in Request, ImportRereadSuperseded(r) PROVE ImportInv'
  <2>1. /\ Goto(r, "imported") /\ disturbed' = [disturbed EXCEPT ![r] = TRUE]
        /\ UNCHANGED << file, user, content, overwrite >>
    BY <1>7 DEF ImportRereadSuperseded
  <2>2. /\ disturbed'[r]
        /\ \A q \in Request \ {r} : disturbed'[q] = disturbed[q] /\ shown'[q] = shown[q]
    BY <1>7, <1>t DEF ImportRereadSuperseded
  <2> QED
    BY <1>1, <2>1, <2>2, Labels
<1>8. ASSUME NEW r \in Request,
             \/ ImportReplaceError(r) \/ ImportRereadError(r) \/ LinkSign(r)
             \/ DownloadStream(r) \/ DownloadError(r) \/ Return(r)
      PROVE  ImportInv'
  <2>1. PICK l \in {"failed", "not reread", "linked", "not found", "downloaded", "idle"} :
          Goto(r, l)
    BY <1>8 DEF ImportReplaceError, ImportRereadError, LinkSign, DownloadStream,
       DownloadError, Return
  <2>2. /\ UNCHANGED file
        /\ \A q \in Request \ {r} :
              /\ user'[q] = user[q] /\ content'[q] = content[q]
              /\ overwrite'[q] = overwrite[q]
              /\ shown'[q] = shown[q] /\ disturbed'[q] = disturbed[q]
    BY <1>8, <1>t DEF ImportReplaceError, ImportRereadError, LinkSign, DownloadStream,
       DownloadError, Return
  <2> QED
    BY <1>1, <2>1, <2>2, Labels
<1>9. ASSUME NEW r \in Request, NEW t \in Token \cup {NoToken}, DownloadCall(r, t)
      PROVE  ImportInv'
  <2>1. PICK l \in {"bad request", "unauthorized", "gone", "stream"} : Goto(r, l)
    BY <1>9 DEF DownloadCall
  <2>2. /\ UNCHANGED << file, content, overwrite, shown, disturbed >>
        /\ \A q \in Request \ {r} : user'[q] = user[q]
    BY <1>9, <1>t DEF DownloadCall
  <2> QED
    BY <1>1, <2>1, <2>2, Labels
<1>10. CASE (\E t \in Token : Expire(t)) \/ UNCHANGED vars
  BY <1>10 DEF Expire, vars
<1> QED
  BY <1>2, <1>3, <1>4, <1>5, <1>6, <1>7, <1>8, <1>9, <1>10 DEF Next, Download, Step

-----------------------------------------------------------------------------

LEMMA InitTransferInv == Init => TransferInv
<1> SUFFICES ASSUME Init PROVE TransferInv
  OBVIOUS
<1>1. LinkInv
  BY DEF Init, LinkInv, FilesAreOwn, SignerHasData, LinkHasData
<1>2. DownloadInv
  BY DEF Init, DownloadInv, StreamerHoldsLink, ServedIsSpent, LostIsUnserved,
     SpentIsAccounted, DownloadedIsOwn
<1>3. ImportInv
  BY DEF Init, ImportInv, ReplacesNothing, RereadsOwn, ImportReportIsOwn
<1> QED
  BY <1>1, <1>2, <1>3, InitTyped DEF TransferInv, Typed

LEMMA TransferInvariant == Spec => []TransferInv
<1>1. TransferInv /\ [Next]_vars => TransferInv'
  BY NextTyped, LinkNext, DownloadNext, ImportNext DEF TransferInv, Typed
<1> QED
  BY <1>1, InitTransferInv, PTL DEF Spec

\* Every variable of the import, link and download handlers keeps its type.
THEOREM TransferTypeOK == Spec => []TypeOK
<1>1. TransferInv => TypeOK
  BY DEF TransferInv
<1> QED
  BY <1>1, TransferInvariant, PTL

\* request_export_link.go hands out no link without data behind it, and no
\* later call of any tool takes the data away.
THEOREM LinksHaveData == Spec => []LinkHasData
<1>1. TransferInv => LinkHasData
  BY DEF TransferInv, LinkInv
<1> QED
  BY <1>1, TransferInvariant, PTL

\* download.go: a link is good for one download, of its owner's corpus,
\* however many requests present it at once, and only an error of the store on
\* the way of its one download uses it up for nothing.
THEOREM DownloadsAreOwnAndOnce == Spec => []DownloadIsOwnAndOnce
<1>1. TransferInv => DownloadIsOwnAndOnce
  BY DEF TransferInv, TypeOK, DownloadInv, ServedIsSpent, LostIsUnserved,
     SpentIsAccounted, DownloadedIsOwn, DownloadIsOwnAndOnce
<1> QED
  BY <1>1, TransferInvariant, PTL

\* import_data.go reports the counts of what it stored, unless another call
\* of the user overlaps it.
THEOREM ImportReportsAreOwn == Spec => []ImportReportIsOwn
<1>1. TransferInv => ImportReportIsOwn
  BY DEF TransferInv, ImportInv
<1> QED
  BY <1>1, TransferInvariant, PTL

\* import_data.go with overwrite: false replaces data only if its look at the
\* store failed or was overtaken by another import of the user.
THEOREM ImportKeepsData == Spec => KeepsWhenUndisturbed
<1>1. ASSUME TransferInv, [Next]_vars
      PROVE  [\A r \in Request :
                pc[r] = "replace" /\ pc'[r] = "reread" /\ ~overwrite[r] /\ ~disturbed[r]
                    => file[user[r]] = NoCorpus]_vars
  BY <1>1 DEF TransferInv, ImportInv, ReplacesNothing
<1> QED
  BY <1>1, TransferInvariant, PTL DEF Spec, KeepsWhenUndisturbed

=============================================================================
