-------------------------- MODULE UserStoreProofs ---------------------------
(***************************************************************************)
(* The safety of the corpus store for every set of users, requests, texts  *)
(* and temp names, every capacity of the cache and any number of crashes.  *)
(*                                                                         *)
(* The argument has three layers, each inductive given the one before:     *)
(* ControlInv (who holds which lock), FileInv (what is in the temp files   *)
(* and in flight), and the properties of the files and of the cache.  On   *)
(* them rest two theorems about the store as its callers see it: its files *)
(* are the registers of CorpusFile, and its cache holds a superseded       *)
(* corpus only when a Load was overtaken by a rename.                      *)
(***************************************************************************)
EXTENDS StoreHistory, CollectionLemmas

-----------------------------------------------------------------------------
(* Layer 1: control and the per-user mutex.                                *)

ControlInv ==
    /\ lock \in [User -> Request \cup {NoRequest}]
    /\ pc \in [Request -> Label]
    /\ who \in [Request -> Id]
    /\ tmp \in [Request -> TempName \cup {NoTemp}]
    /\ ok \in [Request -> BOOLEAN]
    /\ \A r \in Request : pc[r] \in Locked \cup {"lock"} => who[r] \in User
    /\ \A r \in Request : pc[r] \in Writing \cup Cleaning => tmp[r] \in TempName
    /\ OneWriterPerUser

LEMMA ControlInit == Init => ControlInv
<1> SUFFICES ASSUME Init PROVE ControlInv
  OBVIOUS
<1>1. Anon \in Id
  BY DEF Id
<1> QED
  BY <1>1, UserStoreAssumption
  DEF Init, Idle, ControlInv, OneWriterPerUser, Label, Locked, Writing, Cleaning,
     Returning

\* A step that leaves the mutexes alone and moves one request among the labels
\* where it holds its user's mutex, or among those where it does not.
LEMMA ControlFrame ==
    ASSUME ControlInv, NEW r \in Request, NEW label \in Label,
           pc' = [pc EXCEPT ![r] = label],
           lock' = lock,
           who' \in [Request -> Id],
           tmp' \in [Request -> TempName \cup {NoTemp}],
           ok' \in [Request -> BOOLEAN],
           \A q \in Request \ {r} : who'[q] = who[q] /\ tmp'[q] = tmp[q],
           pc[r] \in Locked <=> label \in Locked,
           label \in Locked => who'[r] = who[r],
           label = "lock" => who'[r] \in User,
           label \in Writing \cup Cleaning => tmp'[r] \in TempName
    PROVE  ControlInv'
<1>1. \A q \in Request : q # r => pc'[q] = pc[q]
  BY DEF ControlInv
<1>2. pc' \in [Request -> Label] /\ pc'[r] = label
  BY DEF ControlInv
<1>3. \A q \in Request : pc'[q] \in Locked \cup {"lock"} => who'[q] \in User
  BY <1>1, <1>2 DEF ControlInv
<1>4. \A q \in Request : pc'[q] \in Writing \cup Cleaning => tmp'[q] \in TempName
  BY <1>1, <1>2 DEF ControlInv
<1>5. OneWriterPerUser'
  BY <1>1, <1>2 DEF ControlInv, OneWriterPerUser
<1> QED
  BY <1>2, <1>3, <1>4, <1>5 DEF ControlInv

LEMMA ControlInvoke ==
    ASSUME ControlInv, NEW r \in Request, NEW u \in Id, Invoke(r, u)
    PROVE  ControlInv'
<1> DEFINE Moved(label) == /\ pc' = [pc EXCEPT ![r] = label]
                           /\ label = "lock" => u \in User
<1>1. \E label \in {"loaded", "read", "raw", "written", "lock"} :
         /\ pc[r] = "idle" /\ Moved(label)
         /\ who' = [who EXCEPT ![r] = u]
         /\ lock' = lock /\ tmp' = tmp
         /\ ok' = ok \/ ok' = [ok EXCEPT ![r] = FALSE]
  <2>1. CASE LoadLookup(r, u)
    BY <2>1 DEF LoadLookup, Call
  <2>2. CASE Raw(r, u)
    BY <2>2 DEF Raw, Call, Refuse
  <2>3. ASSUME NEW t \in Text, Replace(r, u, t)
        PROVE  <1>1!:
    BY <2>3 DEF Replace, Call, Refuse, Id
  <2>4. ASSUME NEW d \in Doc, Save(r, u, d)
        PROVE  <1>1!:
    BY <2>4 DEF Save, Call, Refuse, Id
  <2> QED
    BY <2>1, <2>2, <2>3, <2>4 DEF Invoke
<1>2. PICK label \in {"loaded", "read", "raw", "written", "lock"} : <1>1!(label)
  BY <1>1
<1>3. /\ who' \in [Request -> Id] /\ who'[r] = u
      /\ tmp' \in [Request -> TempName \cup {NoTemp}]
      /\ ok' \in [Request -> BOOLEAN]
      /\ \A q \in Request \ {r} : who'[q] = who[q] /\ tmp'[q] = tmp[q]
  BY <1>2 DEF ControlInv
<1>4. /\ label \in Label /\ label \notin Locked /\ label \notin Writing \cup Cleaning
      /\ pc[r] \notin Locked
  BY <1>2 DEF Label, Locked, Writing, Cleaning, Returning
<1> QED
  BY <1>2, <1>3, <1>4, ControlFrame

\* A step of a request that neither takes nor releases a mutex.
LEMMA ControlMove ==
    ASSUME ControlInv, NEW r \in Request, NEW from \in Label, NEW label \in Label,
           pc[r] = from,
           Goto(r, label) \/ Fail(r, label) \/ \E v : Return(r, label, v),
           lock' = lock,
           from \in Locked <=> label \in Locked,
           label # "lock",
           label \in Writing \cup Cleaning => from \in Writing \cup Cleaning
    PROVE  ControlInv'
<1>1. /\ pc' = [pc EXCEPT ![r] = label]
      /\ who' = who /\ tmp' = tmp
      /\ ok' = ok \/ ok' = [ok EXCEPT ![r] = FALSE]
  BY DEF Goto, Fail, Return
<1>2. /\ who' \in [Request -> Id]
      /\ tmp' \in [Request -> TempName \cup {NoTemp}]
      /\ ok' \in [Request -> BOOLEAN]
      /\ label \in Writing \cup Cleaning => tmp'[r] \in TempName
  BY <1>1 DEF ControlInv
<1> QED
  BY <1>1, <1>2, ControlFrame

LEMMA ControlAcquire ==
    ASSUME ControlInv, NEW r \in Request, Acquire(r)
    PROVE  ControlInv'
<1>1. /\ pc[r] = "lock" /\ lock[who[r]] = NoRequest /\ who[r] \in User
      /\ lock' = [lock EXCEPT ![who[r]] = r]
      /\ pc' = [pc EXCEPT ![r] = "create"]
      /\ who' = who /\ tmp' = tmp /\ ok' = ok
  BY DEF Acquire, Goto, ControlInv
<1>2. OneWriterPerUser'
  BY <1>1, UserStoreAssumption
  DEF ControlInv, OneWriterPerUser, Label, Locked, Writing, Cleaning, Returning
<1> QED
  BY <1>1, <1>2 DEF ControlInv, Label, Locked, Writing, Cleaning, Returning

LEMMA ControlUnlock ==
    ASSUME ControlInv, NEW r \in Request, Unlock(r)
    PROVE  ControlInv'
<1>1. /\ pc[r] = "unlock" /\ who[r] \in User
      /\ lock' = [lock EXCEPT ![who[r]] = NoRequest]
      /\ pc' = [pc EXCEPT ![r] = "written"]
      /\ who' = who /\ tmp' = tmp /\ ok' = ok
  BY DEF Unlock, Goto, ControlInv, Locked, Cleaning
<1>2. OneWriterPerUser'
  BY <1>1, UserStoreAssumption
  DEF ControlInv, OneWriterPerUser, Label, Locked, Writing, Cleaning, Returning
<1> QED
  BY <1>1, <1>2 DEF ControlInv, Label, Locked, Writing, Cleaning, Returning

LEMMA ControlStep ==
    ASSUME ControlInv, NEW r \in Request, Step(r) \/ CleanupError(r)
    PROVE  ControlInv'
<1> USE DEF Label, Locked, Writing, Cleaning, Returning
<1>1. CASE LoadRead(r)
  <2>1. /\ pc[r] = "read" /\ lock' = lock
        /\ \E label \in {"loaded", "fill"} :
              Fail(r, label) \/ \E v : Return(r, label, v)
    BY <1>1 DEF LoadRead
  <2> QED
    BY <2>1, ControlMove
<1>2. CASE LoadReadError(r)
  BY <1>2, ControlMove DEF LoadReadError
<1>3. CASE LoadFill(r)
  BY <1>3, ControlMove DEF LoadFill
<1>4. CASE CreateTemp(r)
  <2>1. PICK n \in TempName : tmp' = [tmp EXCEPT ![r] = n]
    BY <1>4 DEF CreateTemp
  <2>2. /\ pc[r] = "create" /\ pc' = [pc EXCEPT ![r] = "write"]
        /\ lock' = lock /\ who' = who /\ ok' = ok
    BY <1>4 DEF CreateTemp
  <2>3. /\ tmp' \in [Request -> TempName \cup {NoTemp}] /\ tmp'[r] = n
        /\ \A q \in Request \ {r} : tmp'[q] = tmp[q]
    BY <2>1 DEF ControlInv
  <2>4. who' \in [Request -> Id] /\ ok' \in [Request -> BOOLEAN]
    BY <2>2 DEF ControlInv
  <2> QED
    BY <2>2, <2>3, <2>4, ControlFrame
<1>5. CASE CreateError(r)
  BY <1>5, ControlMove DEF CreateError
<1>6. CASE Write(r)
  BY <1>6, ControlMove DEF Write
<1>7. CASE Sync(r)
  BY <1>7, ControlMove DEF Sync
<1>8. CASE Rename(r)
  BY <1>8, ControlMove DEF Rename
<1>9. CASE WriteError(r)
  BY <1>9, ControlMove DEF WriteError
<1>10. CASE CleanupStat(r) \/ CleanupRemove(r) \/ CleanupError(r)
  <2>1. /\ pc[r] \in Cleaning /\ lock' = lock
        /\ \E label \in {"remove", "invalidate", "unlock"} : Goto(r, label)
    BY <1>10 DEF CleanupStat, CleanupRemove, CleanupError, AfterWrite, Cleaning
  <2> QED
    BY <2>1, ControlMove
<1>11. CASE Invalidate(r)
  BY <1>11, ControlMove DEF Invalidate
<1>12. CASE Done(r)
  <2>1. /\ pc[r] \in Returning /\ pc' = [pc EXCEPT ![r] = "idle"]
        /\ lock' = lock
        /\ who' = [who EXCEPT ![r] = Anon]
        /\ tmp' = [tmp EXCEPT ![r] = NoTemp]
        /\ ok' = [ok EXCEPT ![r] = TRUE]
    BY <1>12 DEF Done
  <2>2. /\ who' \in [Request -> Id]
        /\ tmp' \in [Request -> TempName \cup {NoTemp}]
        /\ ok' \in [Request -> BOOLEAN]
        /\ \A q \in Request \ {r} : who'[q] = who[q] /\ tmp'[q] = tmp[q]
    BY <2>1 DEF ControlInv, Id
  <2> QED
    BY <2>1, <2>2, ControlFrame
<1> QED
  BY <1>1, <1>2, <1>3, <1>4, <1>5, <1>6, <1>7, <1>8, <1>9, <1>10, <1>11, <1>12,
     ControlAcquire, ControlUnlock DEF Step

LEMMA ControlRestart == Restart => ControlInv'
<1> SUFFICES ASSUME Restart PROVE ControlInv'
  OBVIOUS
<1>1. Anon \in Id
  BY DEF Id
<1> QED
  BY <1>1, UserStoreAssumption
  DEF Restart, ControlInv, OneWriterPerUser, Label, Locked, Writing, Cleaning, Returning

LEMMA ControlNext == ControlInv /\ [Next]_vars => ControlInv'
<1> SUFFICES ASSUME ControlInv, [Next]_vars PROVE ControlInv'
  OBVIOUS
<1>1. CASE UNCHANGED << lock, frame >>
  BY <1>1 DEF frame, ControlInv, OneWriterPerUser
<1>2. CASE Upload \/ \E u \in User : Writeback(u)
  BY <1>1, <1>2 DEF Upload, Writeback
<1>3. CASE Crash \/ PowerLoss
  BY <1>3, ControlRestart DEF Crash, PowerLoss
<1>4. CASE UNCHANGED vars
  BY <1>1, <1>4 DEF vars, frame
<1> QED
  BY <1>2, <1>3, <1>4, ControlInvoke, ControlStep DEF Next, Server, Failure

LEMMA ControlInvariant == Spec => []ControlInv
BY ControlInit, ControlNext, PTL DEF Spec

\* Every user's mutex is held exactly by the one request of that user that is
\* between Lock and the deferred Unlock (store.go, Save and Replace).
THEOREM OneWriter == Spec => []OneWriterPerUser
<1>1. ControlInv => OneWriterPerUser
  BY DEF ControlInv
<1> QED
  BY <1>1, ControlInvariant, PTL

-----------------------------------------------------------------------------
(* Layer 2: the files, the values in flight and the cache.                 *)

\* A version of u's storyplotter.json that may be read now or after a crash.
Whole(f, u) ==
    f # NoFile =>
        /\ f \in File
        /\ f.of = u
        /\ f.synced
        /\ u \in User => Parse[f.text] # ParseError

DiskInv ==
    /\ disk \in [Id -> File \cup {NoFile}]
    /\ stable \in [Id -> File \cup {NoFile}]
    /\ \A u \in Id : Whole(disk[u], u) /\ Whole(stable[u], u)
    /\ stable[Anon] = disk[Anon]

\* What a request at a label may carry for a user id.
Carries(label, u, v) ==
    /\ v = NoVal \/ (v \in Corpus \cup Bytes /\ v.of = u)
    /\ label \in Locked \cup {"lock"} => v \in Bytes /\ Parse[v.text] # ParseError
    /\ label = "fill" => v \in Corpus
    /\ label = "idle" => v = NoVal

ValInv ==
    /\ val \in [Request -> Corpus \cup Bytes \cup {NoVal}]
    /\ \A r \in Request : Carries(pc[r], who[r], val[r])

\* The temp file of a request is what its label says.
OwnTemp(r) ==
    /\ pc[r] \in Writing => temps[who[r]][tmp[r]] # NoFile
    /\ pc[r] \in {"sync", "rename"} =>
          temps[who[r]][tmp[r]] =
             [of |-> val[r].of, text |-> val[r].text, synced |-> pc[r] = "rename"]

TempInv ==
    /\ temps \in [User -> [TempName -> File \cup {NoFile}]]
    /\ \A r \in Request : OwnTemp(r)

CacheInv ==
    /\ cache \in Caches(Id, Corpus, CacheCap)
    /\ \A u \in DOMAIN cache.items : cache.items[u].of = u

StoreInv ==
    /\ ControlInv /\ DiskInv /\ ValInv /\ TempInv /\ CacheInv
    /\ AckedWriteVisible

LEMMA Capacity == CacheCap \in Nat \ {0}
BY UserStoreAssumption

LEMMA AnonIsId == Anon \in Id /\ User \subseteq Id /\ Id = User \cup {Anon}
BY DEF Id

LEMMA SharedFileType ==
    ASSUME NEW f \in SharedFile
    PROVE  f \in File \cup {NoFile} /\ Whole(f, Anon)
<1>1. CASE f = NoFile
  BY <1>1 DEF Whole
<1>2. ASSUME NEW t \in Text, f = [of |-> Anon, text |-> t, synced |-> TRUE]
      PROVE  f \in File /\ f.of = Anon /\ f.synced
  BY <1>2, AnonIsId DEF File
<1> QED
  BY <1>1, <1>2, UserStoreAssumption DEF SharedFile, Whole

LEMMA StoreInit == Init => StoreInv
<1> SUFFICES ASSUME Init PROVE StoreInv
  OBVIOUS
<1>1. PICK f \in SharedFile : disk = [u \in Id |-> IF u = Anon THEN f ELSE NoFile]
  BY DEF Init
<1>2. f \in File \cup {NoFile} /\ Whole(f, Anon)
  BY SharedFileType
<1>3. DiskInv
  BY <1>1, <1>2, AnonIsId, UserStoreAssumption DEF Init, DiskInv, Whole
<1>4. ValInv
  BY DEF Init, Idle, ValInv, Carries, Locked, Writing, Cleaning
<1>5. TempInv
  BY DEF Init, Idle, TempInv, OwnTemp, Writing, Cleaning
<1>6. CacheInv
  BY Capacity, NewLRUType DEF Init, CacheInv
<1>7. AckedWriteVisible
  BY DEF Init, Idle, AckedWriteVisible, Cleaning
<1> QED
  BY <1>3, <1>4, <1>5, <1>6, <1>7, ControlInit DEF StoreInv

\* What Load makes of a whole file belongs to its user.
LEMMA ParsedType ==
    ASSUME NEW u \in Id, NEW f \in File, f.of = u, Parse[f.text] # ParseError
    PROVE  Parsed(f) \in Corpus /\ Parsed(f).of = u
BY UserStoreAssumption DEF Parsed, File, Corpus

LEMMA EmptyCorpusType ==
    ASSUME NEW u \in Id
    PROVE  EmptyCorpus(u) \in Corpus /\ EmptyCorpus(u).of = u
BY UserStoreAssumption DEF EmptyCorpus, Corpus

LEMMA RestartStore ==
    ASSUME Restart
    PROVE  ValInv' /\ CacheInv' /\ AckedWriteVisible'
<1>1. ValInv'
  BY DEF Restart, ValInv, Carries, Locked, Writing, Cleaning
<1>2. CacheInv'
  BY Capacity, NewLRUType DEF Restart, CacheInv
<1>3. AckedWriteVisible'
  BY DEF Restart, AckedWriteVisible, Cleaning
<1> QED
  BY <1>1, <1>2, <1>3

-----------------------------------------------------------------------------
(* The values in flight.                                                   *)

\* One request moves to a label, for a user and with a value that fit.
Moves(r, label, u, v) ==
    /\ pc' = [pc EXCEPT ![r] = label]
    /\ who' = [who EXCEPT ![r] = u]
    /\ val' = [val EXCEPT ![r] = v]

LEMMA ValFrame ==
    ASSUME StoreInv, NEW r \in Request, NEW label \in Label, NEW u \in Id,
           NEW v \in Corpus \cup Bytes \cup {NoVal},
           Moves(r, label, u, v), Carries(label, u, v)
    PROVE  ValInv'
<1>1. /\ val \in [Request -> Corpus \cup Bytes \cup {NoVal}]
      /\ pc \in [Request -> Label] /\ who \in [Request -> Id]
      /\ \A q \in Request : Carries(pc[q], who[q], val[q])
  BY DEF StoreInv, ControlInv, ValInv
<1>2. \A q \in Request :
         IF q = r THEN pc'[q] = label /\ who'[q] = u /\ val'[q] = v
                  ELSE pc'[q] = pc[q] /\ who'[q] = who[q] /\ val'[q] = val[q]
  BY <1>1 DEF Moves
<1>3. val' \in [Request -> Corpus \cup Bytes \cup {NoVal}]
  BY <1>1 DEF Moves
<1>4. \A q \in Request : Carries(pc'[q], who'[q], val'[q])
  BY <1>1, <1>2
<1> QED
  BY <1>3, <1>4 DEF ValInv

\* A call starts with what it was given, or with nothing when refused.
LEMMA ValInvoke ==
    ASSUME StoreInv, NEW r \in Request, NEW u \in Id, Invoke(r, u)
    PROVE  ValInv'
<1>0. /\ val \in [Request -> Corpus \cup Bytes \cup {NoVal}]
      /\ val[r] \in Corpus \cup Bytes \cup {NoVal}
      /\ who \in [Request -> Id]
  BY DEF StoreInv, ValInv, ControlInv
<1>a. ASSUME NEW label \in {"loaded", "raw", "read"},
             NEW v \in Corpus \cup Bytes \cup {NoVal},
             Call(r, u, label, v), v = NoVal \/ v.of = u
      PROVE  ValInv'
  <2>1. Moves(r, label, u, v) /\ Carries(label, u, v) /\ label \in Label
    BY <1>a DEF Call, Moves, Carries, Label, Locked, Writing, Cleaning, Returning
  <2> QED
    BY <2>1, ValFrame
<1>b. ASSUME NEW v \in Bytes, v.of = u, Parse[v.text] # ParseError,
             Call(r, u, "lock", v)
      PROVE  ValInv'
  <2>1. Moves(r, "lock", u, v) /\ Carries("lock", u, v) /\ "lock" \in Label
    BY <1>b DEF Call, Moves, Carries, Label
  <2> QED
    BY <2>1, ValFrame
<1>1. CASE LoadLookup(r, u)
  <2>1. CASE Cached(cache, u)
    <3>1. cache.items[u] \in Corpus /\ cache.items[u].of = u
      BY <2>1, PartialMapElim DEF Cached, StoreInv, CacheInv, Caches
    <3> QED
      BY <1>1, <2>1, <3>1, <1>a DEF LoadLookup
  <2>2. CASE ~Cached(cache, u)
    BY <1>1, <2>2, <1>a DEF LoadLookup
  <2> QED
    BY <2>1, <2>2
<1>2. CASE Found(u) /\ Call(r, u, "raw", [of |-> disk[u].of, text |-> disk[u].text])
  <2>1. disk[u] \in File /\ disk[u].of = u
    BY <1>2 DEF StoreInv, DiskInv, Whole, Found
  <2>2. /\ [of |-> disk[u].of, text |-> disk[u].text] \in Bytes
        /\ [of |-> disk[u].of, text |-> disk[u].text].of = u
    BY <2>1 DEF File, Bytes
  <2> QED
    BY <1>2, <2>2, <1>a
<1>3. ASSUME NEW t \in Text, u \in User, Parse[t] # ParseError,
             Call(r, u, "lock", [of |-> u, text |-> t])
      PROVE  ValInv'
  <2>1. [of |-> u, text |-> t] \in Bytes
    BY DEF Bytes
  <2> QED
    BY <1>3, <2>1, <1>b
<1>4. ASSUME NEW label \in {"raw", "written"}, Refuse(r, u, label)
      PROVE  ValInv'
  <2>1. pc[r] = "idle" /\ val[r] = NoVal
    BY <1>4 DEF Refuse, StoreInv, ValInv, Carries
  <2>2. Moves(r, label, u, NoVal)
    BY <1>0, <1>4, <2>1 DEF Refuse, Moves
  <2>3. Carries(label, u, NoVal) /\ label \in Label
    BY DEF Carries, Label, Locked, Writing, Cleaning, Returning
  <2> QED
    BY <2>2, <2>3, ValFrame
<1>5. ASSUME NEW t \in Text, Replace(r, u, t)
      PROVE  ValInv'
  BY <1>3, <1>4, <1>5 DEF Replace, Id
<1>6. ASSUME NEW d \in Doc, Save(r, u, d)
      PROVE  ValInv'
  <2>1. Marshal[d] \in Text /\ Parse[Marshal[d]] # ParseError
    BY UserStoreAssumption
  <2> QED
    BY <1>3, <1>4, <1>6, <2>1 DEF Save, Id
<1>7. CASE Raw(r, u)
  BY <1>2, <1>4, <1>7 DEF Raw
<1> QED
  BY <1>1, <1>5, <1>6, <1>7 DEF Invoke

LEMMA ValStep ==
    ASSUME StoreInv, NEW r \in Request, Step(r) \/ CleanupError(r)
    PROVE  ValInv'
<1> DEFINE u == who[r]
<1>0. /\ u \in Id /\ val[r] \in Corpus \cup Bytes \cup {NoVal}
      /\ who \in [Request -> Id] /\ Carries(pc[r], u, val[r])
      /\ val \in [Request -> Corpus \cup Bytes \cup {NoVal}]
      /\ pc \in [Request -> Label]
  BY DEF StoreInv, ValInv, ControlInv
<1> HIDE DEF u
\* The request keeps its value.
<1>a. ASSUME NEW label \in Label \ {"fill", "idle"}, Goto(r, label) \/ Fail(r, label),
             label \in Locked => pc[r] \in Locked \cup {"lock"}, label # "lock"
      PROVE  ValInv'
  <2>1. Moves(r, label, u, val[r])
    BY <1>0, <1>a DEF Goto, Fail, Moves, u
  <2>2. Carries(label, u, val[r])
    BY <1>0, <1>a DEF Carries
  <2> QED
    BY <1>0, <2>1, <2>2, ValFrame
\* A read brings a corpus of the user.
<1>b. ASSUME NEW v \in Corpus, v.of = u, Return(r, "fill", v)
      PROVE  ValInv'
  <2>1. Moves(r, "fill", u, v)
    BY <1>0, <1>b DEF Return, Moves, u
  <2>2. Carries("fill", u, v) /\ "fill" \in Label
    BY <1>b DEF Carries, Label, Locked, Writing, Cleaning
  <2> QED
    BY <1>0, <2>1, <2>2, ValFrame
<1> USE DEF Label, Locked, Writing, Cleaning, Returning
<1>1. CASE LoadRead(r)
  <2>1. CASE Fail(r, "loaded")
    BY <2>1, <1>a
  <2>2. CASE Return(r, "fill", EmptyCorpus(u))
    BY <1>0, <2>2, <1>b, EmptyCorpusType
  <2>3. CASE Found(u) /\ Parse[disk[u].text] # ParseError /\ Return(r, "fill", Parsed(disk[u]))
    <3>1. disk[u] \in File /\ disk[u].of = u
      BY <1>0, <2>3 DEF StoreInv, DiskInv, Whole, Found
    <3>2. Parsed(disk[u]) \in Corpus /\ Parsed(disk[u]).of = u
      BY <1>0, <2>3, <3>1, ParsedType
    <3> QED
      BY <2>3, <3>2, <1>b
  <2> QED
    BY <1>1, <2>1, <2>2, <2>3 DEF LoadRead, u
<1>2. CASE LoadReadError(r)
  BY <1>2, <1>a DEF LoadReadError
<1>3. CASE LoadFill(r)
  BY <1>3, <1>a DEF LoadFill
<1>4. CASE Acquire(r)
  BY <1>4, <1>a DEF Acquire
<1>5. CASE CreateTemp(r)
  <2>1. Moves(r, "write", u, val[r])
    BY <1>0, <1>5 DEF CreateTemp, Moves, u
  <2>2. Carries("write", u, val[r])
    BY <1>0, <1>5 DEF Carries, CreateTemp
  <2> QED
    BY <1>0, <2>1, <2>2, ValFrame
<1>6. CASE CreateError(r) \/ WriteError(r)
  BY <1>6, <1>a DEF CreateError, WriteError
<1>7. CASE Write(r) \/ Sync(r) \/ Rename(r)
  BY <1>7, <1>a DEF Write, Sync, Rename
<1>8. CASE CleanupStat(r) \/ CleanupRemove(r) \/ CleanupError(r)
  BY <1>8, <1>a DEF CleanupStat, CleanupRemove, CleanupError, AfterWrite, Cleaning
<1>9. CASE Invalidate(r) \/ Unlock(r)
  BY <1>9, <1>a DEF Invalidate, Unlock
<1>10. CASE Done(r)
  <2>1. Moves(r, "idle", Anon, NoVal)
    BY <1>10 DEF Done, Moves
  <2>2. Carries("idle", Anon, NoVal)
    BY DEF Carries
  <2> QED
    BY <2>1, <2>2, ValFrame, AnonIsId
<1> QED
  BY <1>1, <1>2, <1>3, <1>4, <1>5, <1>6, <1>7, <1>8, <1>9, <1>10 DEF Step

LEMMA ValNext == StoreInv /\ [Next]_vars => ValInv'
<1> SUFFICES ASSUME StoreInv, [Next]_vars PROVE ValInv'
  OBVIOUS
<1>1. CASE UNCHANGED frame
  BY <1>1 DEF frame, StoreInv, ValInv
<1>2. CASE Upload \/ (\E u \in User : Writeback(u)) \/ UNCHANGED vars
  BY <1>1, <1>2 DEF Upload, Writeback, vars, frame
<1>3. CASE Crash \/ PowerLoss
  BY <1>3, RestartStore DEF Crash, PowerLoss
<1> QED
  BY <1>2, <1>3, ValInvoke, ValStep DEF Next, Server, Failure

-----------------------------------------------------------------------------
(* The users' files.                                                       *)

\* What a writer is about to rename over its user's file.
LEMMA RenamedFile ==
    ASSUME StoreInv, NEW r \in Request, pc[r] = "rename"
    PROVE  /\ who[r] \in User
           /\ temps[who[r]][tmp[r]] \in File
           /\ temps[who[r]][tmp[r]] =
                 [of |-> val[r].of, text |-> val[r].text, synced |-> TRUE]
           /\ Whole(temps[who[r]][tmp[r]], who[r])
<1>1. /\ who[r] \in User /\ val[r] \in Bytes
      /\ val[r].of = who[r] /\ Parse[val[r].text] # ParseError
  BY NotAValue DEF StoreInv, ControlInv, ValInv, Carries, Locked, Writing, Cleaning
<1>2. temps[who[r]][tmp[r]] =
         [of |-> val[r].of, text |-> val[r].text, synced |-> TRUE]
  BY DEF StoreInv, TempInv, OwnTemp
<1>3. [of |-> val[r].of, text |-> val[r].text, synced |-> TRUE] \in File
  BY <1>1 DEF Bytes, File
<1> QED
  BY <1>1, <1>2, <1>3 DEF Whole

LEMMA DiskNext == StoreInv /\ [Next]_vars => DiskInv'
<1> SUFFICES ASSUME StoreInv, [Next]_vars PROVE DiskInv'
  OBVIOUS
<1>0. /\ disk \in [Id -> File \cup {NoFile}]
      /\ stable \in [Id -> File \cup {NoFile}]
      /\ \A u \in Id : Whole(disk[u], u) /\ Whole(stable[u], u)
      /\ stable[Anon] = disk[Anon]
  BY DEF StoreInv, DiskInv
<1>1. CASE UNCHANGED << disk, stable >>
  BY <1>0, <1>1 DEF DiskInv
<1>2. ASSUME NEW r \in Request, Rename(r)
      PROVE  DiskInv'
  <2>1. /\ disk' = [disk EXCEPT ![who[r]] = temps[who[r]][tmp[r]]]
        /\ stable' = stable /\ pc[r] = "rename"
    BY <1>2 DEF Rename
  <2>2. PICK f \in File : /\ f = temps[who[r]][tmp[r]] /\ Whole(f, who[r])
                          /\ who[r] \in User
    BY <2>1, RenamedFile
  <2>3. disk' = [disk EXCEPT ![who[r]] = f]
    BY <2>1, <2>2
  <2>4. /\ disk' \in [Id -> File \cup {NoFile}] /\ disk'[Anon] = disk[Anon]
        /\ \A u \in Id : Whole(disk'[u], u)
    BY <1>0, <2>2, <2>3, AnonIsId, UserStoreAssumption
  <2> QED
    BY <1>0, <2>1, <2>4 DEF DiskInv
<1>3. ASSUME NEW r \in Request, Step(r) \/ CleanupError(r), ~Rename(r)
      PROVE  UNCHANGED << disk, stable >>
  BY <1>3 DEF Step, LoadRead, LoadReadError, LoadFill, Acquire, CreateTemp,
     CreateError, Write, Sync, WriteError, CleanupStat, CleanupRemove,
     CleanupError, AfterWrite, Invalidate, Unlock, Done, files, Cleaning
<1>4. ASSUME NEW r \in Request, NEW u \in Id, Invoke(r, u)
      PROVE  UNCHANGED << disk, stable >>
  BY <1>4 DEF Invoke, LoadLookup, Raw, Replace, Save, files
<1>5. CASE Upload
  <2>1. PICK f \in SharedFile : /\ disk' = [disk EXCEPT ![Anon] = f]
                                /\ stable' = [stable EXCEPT ![Anon] = f]
    BY <1>5 DEF Upload
  <2>2. f \in File \cup {NoFile} /\ Whole(f, Anon)
    BY SharedFileType
  <2> QED
    BY <1>0, <2>1, <2>2, AnonIsId DEF DiskInv
<1>6. ASSUME NEW u \in User, Writeback(u)
      PROVE  DiskInv'
  BY <1>0, <1>6, AnonIsId, UserStoreAssumption DEF Writeback, DiskInv
<1>7. CASE Crash
  BY <1>1, <1>7 DEF Crash, files
<1>8. CASE PowerLoss
  <2>1. disk' = [u \in Id |-> Survivor(stable[u])] /\ stable' = disk'
    BY <1>8 DEF PowerLoss
  <2>2. \A u \in Id : Survivor(stable[u]) = stable[u]
    BY <1>0 DEF Survivor, Whole
  <2>3. \A u \in Id : disk'[u] = stable[u] /\ stable'[u] = stable[u]
    BY <2>1, <2>2
  <2>4. disk' \in [Id -> File \cup {NoFile}] /\ stable' \in [Id -> File \cup {NoFile}]
    BY <1>0, <2>1, <2>2
  <2> QED
    BY <1>0, <2>3, <2>4, AnonIsId DEF DiskInv
<1>9. CASE UNCHANGED vars
  BY <1>1, <1>9 DEF vars
<1> QED
  BY <1>1, <1>2, <1>3, <1>4, <1>5, <1>6, <1>7, <1>8, <1>9 DEF Next, Server, Failure

-----------------------------------------------------------------------------
(* The temp files.                                                         *)

\* Two requests that hold a mutex hold those of different users.
LEMMA HoldersDiffer ==
    ASSUME ControlInv, NEW r \in Request, NEW q \in Request, q # r,
           pc[r] \in Locked, pc[q] \in Locked
    PROVE  who[q] # who[r]
BY DEF ControlInv, OneWriterPerUser

\* A step that leaves the temp files alone, of a request that is not writing
\* afterwards.
LEMMA TempFrame ==
    ASSUME StoreInv, NEW r \in Request, temps' = temps,
           \A q \in Request \ {r} : /\ pc'[q] = pc[q] /\ who'[q] = who[q]
                                    /\ val'[q] = val[q] /\ tmp'[q] = tmp[q],
           pc'[r] \notin Writing
    PROVE  TempInv'
<1>1. \A q \in Request : OwnTemp(q)'
  BY DEF StoreInv, TempInv, OwnTemp, Writing, Cleaning
<1> QED
  BY <1>1 DEF StoreInv, TempInv

\* A step of a writer on a temp file of its own user.
LEMMA TempWrite ==
    ASSUME StoreInv, NEW r \in Request, pc[r] \in Locked,
           NEW n \in TempName, NEW f \in File \cup {NoFile},
           temps' = [temps EXCEPT ![who[r]][n] = f],
           \A q \in Request \ {r} : /\ pc'[q] = pc[q] /\ who'[q] = who[q]
                                    /\ val'[q] = val[q] /\ tmp'[q] = tmp[q],
           OwnTemp(r)'
    PROVE  TempInv'
<1>0. /\ temps \in [User -> [TempName -> File \cup {NoFile}]]
      /\ who[r] \in User /\ ControlInv
      /\ \A q \in Request : OwnTemp(q)
  BY DEF StoreInv, TempInv, ControlInv
<1>1. temps' \in [User -> [TempName -> File \cup {NoFile}]]
  BY <1>0
<1>2. \A u \in User : u # who[r] => temps'[u] = temps[u]
  BY <1>0
<1>3. ASSUME NEW q \in Request, q # r
      PROVE  OwnTemp(q)'
  <2>1. CASE pc[q] \in Writing
    <3>1. who[q] \in User /\ who[q] # who[r]
      BY <1>0, <1>3, <2>1, HoldersDiffer DEF ControlInv, Locked, Cleaning
    <3> QED
      BY <1>0, <1>2, <1>3, <3>1 DEF OwnTemp
  <2>2. CASE pc[q] \notin Writing
    BY <1>3, <2>2 DEF OwnTemp, Writing, Cleaning
  <2> QED
    BY <2>1, <2>2
<1> QED
  BY <1>1, <1>3 DEF TempInv

LEMMA TempStep ==
    ASSUME StoreInv, NEW r \in Request, Step(r) \/ CleanupError(r)
    PROVE  TempInv'
<1>0. /\ pc \in [Request -> Label] /\ who \in [Request -> Id]
      /\ val \in [Request -> Corpus \cup Bytes \cup {NoVal}]
      /\ tmp \in [Request -> TempName \cup {NoTemp}]
      /\ temps \in [User -> [TempName -> File \cup {NoFile}]]
      /\ OwnTemp(r)
  BY DEF StoreInv, ControlInv, ValInv, TempInv
<1>a. ASSUME pc[r] \in Locked
      PROVE  /\ who[r] \in User /\ val[r] \in Bytes
             /\ pc[r] \in Writing \cup Cleaning => tmp[r] \in TempName
  BY <1>a DEF StoreInv, ControlInv, ValInv, Carries
<1>b. ASSUME NEW label \in Label \ Writing, temps' = temps,
             Goto(r, label) \/ Fail(r, label) \/ \E v : Return(r, label, v)
      PROVE  TempInv'
  <2>1. /\ pc' = [pc EXCEPT ![r] = label] /\ who' = who /\ tmp' = tmp
        /\ val' = val \/ \E v : val' = [val EXCEPT ![r] = v]
    BY <1>b DEF Goto, Fail, Return
  <2>2. \A q \in Request \ {r} : /\ pc'[q] = pc[q] /\ who'[q] = who[q]
                                 /\ val'[q] = val[q] /\ tmp'[q] = tmp[q]
    BY <1>0, <2>1
  <2>3. pc'[r] \notin Writing
    BY <1>0, <2>1
  <2> QED
    BY <1>b, <2>2, <2>3, TempFrame
<1> USE DEF Label, Locked, Writing, Cleaning, Returning
<1>1. CASE LoadRead(r) \/ LoadReadError(r) \/ LoadFill(r)
  <2>1. temps' = temps
    BY <1>1 DEF LoadRead, LoadReadError, LoadFill, files
  <2>2. \E label \in {"loaded", "fill"} :
           Goto(r, label) \/ Fail(r, label) \/ \E v : Return(r, label, v)
    BY <1>1 DEF LoadRead, LoadReadError, LoadFill
  <2> QED
    BY <2>1, <2>2, <1>b
<1>2. CASE Acquire(r) \/ Invalidate(r) \/ Unlock(r)
  BY <1>2, <1>b DEF Acquire, Invalidate, Unlock, files
<1>3. CASE CreateError(r) \/ WriteError(r) \/ CleanupError(r) \/ CleanupStat(r)
  <2>1. /\ temps' = temps
        /\ \E label \in {"remove", "invalidate", "unlock", "cleanup"} :
              Goto(r, label) \/ Fail(r, label)
    BY <1>3 DEF CreateError, WriteError, CleanupError, CleanupStat, AfterWrite, files
  <2> QED
    BY <2>1, <1>b
<1>4. CASE CreateTemp(r)
  <2>1. PICK n \in TempName : /\ temps' = [temps EXCEPT ![who[r]][n] = NewFile(who[r])]
                              /\ tmp' = [tmp EXCEPT ![r] = n]
    BY <1>4 DEF CreateTemp, SetTemp
  <2>2. /\ pc[r] = "create" /\ pc' = [pc EXCEPT ![r] = "write"]
        /\ who' = who /\ val' = val
    BY <1>4 DEF CreateTemp
  <2>3. NewFile(who[r]) \in File
    BY <1>a, <2>2, AnonIsId, UserStoreAssumption DEF NewFile, File
  <2>4. temps'[who'[r]][tmp'[r]] = NewFile(who[r])
    BY <1>0, <1>a, <2>1, <2>2
  <2>5. OwnTemp(r)'
    BY <1>0, <2>2, <2>3, <2>4, NotAValue DEF OwnTemp
  <2>6. \A q \in Request \ {r} : /\ pc'[q] = pc[q] /\ who'[q] = who[q]
                                 /\ val'[q] = val[q] /\ tmp'[q] = tmp[q]
    BY <1>0, <2>1, <2>2
  <2> QED
    BY <2>1, <2>2, <2>3, <2>5, <2>6, TempWrite
\* The four steps on the file the writer created.
<1>c. ASSUME NEW label \in Label, NEW f \in File \cup {NoFile},
             pc[r] \in Writing \cup Cleaning,
             temps' = [temps EXCEPT ![who[r]][tmp[r]] = f],
             Goto(r, label),
             label \in Writing => f # NoFile,
             label \in {"sync", "rename"} =>
                f = [of |-> val[r].of, text |-> val[r].text, synced |-> label = "rename"]
      PROVE  TempInv'
  <2>1. /\ pc' = [pc EXCEPT ![r] = label]
        /\ who' = who /\ val' = val /\ tmp' = tmp
    BY <1>c DEF Goto
  <2>2. temps'[who'[r]][tmp'[r]] = f /\ pc'[r] = label
    BY <1>0, <1>a, <1>c, <2>1
  <2>3. OwnTemp(r)'
    BY <1>c, <2>1, <2>2 DEF OwnTemp
  <2>4. \A q \in Request \ {r} : /\ pc'[q] = pc[q] /\ who'[q] = who[q]
                                 /\ val'[q] = val[q] /\ tmp'[q] = tmp[q]
    BY <1>0, <2>1
  <2>5. tmp[r] \in TempName
    BY <1>a, <1>c
  <2> QED
    BY <1>c, <2>3, <2>4, <2>5, TempWrite
<1>d. ASSUME NEW b \in BOOLEAN, pc[r] \in Locked
      PROVE  /\ [of |-> val[r].of, text |-> val[r].text, synced |-> b] \in File
             /\ [of |-> val[r].of, text |-> val[r].text, synced |-> b] # NoFile
  BY <1>a, <1>d, NotAValue DEF Bytes, File
<1>5. CASE Write(r)
  BY <1>5, <1>c, <1>d DEF Write, SetTemp
<1>6. CASE Sync(r)
  <2>1. /\ pc[r] = "sync" /\ Goto(r, "rename")
        /\ temps' = [temps EXCEPT ![who[r]][tmp[r]] =
                       Synced(temps[who[r]][tmp[r]])]
    BY <1>6 DEF Sync, SetTemp
  <2>2. temps[who[r]][tmp[r]] =
           [of |-> val[r].of, text |-> val[r].text, synced |-> FALSE]
    BY <1>0, <2>1 DEF OwnTemp
  <2>3. temps' = [temps EXCEPT ![who[r]][tmp[r]] =
           [of |-> val[r].of, text |-> val[r].text, synced |-> TRUE]]
    BY <2>1, <2>2 DEF Synced
  <2> QED
    BY <2>1, <2>3, <1>c, <1>d
<1>7. CASE Rename(r)
  BY <1>7, <1>c DEF Rename, SetTemp
<1>8. CASE CleanupRemove(r)
  BY <1>8, <1>c DEF CleanupRemove, AfterWrite, SetTemp
<1>9. CASE Done(r)
  <2>1. /\ pc' = [pc EXCEPT ![r] = "idle"] /\ temps' = temps
        /\ \A q \in Request \ {r} : /\ pc'[q] = pc[q] /\ who'[q] = who[q]
                                    /\ val'[q] = val[q] /\ tmp'[q] = tmp[q]
    BY <1>0, <1>9 DEF Done, files
  <2> QED
    BY <1>0, <2>1, TempFrame
<1> QED
  BY <1>1, <1>2, <1>3, <1>4, <1>5, <1>6, <1>7, <1>8, <1>9 DEF Step

LEMMA TempNext == StoreInv /\ [Next]_vars => TempInv'
<1> SUFFICES ASSUME StoreInv, [Next]_vars PROVE TempInv'
  OBVIOUS
<1>1. CASE UNCHANGED << temps, frame >>
  BY <1>1 DEF frame, StoreInv, TempInv, OwnTemp
<1>2. ASSUME NEW r \in Request, NEW u \in Id, Invoke(r, u)
      PROVE  TempInv'
  <2>1. /\ temps' = temps /\ tmp' = tmp
        /\ who' = [who EXCEPT ![r] = u]
        /\ \E label \in {"loaded", "read", "raw", "written", "lock"} :
              pc' = [pc EXCEPT ![r] = label]
        /\ val' = val \/ \E v : val' = [val EXCEPT ![r] = v]
    BY <1>2 DEF Invoke, LoadLookup, Raw, Replace, Save, Call, Refuse, files
  <2>2. /\ pc \in [Request -> Label] /\ who \in [Request -> Id]
        /\ val \in [Request -> Corpus \cup Bytes \cup {NoVal}]
    BY DEF StoreInv, ControlInv, ValInv
  <2>3. \A q \in Request \ {r} : /\ pc'[q] = pc[q] /\ who'[q] = who[q]
                                 /\ val'[q] = val[q] /\ tmp'[q] = tmp[q]
    BY <2>1, <2>2
  <2>4. pc'[r] \notin Writing
    BY <2>1, <2>2 DEF Writing, Cleaning
  <2> QED
    BY <2>1, <2>3, <2>4, TempFrame
<1>3. CASE Upload \/ (\E u \in User : Writeback(u)) \/ UNCHANGED vars
  BY <1>1, <1>3 DEF Upload, Writeback, vars, frame
<1>4. CASE Crash
  BY <1>4 DEF Crash, Restart, files, StoreInv, TempInv, OwnTemp, Writing, Cleaning
<1>5. CASE PowerLoss
  <2>1. PICK gone \in SUBSET (User \X TempName) :
           temps' = [u \in User |-> [n \in TempName |->
                       IF << u, n >> \in gone THEN NoFile ELSE Survivor(temps[u][n])]]
    BY <1>5 DEF PowerLoss
  <2>2. \A u \in User, n \in TempName : temps[u][n] \in File \cup {NoFile}
    BY DEF StoreInv, TempInv
  <2>3. \A f \in File \cup {NoFile} : Survivor(f) \in File \cup {NoFile}
    BY UserStoreAssumption DEF Survivor, File
  <2>4. temps' \in [User -> [TempName -> File \cup {NoFile}]]
    BY <2>1, <2>2, <2>3
  <2>5. \A r \in Request : OwnTemp(r)'
    BY <1>5 DEF PowerLoss, Restart, OwnTemp, Writing, Cleaning
  <2> QED
    BY <2>4, <2>5 DEF TempInv
<1> QED
  BY <1>2, <1>3, <1>4, <1>5, TempStep DEF Next, Server, Failure

-----------------------------------------------------------------------------
(* The cache, and what a writer may report.                                *)

LEMMA CacheNext == StoreInv /\ [Next]_vars => CacheInv'
<1> SUFFICES ASSUME StoreInv, [Next]_vars PROVE CacheInv'
  OBVIOUS
<1>0. /\ cache \in Caches(Id, Corpus, CacheCap)
      /\ \A u \in DOMAIN cache.items : cache.items[u].of = u
      /\ who \in [Request -> Id]
  BY DEF StoreInv, CacheInv, ControlInv
<1>1. CASE UNCHANGED cache
  BY <1>1 DEF StoreInv, CacheInv
<1>2. ASSUME NEW r \in Request, NEW u \in Id, LoadLookup(r, u)
      PROVE  CacheInv'
  <2>1. CASE cache' = LruGet(cache, u)
    <3>1. cache' \in Caches(Id, Corpus, CacheCap) /\ cache'.items = cache.items
      BY <1>0, <2>1, Capacity, LruGetPreserves
    <3> QED
      BY <1>0, <3>1 DEF CacheInv
  <2> QED
    BY <1>1, <1>2, <2>1 DEF LoadLookup
<1>3. ASSUME NEW r \in Request, LoadFill(r)
      PROVE  CacheInv'
  <2>1. pc[r] = "fill" /\ cache' = LruPut(cache, who[r], val[r])
    BY <1>3 DEF LoadFill
  <2>2. val[r] \in Corpus /\ val[r].of = who[r]
    BY <2>1, NotAValue DEF StoreInv, ValInv, Carries
  <2>3. /\ cache' \in Caches(Id, Corpus, CacheCap)
        /\ \A x \in DOMAIN cache'.items :
              \/ x = who[r] /\ cache'.items[x] = val[r]
              \/ x # who[r] /\ x \in DOMAIN cache.items
                            /\ cache'.items[x] = cache.items[x]
    BY <1>0, <2>1, <2>2, Capacity, LruPutPreserves
  <2> QED
    BY <1>0, <2>2, <2>3 DEF CacheInv
<1>4. ASSUME NEW r \in Request, Invalidate(r)
      PROVE  CacheInv'
  <2>1. cache' = LruRemove(cache, who[r])
    BY <1>4 DEF Invalidate
  <2>2. /\ cache' \in Caches(Id, Corpus, CacheCap)
        /\ DOMAIN cache'.items = DOMAIN cache.items \ {who[r]}
        /\ \A x \in DOMAIN cache.items \ {who[r]} : cache'.items[x] = cache.items[x]
    BY <1>0, <2>1, Capacity, LruRemovePreserves
  <2> QED
    BY <1>0, <2>2 DEF CacheInv
<1>5. ASSUME NEW r \in Request, Step(r) \/ CleanupError(r), ~LoadFill(r), ~Invalidate(r)
      PROVE  UNCHANGED cache
  BY <1>5 DEF Step, LoadRead, LoadReadError, Acquire, CreateTemp, CreateError,
     Write, Sync, Rename, WriteError, CleanupStat, CleanupRemove, CleanupError,
     AfterWrite, Unlock, Done, Cleaning
<1>6. ASSUME NEW r \in Request, NEW u \in Id, Invoke(r, u), ~LoadLookup(r, u)
      PROVE  UNCHANGED cache
  BY <1>6 DEF Invoke, Raw, Replace, Save
<1>7. CASE Upload \/ (\E u \in User : Writeback(u)) \/ UNCHANGED vars
  BY <1>1, <1>7 DEF Upload, Writeback, vars
<1>8. CASE Crash \/ PowerLoss
  BY <1>8, RestartStore DEF Crash, PowerLoss
<1> QED
  BY <1>1, <1>2, <1>3, <1>4, <1>5, <1>6, <1>7, <1>8 DEF Next, Server, Failure

\* A writer that succeeded, and what it wrote.
Acked(r) ==
    pc[r] \in Cleaning \cup {"invalidate", "unlock"} /\ ok[r] =>
        /\ disk[who[r]] # NoFile
        /\ disk[who[r]].of = val[r].of
        /\ disk[who[r]].text = val[r].text

LEMMA AckedFrame ==
    ASSUME StoreInv, NEW r \in Request,
           \A q \in Request \ {r} : /\ pc'[q] = pc[q] /\ who'[q] = who[q]
                                    /\ val'[q] = val[q] /\ ok'[q] = ok[q],
           \A q \in Request \ {r} :
              pc[q] \in Locked => disk'[who[q]] = disk[who[q]],
           Acked(r)'
    PROVE  AckedWriteVisible'
<1>1. \A q \in Request : Acked(q)
  BY DEF StoreInv, AckedWriteVisible, Acked
<1>2. ASSUME NEW q \in Request, q # r
      PROVE  Acked(q)'
  BY <1>1, <1>2 DEF Acked, Locked, Cleaning
<1> QED
  BY <1>2 DEF AckedWriteVisible, Acked

LEMMA AckedStep ==
    ASSUME StoreInv, NEW r \in Request, Step(r) \/ CleanupError(r)
    PROVE  AckedWriteVisible'
<1>0. /\ pc \in [Request -> Label] /\ who \in [Request -> Id]
      /\ val \in [Request -> Corpus \cup Bytes \cup {NoVal}]
      /\ ok \in [Request -> BOOLEAN]
      /\ disk \in [Id -> File \cup {NoFile}]
      /\ Acked(r) /\ ControlInv
  BY DEF StoreInv, ControlInv, ValInv, DiskInv, AckedWriteVisible, Acked
<1> USE DEF Label, Locked, Writing, Cleaning, Returning
<1>1. CASE Rename(r)
  <2>1. PICK f \in File :
           /\ disk' = [disk EXCEPT ![who[r]] = f]
           /\ f.of = val[r].of /\ f.text = val[r].text
    BY <1>1, RenamedFile DEF Rename
  <2>2. /\ pc[r] = "rename" /\ pc' = [pc EXCEPT ![r] = "cleanup"]
        /\ who' = who /\ val' = val /\ ok' = ok
    BY <1>1 DEF Rename, Goto
  <2>3. disk'[who[r]] = f /\ \A u \in Id : u # who[r] => disk'[u] = disk[u]
    BY <1>0, <2>1
  <2>4. \A q \in Request \ {r} : pc[q] \in Locked => who[q] # who[r]
    BY <1>0, <2>2, HoldersDiffer
  <2>5. \A q \in Request \ {r} : pc[q] \in Locked => disk'[who[q]] = disk[who[q]]
    BY <1>0, <2>3, <2>4
  <2>6. Acked(r)'
    BY <2>1, <2>2, <2>3, NotAValue DEF Acked
  <2>7. \A q \in Request \ {r} : /\ pc'[q] = pc[q] /\ who'[q] = who[q]
                                 /\ val'[q] = val[q] /\ ok'[q] = ok[q]
    BY <1>0, <2>2
  <2> QED
    BY <2>5, <2>6, <2>7, AckedFrame
<1>2. CASE ~Rename(r)
  <2>1. /\ disk' = disk
        /\ \A q \in Request \ {r} : /\ pc'[q] = pc[q] /\ who'[q] = who[q]
                                    /\ val'[q] = val[q] /\ ok'[q] = ok[q]
    BY <1>0, <1>2 DEF Step, LoadRead, LoadReadError, LoadFill, Acquire,
       CreateTemp, CreateError, Write, Sync, WriteError, CleanupStat,
       CleanupRemove, CleanupError, AfterWrite, Invalidate, Unlock, Done, Goto,
       Fail, Return, files, Cleaning
  <2>2. CASE pc'[r] \notin Cleaning \cup {"invalidate", "unlock"} \/ ~ok'[r]
    BY <2>1, <2>2, AckedFrame DEF Acked
  <2>3. CASE pc'[r] \in Cleaning \cup {"invalidate", "unlock"} /\ ok'[r]
    <3>1. /\ pc[r] \in Cleaning \cup {"invalidate"} /\ ok[r]
          /\ who' = who /\ val' = val
      BY <1>0, <1>2, <2>3 DEF Step, LoadRead, LoadReadError, LoadFill, Acquire,
         CreateTemp, CreateError, Write, Sync, WriteError, CleanupStat,
         CleanupRemove, CleanupError, AfterWrite, Invalidate, Unlock, Done, Goto,
         Fail, Return, Cleaning
    <3>2. Acked(r)'
      BY <1>0, <2>1, <3>1 DEF Acked
    <3> QED
      BY <2>1, <3>2, AckedFrame
  <2> QED
    BY <2>2, <2>3
<1> QED
  BY <1>1, <1>2

LEMMA AckedNext == StoreInv /\ [Next]_vars => AckedWriteVisible'
<1> SUFFICES ASSUME StoreInv, [Next]_vars PROVE AckedWriteVisible'
  OBVIOUS
<1>0. /\ pc \in [Request -> Label] /\ who \in [Request -> Id]
      /\ val \in [Request -> Corpus \cup Bytes \cup {NoVal}]
      /\ ok \in [Request -> BOOLEAN]
      /\ disk \in [Id -> File \cup {NoFile}]
      /\ ControlInv /\ \A q \in Request : Acked(q)
  BY DEF StoreInv, ControlInv, ValInv, DiskInv, AckedWriteVisible, Acked
<1>1. CASE UNCHANGED << disk, frame >>
  BY <1>0, <1>1 DEF frame, AckedWriteVisible, Acked
<1>2. ASSUME NEW r \in Request, NEW u \in Id, Invoke(r, u)
      PROVE  AckedWriteVisible'
  <2>1. /\ disk' = disk
        /\ who' = [who EXCEPT ![r] = u]
        /\ \E label \in {"loaded", "read", "raw", "written", "lock"} :
              pc' = [pc EXCEPT ![r] = label]
        /\ val' = val \/ \E v : val' = [val EXCEPT ![r] = v]
        /\ ok' = ok \/ ok' = [ok EXCEPT ![r] = FALSE]
    BY <1>2 DEF Invoke, LoadLookup, Raw, Replace, Save, Call, Refuse, files
  <2>2. \A q \in Request \ {r} : /\ pc'[q] = pc[q] /\ who'[q] = who[q]
                                 /\ val'[q] = val[q] /\ ok'[q] = ok[q]
    BY <1>0, <2>1
  <2>3. Acked(r)'
    BY <1>0, <2>1 DEF Acked, Cleaning
  <2> QED
    BY <2>1, <2>2, <2>3, AckedFrame
<1>3. CASE Upload
  <2>1. /\ \A u \in User : disk'[u] = disk[u]
        /\ UNCHANGED frame
    BY <1>0, <1>3, UserStoreAssumption, AnonIsId DEF Upload
  <2>2. \A q \in Request : pc[q] \in Locked => who[q] \in User
    BY <1>0 DEF ControlInv
  <2> QED
    BY <1>0, <2>1, <2>2 DEF AckedWriteVisible, Acked, frame, Locked, Cleaning
<1>4. CASE (\E u \in User : Writeback(u)) \/ UNCHANGED vars
  BY <1>1, <1>4 DEF Writeback, vars, frame
<1>5. CASE Crash \/ PowerLoss
  BY <1>5, RestartStore DEF Crash, PowerLoss
<1> QED
  BY <1>2, <1>3, <1>4, <1>5, AckedStep DEF Next, Server, Failure

-----------------------------------------------------------------------------
(* The theorems.                                                           *)

LEMMA StoreNext == StoreInv /\ [Next]_vars => StoreInv'
<1> SUFFICES ASSUME StoreInv, [Next]_vars PROVE StoreInv'
  OBVIOUS
<1>1. ControlInv'
  BY ControlNext DEF StoreInv
<1> QED
  BY <1>1, DiskNext, ValNext, TempNext, CacheNext, AckedNext DEF StoreInv

LEMMA StoreInvariant == Spec => []StoreInv
BY StoreInit, StoreNext, PTL DEF Spec

\* The variables keep their types.
THEOREM StoreTypeOK == Spec => []TypeOK
<1>1. StoreInv => TypeOK
  <2> SUFFICES ASSUME StoreInv PROVE TypeOK
    OBVIOUS
  <2>1. /\ DOMAIN cache.items \subseteq Id
        /\ \A u \in DOMAIN cache.items : cache.items[u] \in Corpus
    BY PartialMapElim DEF StoreInv, CacheInv, Caches
  <2> QED
    BY <2>1 DEF StoreInv, ControlInv, DiskInv, ValInv, TempInv, TypeOK
<1> QED
  BY <1>1, StoreInvariant, PTL

\* From CreateTemp to Rename nobody else touches a writer's temp file
\* (writer.go, WriteAtomic and its deferred Remove).
THEOREM TempFilesAreOwn == Spec => []TempFileIsOwn
<1>1. StoreInv => TempFileIsOwn
  BY DEF StoreInv, TempInv, OwnTemp, TempFileIsOwn
<1> QED
  BY <1>1, StoreInvariant, PTL

\* A user's file is absent or complete and parseable, before and after any
\* number of crashes and power losses (writer.go, Sync before Rename).
THEOREM FilesAreWhole == Spec => []FilesWhole
<1>1. StoreInv => FilesWhole
  BY AnonIsId DEF StoreInv, DiskInv, Whole, FilesWhole
<1> QED
  BY <1>1, StoreInvariant, PTL

\* Files, cache entries and results belong to the user they are for
\* (store.go, pathFor and the cache's keys).
THEOREM TenantsAreIsolated == Spec => []TenantIsolation
<1>1. StoreInv => TenantIsolation
  BY DEF StoreInv, DiskInv, Whole, CacheInv, ValInv, Carries, TenantIsolation
<1> QED
  BY <1>1, StoreInvariant, PTL

\* A write that succeeded is in the file until its mutex is released
\* (store.go, Save and Replace).
THEOREM AckedWritesAreVisible == Spec => []AckedWriteVisible
<1>1. StoreInv => AckedWriteVisible
  BY DEF StoreInv
<1> QED
  BY <1>1, StoreInvariant, PTL

\* No call and no failure changes the shared corpus, only its operator does
\* (store.go, ErrSharedReadOnly).
THEOREM SharedCorpusIsReadOnly == Spec => SharedIsReadOnly
<1>1. ASSUME StoreInv, [Next]_vars
      PROVE  [disk[Anon]' # disk[Anon] => Upload]_vars
  <2>0. /\ disk \in [Id -> File \cup {NoFile}]
        /\ Whole(stable[Anon], Anon) /\ stable[Anon] = disk[Anon]
    BY <1>1, AnonIsId DEF StoreInv, DiskInv
  <2>1. ASSUME NEW r \in Request, Step(r) \/ CleanupError(r)
        PROVE  disk'[Anon] = disk[Anon]
    <3>1. CASE Rename(r)
      <4>1. who[r] \in User /\ disk' = [disk EXCEPT ![who[r]] = temps[who[r]][tmp[r]]]
        BY <1>1, <3>1, RenamedFile DEF Rename
      <4> QED
        BY <2>0, <4>1, UserStoreAssumption, AnonIsId
    <3>2. CASE ~Rename(r)
      BY <2>1, <3>2 DEF Step, LoadRead, LoadReadError, LoadFill, Acquire,
         CreateTemp, CreateError, Write, Sync, WriteError, CleanupStat,
         CleanupRemove, CleanupError, AfterWrite, Invalidate, Unlock, Done, files,
         Cleaning
    <3> QED
      BY <3>1, <3>2
  <2>2. ASSUME NEW r \in Request, NEW u \in Id, Invoke(r, u)
        PROVE  disk'[Anon] = disk[Anon]
    BY <2>2 DEF Invoke, LoadLookup, Raw, Replace, Save, files
  <2>3. CASE PowerLoss
    <3>1. disk'[Anon] = Survivor(stable[Anon])
      BY <2>3, AnonIsId DEF PowerLoss
    <3> QED
      BY <2>0, <3>1 DEF Survivor, Whole
  <2>4. CASE Crash \/ (\E u \in User : Writeback(u)) \/ UNCHANGED vars
    BY <2>4 DEF Crash, Writeback, files, vars
  <2> QED
    BY <1>1, <2>1, <2>2, <2>3, <2>4 DEF Next, Server, Failure
<1> QED
  BY <1>1, StoreInvariant, PTL DEF Spec, SharedIsReadOnly

-----------------------------------------------------------------------------
(* Without crashes every temp file has its writer.                         *)

\* A request whose step it is not owns what it owned.
LEMMA OwnersStay ==
    ASSUME NoTempLeft, NEW r \in Request,
           \A q \in Request \ {r} : pc'[q] = pc[q] /\ who'[q] = who[q] /\ tmp'[q] = tmp[q],
           NEW u \in User, NEW n \in TempName, temps[u][n] # NoFile,
           ~(pc[r] \in Writing \cup Cleaning /\ who[r] = u /\ tmp[r] = n)
    PROVE  \E q \in Request : /\ pc'[q] \in Writing \cup Cleaning
                              /\ who'[q] = u
                              /\ tmp'[q] = n
BY DEF NoTempLeft

LEMMA OwnersStep ==
    ASSUME StoreInv, NoTempLeft, NEW r \in Request, Step(r)
    PROVE  NoTempLeft'
<1> DEFINE Owns(q, u, n) == /\ pc[q] \in Writing \cup Cleaning
                            /\ who[q] = u /\ tmp[q] = n
<1>0. /\ pc \in [Request -> Label] /\ who \in [Request -> Id]
      /\ val \in [Request -> Corpus \cup Bytes \cup {NoVal}]
      /\ tmp \in [Request -> TempName \cup {NoTemp}]
      /\ ok \in [Request -> BOOLEAN]
      /\ temps \in [User -> [TempName -> File \cup {NoFile}]]
  BY DEF StoreInv, ControlInv, ValInv, TempInv
<1>1. CASE /\ temps' = temps /\ pc[r] \notin Writing \cup Cleaning
           /\ \A q \in Request \ {r} : pc'[q] = pc[q] /\ who'[q] = who[q] /\ tmp'[q] = tmp[q]
  <2>1. ASSUME NEW u \in User, NEW n \in TempName, temps'[u][n] # NoFile
        PROVE  \E q \in Request : Owns(q, u, n)'
    BY <1>1, <2>1, OwnersStay
  <2> QED
    BY <2>1 DEF NoTempLeft
<1>2. CASE LoadRead(r) \/ LoadReadError(r) \/ LoadFill(r)
             \/ Acquire(r) \/ CreateError(r) \/ Invalidate(r) \/ Unlock(r)
  <2>1. /\ temps' = temps /\ pc[r] \notin Writing \cup Cleaning
        /\ who' = who /\ tmp' = tmp /\ \E label : pc' = [pc EXCEPT ![r] = label]
    BY <1>2 DEF LoadRead, LoadReadError, LoadFill, Acquire, CreateError,
       Invalidate, Unlock, Goto, Fail, Return, files, Writing, Cleaning
  <2> QED
    BY <1>0, <1>1, <2>1
<1>3. CASE Done(r)
  BY <1>0, <1>1, <1>3 DEF Done, Returning, Writing, Cleaning, files
<1>4. CASE CreateTemp(r)
  <2>1. PICK new \in TempName :
           /\ temps' = [temps EXCEPT ![who[r]][new] = NewFile(who[r])]
           /\ tmp' = [tmp EXCEPT ![r] = new]
    BY <1>4 DEF CreateTemp, SetTemp
  <2>2. pc[r] = "create" /\ pc' = [pc EXCEPT ![r] = "write"] /\ who' = who
    BY <1>4 DEF CreateTemp
  <2>3. ASSUME NEW u \in User, NEW n \in TempName, temps'[u][n] # NoFile
        PROVE  \E q \in Request : Owns(q, u, n)'
    <3>1. CASE u = who[r] /\ n = new
      <4>1. Owns(r, u, n)'
        BY <1>0, <2>1, <2>2, <3>1 DEF Writing, Cleaning
      <4> QED
        BY <4>1
    <3>2. CASE ~(u = who[r] /\ n = new)
      <4>1. temps[u][n] # NoFile
        BY <1>0, <2>1, <2>3, <3>2
      <4>2. pc[r] \notin Writing \cup Cleaning
        BY <2>2 DEF Writing, Cleaning
      <4>3. \A q \in Request \ {r} : pc'[q] = pc[q] /\ who'[q] = who[q] /\ tmp'[q] = tmp[q]
        BY <1>0, <2>1, <2>2
      <4> QED
        BY <4>1, <4>2, <4>3, OwnersStay
    <3> QED
      BY <3>1, <3>2
  <2> QED
    BY <2>3 DEF NoTempLeft
\* The steps of a writer on its file: it goes on owning it, or it is gone.
<1>5. ASSUME pc[r] \in Writing \cup Cleaning, NEW f, NEW label \in Label,
             \/ temps' = temps
             \/ temps' = [temps EXCEPT ![who[r]][tmp[r]] = f],
             pc' = [pc EXCEPT ![r] = label], who' = who, tmp' = tmp,
             \/ label \in Writing \cup Cleaning
             \/ temps' = temps /\ temps[who[r]][tmp[r]] = NoFile
             \/ f = NoFile /\ temps' = [temps EXCEPT ![who[r]][tmp[r]] = f]
      PROVE  NoTempLeft'
  <2>1. ASSUME NEW u \in User, NEW n \in TempName, temps'[u][n] # NoFile
        PROVE  \E q \in Request : Owns(q, u, n)'
    <3>1. CASE u = who[r] /\ n = tmp[r]
      <4>1. label \in Writing \cup Cleaning
        BY <1>0, <1>5, <2>1, <3>1
      <4>2. Owns(r, u, n)'
        BY <1>0, <1>5, <3>1, <4>1
      <4> QED
        BY <4>2
    <3>2. CASE ~(u = who[r] /\ n = tmp[r])
      <4>1. temps[u][n] # NoFile
        BY <1>0, <1>5, <2>1, <3>2
      <4>2. \A q \in Request \ {r} : pc'[q] = pc[q] /\ who'[q] = who[q] /\ tmp'[q] = tmp[q]
        BY <1>0, <1>5
      <4> QED
        BY <3>2, <4>1, <4>2, OwnersStay
    <3> QED
      BY <3>1, <3>2
  <2> QED
    BY <2>1 DEF NoTempLeft
<1>6. CASE Write(r) \/ Sync(r) \/ WriteError(r)
  <2>1. /\ pc[r] \in Writing \cup Cleaning /\ who' = who /\ tmp' = tmp
        /\ \E f : temps' = temps \/ temps' = [temps EXCEPT ![who[r]][tmp[r]] = f]
        /\ \E label \in {"sync", "rename", "cleanup"} : pc' = [pc EXCEPT ![r] = label]
    BY <1>6 DEF Write, Sync, WriteError, SetTemp, Goto, Fail, files, Writing, Cleaning
  <2> QED
    BY <1>5, <2>1 DEF Writing, Cleaning, Label, Locked
<1>7. CASE Rename(r) \/ CleanupRemove(r)
  <2>1. /\ pc[r] \in Writing \cup Cleaning /\ who' = who /\ tmp' = tmp
        /\ temps' = [temps EXCEPT ![who[r]][tmp[r]] = NoFile]
        /\ \E label \in Cleaning \cup {"invalidate", "unlock"} : pc' = [pc EXCEPT ![r] = label]
    BY <1>7 DEF Rename, CleanupRemove, AfterWrite, SetTemp, Goto, Writing, Cleaning
  <2> QED
    BY <1>5, <2>1 DEF Label, Locked, Cleaning
<1>8. CASE CleanupStat(r)
  <2>1. /\ pc[r] \in Cleaning /\ temps' = temps /\ who' = who /\ tmp' = tmp
        /\ \E label \in {"remove", "invalidate", "unlock"} :
              /\ pc' = [pc EXCEPT ![r] = label]
              /\ label = "remove" \/ temps[who[r]][tmp[r]] = NoFile
    BY <1>8 DEF CleanupStat, AfterWrite, Goto, files, Cleaning
  <2> QED
    BY <1>5, <2>1 DEF Label, Locked, Cleaning
<1> QED
  BY <1>2, <1>3, <1>4, <1>6, <1>7, <1>8 DEF Step

\* Without crashes every temp file has a writer that will still remove or
\* rename it: no return of WriteAtomic, and no failed call, leaves one behind
\* (writer.go, the deferred Remove).
THEOREM NoTempFileIsLeft == CrashFree => []NoTempLeft
<1>1. Init => StoreInv /\ NoTempLeft
  BY StoreInit DEF Init, NoTempLeft
<1>2. StoreInv /\ [Server \/ Upload]_vars => StoreInv'
  <2>1. [Server \/ Upload]_vars => [Next]_vars
    BY DEF Next
  <2> QED
    BY <2>1, StoreNext
<1>3. StoreInv /\ NoTempLeft /\ [Server \/ Upload]_vars => NoTempLeft'
  <2> SUFFICES ASSUME StoreInv, NoTempLeft, [Server \/ Upload]_vars PROVE NoTempLeft'
    OBVIOUS
  <2>1. ASSUME NEW r \in Request, NEW u \in Id, Invoke(r, u) PROVE NoTempLeft'
    <3>1. /\ temps' = temps /\ tmp' = tmp /\ pc[r] = "idle"
          /\ who' = [who EXCEPT ![r] = u]
          /\ \E label : pc' = [pc EXCEPT ![r] = label]
      BY <2>1 DEF Invoke, LoadLookup, Raw, Replace, Save, Call, Refuse, files
    <3>2. pc \in [Request -> Label] /\ who \in [Request -> Id]
      BY DEF StoreInv, ControlInv
    <3>3. \A q \in Request \ {r} : pc'[q] = pc[q] /\ who'[q] = who[q] /\ tmp'[q] = tmp[q]
      BY <3>1, <3>2
    <3>4. pc[r] \notin Writing \cup Cleaning
      BY <3>1 DEF Writing, Cleaning
    <3>5. ASSUME NEW v \in User, NEW n \in TempName, temps'[v][n] # NoFile
          PROVE  \E q \in Request : /\ pc'[q] \in Writing \cup Cleaning
                                    /\ who'[q] = v /\ tmp'[q] = n
      BY <3>1, <3>3, <3>4, <3>5, OwnersStay
    <3> QED
      BY <3>5 DEF NoTempLeft
  <2>2. CASE Upload \/ UNCHANGED vars
    BY <2>2 DEF Upload, vars, frame, NoTempLeft
  <2> QED
    BY <2>1, <2>2, OwnersStep DEF Server
<1> QED
  BY <1>1, <1>2, <1>3, PTL DEF CrashFree

-----------------------------------------------------------------------------
(* The store with its history.                                             *)

\* No error has been met before a step that an error would have skipped.
OkInv ==
    \A r \in Request :
        pc[r] \in Writing \cup {"idle", "lock", "create", "invalidate"} => ok[r]

\* What StoreInv says of the variables of one request.
LEMMA RequestTypes ==
    ASSUME StoreInv
    PROVE  /\ pc \in [Request -> Label] /\ who \in [Request -> Id]
           /\ val \in [Request -> Corpus \cup Bytes \cup {NoVal}]
           /\ tmp \in [Request -> TempName \cup {NoTemp}]
           /\ ok \in [Request -> BOOLEAN]
           /\ disk \in [Id -> File \cup {NoFile}]
           /\ stable \in [Id -> File \cup {NoFile}]
           /\ cache \in Caches(Id, Corpus, CacheCap)
BY DEF StoreInv, ControlInv, ValInv, DiskInv, CacheInv

\* The step of a request leaves the other requests where they are.
LEMMA OthersStay ==
    ASSUME StoreInv, NEW r \in Request,
           Step(r) \/ CleanupError(r) \/ \E u \in Id : Invoke(r, u)
    PROVE  \A q \in Request \ {r} : /\ pc'[q] = pc[q] /\ who'[q] = who[q]
                                    /\ val'[q] = val[q] /\ ok'[q] = ok[q]
<1>1. CASE Step(r) \/ CleanupError(r)
  <2>1. /\ \E l : pc' = [pc EXCEPT ![r] = l]
        /\ who' = who \/ \E u : who' = [who EXCEPT ![r] = u]
        /\ val' = val \/ \E v : val' = [val EXCEPT ![r] = v]
        /\ ok' = ok \/ \E b : ok' = [ok EXCEPT ![r] = b]
    BY <1>1 DEF Step, LoadRead, LoadReadError, LoadFill, Acquire, CreateTemp,
       CreateError, Write, Sync, Rename, WriteError, CleanupStat, CleanupRemove,
       CleanupError, AfterWrite, Invalidate, Unlock, Done, Goto, Fail, Return,
       Cleaning
  <2> QED
    BY <2>1, RequestTypes
<1>2. ASSUME NEW u \in Id, Invoke(r, u)
      PROVE  \A q \in Request \ {r} : /\ pc'[q] = pc[q] /\ who'[q] = who[q]
                                      /\ val'[q] = val[q] /\ ok'[q] = ok[q]
  <2>1. /\ \E l : pc' = [pc EXCEPT ![r] = l]
        /\ who' = [who EXCEPT ![r] = u]
        /\ val' = val \/ \E v : val' = [val EXCEPT ![r] = v]
        /\ ok' = ok \/ \E b : ok' = [ok EXCEPT ![r] = b]
    BY <1>2 DEF Invoke, LoadLookup, Raw, Replace, Save, Call, Refuse
  <2> QED
    BY <2>1, RequestTypes
<1> QED
  BY <1>1, <1>2

LEMMA OkInit == Init => OkInv
BY DEF Init, Idle, OkInv

LEMMA OkNext == StoreInv /\ OkInv /\ [Next]_vars => OkInv'
<1> SUFFICES ASSUME StoreInv, OkInv, [Next]_vars PROVE OkInv'
  OBVIOUS
<1> DEFINE Fine(r) == pc[r] \in Writing \cup {"idle", "lock", "create", "invalidate"} => ok[r]
<1>0. /\ pc \in [Request -> Label] /\ ok \in [Request -> BOOLEAN]
      /\ \A r \in Request : Fine(r)
  BY RequestTypes DEF OkInv
<1> USE DEF Writing, Cleaning
<1>1. ASSUME NEW r \in Request, Step(r) \/ CleanupError(r)
      PROVE  OkInv'
  <2>1. Fine(r)'
    BY <1>0, <1>1 DEF Step, LoadRead, LoadReadError, LoadFill, Acquire,
       CreateTemp, CreateError, Write, Sync, Rename, WriteError, CleanupStat,
       CleanupRemove, CleanupError, AfterWrite, Invalidate, Unlock, Done, Goto,
       Fail, Return, Cleaning
  <2> QED
    BY <1>0, <1>1, <2>1, OthersStay DEF OkInv
<1>2. ASSUME NEW r \in Request, NEW u \in Id, Invoke(r, u)
      PROVE  OkInv'
  <2>1. Fine(r)'
    BY <1>0, <1>2 DEF Invoke, LoadLookup, Raw, Replace, Save, Call, Refuse
  <2> QED
    BY <1>0, <1>2, <2>1, OthersStay DEF OkInv
<1>3. CASE Upload \/ (\E u \in User : Writeback(u)) \/ UNCHANGED vars
  BY <1>0, <1>3 DEF Upload, Writeback, vars, frame, OkInv
<1>4. CASE Crash \/ PowerLoss
  BY <1>4 DEF Crash, PowerLoss, Restart, OkInv
<1> QED
  BY <1>1, <1>2, <1>3, <1>4 DEF Next, Server, Failure

LEMMA StoreOkInvariant == Spec => [](StoreInv /\ OkInv)
<1>1. Init => StoreInv /\ OkInv
  BY StoreInit, OkInit
<1>2. StoreInv /\ OkInv /\ [Next]_vars => OkInv'
  BY OkNext
<1> QED
  BY <1>1, <1>2, StoreInvariant, PTL DEF Spec

-----------------------------------------------------------------------------
(* The cache.                                                              *)

\* A Load about to fill the cache holds the file's corpus unless the history
\* says that it was overtaken.
FreshFill ==
    \A r \in Request :
        pc[r] = "fill" /\ r \notin superseded => val[r] = Current(who[r])

HistInv == FreshFill /\ StaleOnlyByRace

\* A request is about to fill the cache because it was, or because it read the
\* file in this step.
LEMMA FillStep ==
    ASSUME StoreInv, [Next]_vars, NEW r \in Request, pc'[r] = "fill"
    PROVE  /\ who'[r] = who[r]
           /\ \/ pc[r] = "fill" /\ val'[r] = val[r]
              \/ pc[r] = "read" /\ val'[r] = Current(who[r])
<1> USE RequestTypes
<1>1. ASSUME NEW q \in Request, Step(q) \/ CleanupError(q), q # r
      PROVE  pc[r] = "fill" /\ who'[r] = who[r] /\ val'[r] = val[r]
  BY <1>1, OthersStay
<1>2. CASE Step(r) \/ CleanupError(r)
  <2>1. LoadRead(r)
    BY <1>2 DEF Step, LoadReadError, LoadFill, Acquire, CreateTemp, CreateError,
       Write, Sync, Rename, WriteError, CleanupStat, CleanupRemove, CleanupError,
       AfterWrite, Invalidate, Unlock, Done, Goto, Fail, Return, Label, Cleaning
  <2>2. /\ pc[r] = "read" /\ who' = who
        /\ val' = [val EXCEPT ![r] = Current(who[r])]
    BY <2>1 DEF LoadRead, Fail, Return, Current
  <2> QED
    BY <2>2
<1>3. ASSUME NEW q \in Request, NEW u \in Id, Invoke(q, u)
      PROVE  pc[r] = "fill" /\ who'[r] = who[r] /\ val'[r] = val[r]
  <2>1. pc'[q] # "fill"
    BY <1>3 DEF Invoke, LoadLookup, Raw, Replace, Save, Call, Refuse
  <2> QED
    BY <1>3, <2>1, OthersStay
<1>4. CASE Upload \/ (\E u \in User : Writeback(u)) \/ UNCHANGED vars
  BY <1>4 DEF Upload, Writeback, vars, frame
<1>5. CASE Crash \/ PowerLoss
  BY <1>5 DEF Crash, PowerLoss, Restart
<1> QED
  BY <1>1, <1>2, <1>3, <1>4, <1>5 DEF Next, Server, Failure

LEMMA FreshFillNext == StoreInv /\ FreshFill /\ [HNext]_hvars => FreshFill'
<1> SUFFICES ASSUME StoreInv, FreshFill, [HNext]_hvars PROVE FreshFill'
  OBVIOUS
<1>1. CASE UNCHANGED hvars
  BY <1>1 DEF hvars, vars, FreshFill, Current, Found
<1>2. CASE Next /\ History
  <2> SUFFICES ASSUME NEW r \in Request, pc'[r] = "fill", r \notin superseded'
               PROVE  val'[r] = Current(who[r])'
    BY DEF FreshFill
  <2>1. r \notin superseded /\ disk'[who'[r]] = disk[who'[r]]
    BY <1>2 DEF History
  <2>2. who'[r] = who[r] /\ val'[r] = Current(who[r])
    BY <1>2, <2>1, FillStep DEF FreshFill
  <2> QED
    BY <2>1, <2>2 DEF Current, Found
<1> QED
  BY <1>1, <1>2 DEF HNext

\* An entry that a step leaves as it is, with its file.
LEMMA EntryStays ==
    ASSUME StaleOnlyByRace, History, NEW u \in User,
           u \in DOMAIN cache'.items, u \notin stale',
           u \in DOMAIN cache.items, cache'.items[u] = cache.items[u],
           disk'[u] = disk[u],
           \A q \in Request : ~Fills(q, u),
           ~Publishing(u)
    PROVE  cache'.items[u] = Current(u)'
<1>1. u \notin stale
  BY DEF History
<1>2. cache.items[u] = Current(u)
  BY <1>1 DEF StaleOnlyByRace
<1> QED
  BY <1>2 DEF Current, Found

LEMMA StaleNext ==
    StoreInv /\ OkInv /\ HistInv /\ HNext => StaleOnlyByRace'
<1> SUFFICES ASSUME StoreInv, OkInv, HistInv, HNext,
                    NEW u \in User, u \in DOMAIN cache'.items,
                    u \notin stale', ~Publishing(u)'
             PROVE  cache'.items[u] = Current(u)'
  BY DEF StaleOnlyByRace
<1>0. /\ History /\ Next /\ FreshFill /\ StaleOnlyByRace
      /\ u \in Id /\ NoRequest \notin Request
  BY AnonIsId, UserStoreAssumption DEF HNext, HistInv
<1> USE RequestTypes
<1>1. ASSUME NEW r \in Request, LoadFill(r)
      PROVE  cache'.items[u] = Current(u)'
  <2>1. /\ pc[r] = "fill" /\ pc' = [pc EXCEPT ![r] = "loaded"]
        /\ who' = who /\ ok' = ok /\ disk' = disk
        /\ cache' = LruPut(cache, who[r], val[r])
    BY <1>1 DEF LoadFill, Goto, files
  <2>2. val[r] \in Corpus
    BY <2>1, NotAValue DEF StoreInv, ValInv, Carries
  <2>3. \A x \in DOMAIN cache'.items :
           \/ x = who[r] /\ cache'.items[x] = val[r]
           \/ x # who[r] /\ x \in DOMAIN cache.items
                         /\ cache'.items[x] = cache.items[x]
    BY <2>1, <2>2, Capacity, LruPutPreserves
  <2>4. CASE who[r] = u
    <3>1. Fills(r, u)
      BY <2>1, <2>4 DEF Fills
    <3>2. r \notin superseded
      BY <1>0, <3>1 DEF History
    <3>3. val[r] = Current(u)
      BY <1>0, <2>1, <2>4, <3>2 DEF FreshFill
    <3> QED
      BY <2>1, <2>3, <2>4, <3>3 DEF Current, Found
  <2>5. CASE who[r] # u
    <3>1. \A q \in Request : ~Fills(q, u)
      BY <2>1, <2>5 DEF Fills
    <3>2. ~Publishing(u)
      BY <2>1 DEF Publishing, Cleaning
    <3> QED
      BY <1>0, <2>1, <2>3, <2>5, <3>1, <3>2, EntryStays
  <2> QED
    BY <2>4, <2>5
<1>2. ASSUME NEW r \in Request, Step(r) \/ CleanupError(r), ~LoadFill(r)
      PROVE  cache'.items[u] = Current(u)'
  <2>1. \A q \in Request : ~Fills(q, u)
    <3>1. pc[r] # "fill"
      BY <1>2 DEF Step, LoadRead, LoadReadError, Acquire, CreateTemp, CreateError,
         Write, Sync, Rename, WriteError, CleanupStat, CleanupRemove,
         CleanupError, AfterWrite, Invalidate, Unlock, Done, Locked, Writing,
         Cleaning, Returning
    <3> QED
      BY <1>2, <3>1, OthersStay DEF Fills
  <2>2. CASE Rename(r)
    <3>1. /\ pc[r] = "rename" /\ pc' = [pc EXCEPT ![r] = "cleanup"]
          /\ who' = who /\ ok' = ok /\ cache' = cache
          /\ \E f : disk' = [disk EXCEPT ![who[r]] = f]
      BY <2>2 DEF Rename, Goto
    <3>2. ok[r]
      BY <3>1 DEF OkInv, Writing, Cleaning
    <3>3. who[r] # u
      BY <3>1, <3>2 DEF Publishing, Cleaning
    <3>4. ~Publishing(u)
      BY <3>1 DEF Publishing, Cleaning
    <3> QED
      BY <1>0, <2>1, <3>1, <3>3, <3>4, EntryStays
  <2>3. CASE Invalidate(r)
    <3>1. /\ pc[r] = "invalidate" /\ pc' = [pc EXCEPT ![r] = "unlock"]
          /\ who' = who /\ ok' = ok /\ disk' = disk
          /\ cache' = LruRemove(cache, who[r])
      BY <2>3 DEF Invalidate, Goto, files
    <3>2. /\ DOMAIN cache'.items = DOMAIN cache.items \ {who[r]}
          /\ \A x \in DOMAIN cache.items \ {who[r]} : cache'.items[x] = cache.items[x]
      BY <3>1, Capacity, LruRemovePreserves
    <3>3. ~Publishing(u)
      BY <3>1, <3>2 DEF Publishing, Cleaning
    <3> QED
      BY <1>0, <2>1, <3>1, <3>2, <3>3, EntryStays
  <2>4. CASE ~Rename(r) /\ ~Invalidate(r)
    <3>1. disk' = disk /\ cache' = cache
      BY <1>2, <2>4 DEF Step, LoadRead, LoadReadError, Acquire, CreateTemp,
         CreateError, Write, Sync, WriteError, CleanupStat, CleanupRemove,
         CleanupError, AfterWrite, Unlock, Done, files, Cleaning
    <3>2. pc[r] \in Cleaning \cup {"invalidate"} /\ ok[r] =>
             pc'[r] \in Cleaning \cup {"invalidate"} /\ ok'[r] /\ who'[r] = who[r]
      BY <1>2, <2>4 DEF Step, LoadRead, LoadReadError, Acquire, CreateTemp,
         CreateError, Write, Sync, WriteError, CleanupStat, CleanupRemove,
         CleanupError, AfterWrite, Unlock, Done, Goto, Fail, Return, Writing,
         Cleaning, Returning
    <3>3. ~Publishing(u)
      BY <1>2, <3>2, OthersStay DEF Publishing, Cleaning
    <3> QED
      BY <1>0, <2>1, <3>1, <3>3, EntryStays
  <2> QED
    BY <2>2, <2>3, <2>4
<1>3. ASSUME NEW r \in Request, NEW v \in Id, Invoke(r, v)
      PROVE  cache'.items[u] = Current(u)'
  <2>1. pc[r] = "idle" /\ disk' = disk
    BY <1>3 DEF Invoke, LoadLookup, Raw, Replace, Save, Call, Refuse, files
  <2>2. \A q \in Request : ~Fills(q, u)
    BY <1>3, <2>1, OthersStay DEF Fills
  <2>3. ~Publishing(u)
    BY <1>3, <2>1, OthersStay DEF Publishing, Cleaning
  <2>4. cache' = cache \/ cache' = LruGet(cache, v)
    BY <1>3 DEF Invoke, LoadLookup, Raw, Replace, Save
  <2>5. LruGet(cache, v).items = cache.items
    BY Capacity, LruGetPreserves
  <2> QED
    BY <1>0, <2>1, <2>2, <2>3, <2>4, <2>5, EntryStays
<1>4. CASE Upload \/ \E v \in User : Writeback(v)
  <2>1. disk'[u] = disk[u] /\ cache' = cache /\ UNCHANGED frame
    BY <1>0, <1>4, UserStoreAssumption DEF Upload, Writeback
  <2>2. \A q \in Request : ~Fills(q, u)
    BY <2>1 DEF Fills, frame
  <2>3. ~Publishing(u)
    BY <2>1 DEF Publishing, frame
  <2> QED
    BY <1>0, <2>1, <2>2, <2>3, EntryStays
<1>5. CASE Crash \/ PowerLoss
  BY <1>5 DEF Crash, PowerLoss, Restart, NewLRU
<1> QED
  BY <1>0, <1>1, <1>2, <1>3, <1>4, <1>5 DEF Next, Server, Failure

\* No error, crash, power loss or eviction leaves a superseded corpus in the
\* cache: only a Load overtaken by a rename does (store.go, Load's second
\* critical section against the cache.remove of Save and Replace).
THEOREM StalenessOnlyByRace == HSpec => []StaleOnlyByRace
<1>1. HInit => Init /\ HistInv
  BY DEF HInit, Init, Idle, HistInv, FreshFill, StaleOnlyByRace, NewLRU
<1>2. [HNext]_hvars => [Next]_vars
  BY DEF HNext, hvars
<1>3. StoreInv /\ OkInv /\ HistInv /\ [HNext]_hvars => HistInv'
  <2> SUFFICES ASSUME StoreInv, OkInv, HistInv, [HNext]_hvars PROVE HistInv'
    OBVIOUS
  <2>1. FreshFill'
    BY FreshFillNext DEF HistInv
  <2>2. CASE HNext
    BY <2>1, <2>2, StaleNext DEF HistInv
  <2>3. CASE UNCHANGED hvars
    BY <2>1, <2>3 DEF HistInv, StaleOnlyByRace, hvars, vars, Publishing, Current, Found
  <2> QED
    BY <2>2, <2>3
<1>4. HSpec => Spec
  BY <1>1, <1>2, PTL DEF HSpec, Spec
<1>5. HistInv => StaleOnlyByRace
  BY DEF HistInv
<1> QED
  BY <1>1, <1>3, <1>4, <1>5, StoreOkInvariant, PTL DEF HSpec

-----------------------------------------------------------------------------
(* The files as registers.                                                 *)

LEMMA RegisterInit == Init => Register!Init
<1> SUFFICES ASSUME Init PROVE Register!Init
  OBVIOUS
<1>1. PICK f \in SharedFile : disk = [u \in Id |-> IF u = Anon THEN f ELSE NoFile]
  BY DEF Init
<1>2. Content(f) \in Text \cup {NoFile}
  BY DEF SharedFile, Content
<1>3. Contents = [u \in User \cup {Anon} |-> IF u = Anon THEN Content(f) ELSE NoFile]
  BY <1>1 DEF Contents, Content, Id
<1>4. Durables = Contents
  BY DEF Init, Durables, Contents
<1>5. Ops = [r \in Request |-> Register!None]
  BY DEF Init, Idle, Ops, Op, OpState, Writing, Cleaning, Register!None
<1> QED
  BY <1>2, <1>3, <1>4, <1>5 DEF Register!Init

\* A step of one request, seen through Ops.
LEMMA OpsFrame ==
    ASSUME StoreInv, NEW r \in Request,
           Step(r) \/ CleanupError(r) \/ \E u \in Id : Invoke(r, u)
    PROVE  /\ Ops' = [Ops EXCEPT ![r] = Op(r)']
           /\ Ops[r] = Op(r)
           /\ Op(r)' = Op(r) => Ops' = Ops
<1>1. \A q \in Request \ {r} : Op(q)' = Op(q)
  BY OthersStay DEF Op, OpState
<1> QED
  BY <1>1 DEF Ops

\* A step that leaves the files alone, seen through Contents and Durables.
LEMMA FilesStay ==
    ASSUME UNCHANGED << disk, stable >>
    PROVE  Contents' = Contents /\ Durables' = Durables
BY DEF Contents, Durables

LEMMA RegisterInvoke ==
    ASSUME StoreInv, OkInv, NEW r \in Request, NEW u \in Id, Invoke(r, u)
    PROVE  [Register!Next]_(Register!vars)
<1>0. /\ pc[r] = "idle" /\ UNCHANGED << disk, stable >>
      /\ Op(r) = Register!None
  BY DEF Invoke, LoadLookup, Raw, Replace, Save, Call, Refuse, files, Op, OpState,
     Writing, Cleaning, Register!None
<1>1. /\ Contents' = Contents /\ Durables' = Durables
      /\ Ops' = [Ops EXCEPT ![r] = Op(r)'] /\ Ops[r] = Register!None
      /\ Op(r)' = Op(r) => Ops' = Ops
  BY <1>0, OpsFrame, FilesStay
<1>2. ok[r]
  BY <1>0 DEF OkInv
<1> USE RequestTypes
<1>3. ASSUME NEW label \in {"raw", "written"}, Refuse(r, u, label)
      PROVE  Register!Next
  <2>1. Op(r)' = Register!Failed
    BY <1>3 DEF Refuse, Op, OpState, Writing, Cleaning, Register!Failed
  <2>2. Register!Fail(r)
    BY <1>1, <2>1 DEF Register!Fail, Register!Become, Register!None
  <2> QED
    BY <2>2 DEF Register!Next
<1>4. ASSUME NEW t \in ValidText, u # Anon, Call(r, u, "lock", [of |-> u, text |-> t])
      PROVE  Register!Next
  <2>1. Op(r)' = [state |-> "pending", of |-> u, text |-> t]
    BY <1>4 DEF Call, Op, OpState, Writing, Cleaning
  <2>2. u \in User
    BY <1>4 DEF Id
  <2>3. Register!Begin(r, u, t)
    BY <1>1, <2>1 DEF Register!Begin, Register!Become
  <2> QED
    BY <2>2, <2>3 DEF Register!Next
<1>5. CASE LoadLookup(r, u)
  <2>1. Op(r)' = Register!None
    BY <1>5 DEF LoadLookup, Call, Op, OpState, Writing, Cleaning, Register!None
  <2> QED
    BY <1>0, <1>1, <2>1 DEF Register!vars
<1>6. CASE Raw(r, u) /\ ~Refuse(r, u, "raw")
  <2>1. /\ disk[u] \in File
        /\ Call(r, u, "raw", [of |-> disk[u].of, text |-> disk[u].text])
    BY <1>6 DEF Raw, Found
  <2>2. disk[u].of = u
    BY <2>1, NotAValue DEF StoreInv, DiskInv, Whole
  <2>3. Contents[u] = disk[u].text /\ Contents[u] # NoFile
    BY <2>1, NotAValue DEF Contents, Content, File
  <2>4. Op(r)' = [state |-> "done", of |-> u, text |-> Contents[u]]
    BY <1>2, <2>1, <2>2, <2>3 DEF Call, Op, OpState, Writing, Cleaning
  <2>5. Register!Read(r, u)
    BY <1>1, <2>3, <2>4 DEF Register!Read, Register!Become
  <2> QED
    BY <2>5 DEF Register!Next, Id
<1>7. ASSUME NEW t \in Text, Replace(r, u, t)
      PROVE  Register!Next
  BY <1>3, <1>4, <1>7 DEF Replace, ValidText
<1>8. ASSUME NEW d \in Doc, Save(r, u, d)
      PROVE  Register!Next
  <2>1. Marshal[d] \in ValidText
    BY UserStoreAssumption DEF ValidText
  <2> QED
    BY <1>3, <1>4, <1>8, <2>1 DEF Save
<1> QED
  BY <1>3, <1>5, <1>6, <1>7, <1>8 DEF Invoke

LEMMA RegisterStep ==
    ASSUME StoreInv, OkInv, NEW r \in Request, Step(r) \/ CleanupError(r)
    PROVE  [Register!Next]_(Register!vars)
<1> USE RequestTypes
<1>1. /\ Ops' = [Ops EXCEPT ![r] = Op(r)'] /\ Ops[r] = Op(r)
      /\ Op(r)' = Op(r) => Ops' = Ops
  BY OpsFrame
<1>2. CASE Rename(r)
  <2>1. PICK f \in File :
           /\ disk' = [disk EXCEPT ![who[r]] = f]
           /\ f.of = val[r].of /\ f.text = val[r].text
    BY <1>2, RenamedFile DEF Rename
  <2>2. /\ pc[r] = "rename" /\ pc' = [pc EXCEPT ![r] = "cleanup"]
        /\ who' = who /\ val' = val /\ ok' = ok /\ stable' = stable
    BY <1>2 DEF Rename, Goto
  <2>3. ok[r]
    BY <2>2 DEF OkInv, Writing, Cleaning
  <2>4. /\ Op(r) = [state |-> "pending", of |-> who[r], text |-> val[r].text]
        /\ Op(r)' = [state |-> "done", of |-> who[r], text |-> val[r].text]
    BY <2>2, <2>3 DEF Op, OpState, Writing, Cleaning
  <2>5. Contents' = [Contents EXCEPT ![who[r]] = val[r].text] /\ Durables' = Durables
    BY <2>1, <2>2, NotAValue DEF Contents, Durables, Content
  <2>6. Register!Install(r)
    BY <1>1, <2>4, <2>5 DEF Register!Install, Register!Become
  <2> QED
    BY <2>6 DEF Register!Next
<1>3. CASE ~Rename(r)
  <2>1. UNCHANGED << disk, stable >>
    BY <1>3 DEF Step, LoadRead, LoadReadError, LoadFill, Acquire, CreateTemp,
       CreateError, Write, Sync, WriteError, CleanupStat, CleanupRemove,
       CleanupError, AfterWrite, Invalidate, Unlock, Done, files, Cleaning
  <2>2. Contents' = Contents /\ Durables' = Durables
    BY <2>1, FilesStay
  <2>3. CASE CreateError(r) \/ WriteError(r)
    <3>1. /\ OpState(r) = "pending" /\ OpState(r)' = "failed"
      BY <2>3 DEF CreateError, WriteError, Fail, OpState, Writing, Cleaning
    <3>2. Op(r).state = "pending" /\ Op(r)' = Register!Failed
      BY <3>1 DEF Op, Register!Failed
    <3>3. Register!Fail(r)
      BY <1>1, <2>2, <3>2 DEF Register!Fail, Register!Become
    <3> QED
      BY <3>3 DEF Register!Next
  <2>4. CASE Done(r)
    <3>1. Op(r)' = Register!None
      BY <2>4 DEF Done, Op, OpState, Writing, Cleaning, Register!None
    <3>2. \/ Op(r).state \in {"done", "failed"}
          \/ Op(r) = Register!None
      BY <2>4 DEF Done, Op, OpState, Writing, Cleaning, Returning, Register!None
    <3>3. CASE Op(r).state \in {"done", "failed"}
      <4>1. Register!Return(r)
        BY <1>1, <2>2, <3>1, <3>3 DEF Register!Return, Register!Become
      <4> QED
        BY <4>1 DEF Register!Next
    <3> QED
      BY <1>1, <2>2, <3>1, <3>2, <3>3 DEF Register!vars
  <2>5. CASE LoadRead(r) \/ LoadReadError(r) \/ LoadFill(r)
    <3>1. OpState(r) = "none" /\ OpState(r)' = "none"
      BY <2>5 DEF LoadRead, LoadReadError, LoadFill, Goto, Fail, Return, OpState,
         Writing, Cleaning
    <3> QED
      BY <1>1, <2>2, <3>1 DEF Op, Register!vars
  <2>6. CASE \/ Acquire(r) \/ CreateTemp(r) \/ Write(r) \/ Sync(r)
             \/ CleanupStat(r) \/ CleanupRemove(r) \/ CleanupError(r) \/ Invalidate(r) \/ Unlock(r)
    <3>1. /\ OpState(r)' = OpState(r)
          /\ who' = who /\ val' = val
      BY <2>6 DEF Acquire, CreateTemp, Write, Sync, CleanupStat, CleanupRemove,
         CleanupError, AfterWrite, Invalidate, Unlock, Goto, OpState, Writing,
         Cleaning
    <3> QED
      BY <1>1, <2>2, <3>1 DEF Op, Register!vars
  <2> QED
    BY <1>3, <2>3, <2>4, <2>5, <2>6 DEF Step
<1> QED
  BY <1>2, <1>3

LEMMA RegisterNext ==
    StoreInv /\ OkInv /\ [Next]_vars => [Register!Next]_(Register!vars)
<1> SUFFICES ASSUME StoreInv, OkInv, [Next]_vars
             PROVE  [Register!Next]_(Register!vars)
  OBVIOUS
<1>0. disk \in [Id -> File \cup {NoFile}] /\ stable \in [Id -> File \cup {NoFile}]
  BY RequestTypes
<1>1. CASE Upload
  <2>1. PICK f \in SharedFile : /\ disk' = [disk EXCEPT ![Anon] = f]
                                /\ stable' = [stable EXCEPT ![Anon] = f]
    BY <1>1 DEF Upload
  <2>2. Content(f) \in Text \cup {NoFile}
    BY DEF SharedFile, Content
  <2>3. /\ Contents' = [Contents EXCEPT ![Anon] = Content(f)]
        /\ Durables' = [Durables EXCEPT ![Anon] = Content(f)]
    BY <1>0, <2>1, AnonIsId DEF Contents, Durables
  <2>4. Ops' = Ops
    BY <1>1 DEF Upload, frame, Ops, Op, OpState
  <2>5. Register!Upload
    BY <2>2, <2>3, <2>4 DEF Register!Upload
  <2> QED
    BY <2>5 DEF Register!Next
<1>2. ASSUME NEW u \in User, Writeback(u)
      PROVE  Register!Next
  <2>1. Ops' = Ops
    BY <1>2 DEF Writeback, frame, Ops, Op, OpState
  <2>2. Contents' = Contents /\ Durables' = [Durables EXCEPT ![u] = Contents[u]]
    BY <1>0, <1>2, AnonIsId DEF Writeback, Contents, Durables
  <2>3. Register!Writeback(u)
    BY <2>1, <2>2 DEF Register!Writeback
  <2> QED
    BY <2>3 DEF Register!Next
<1>3. CASE Crash \/ PowerLoss
  <2>1. Ops' = [r \in Request |-> Register!None]
    BY <1>3 DEF Crash, PowerLoss, Restart, Ops, Op, OpState, Writing, Cleaning,
       Register!None
  <2>2. CASE Crash
    BY <2>1, <2>2, FilesStay DEF Crash, files, Register!Crash, Register!Next
  <2>3. CASE PowerLoss
    <3>1. \A u \in Id : Survivor(stable[u]) = stable[u]
      BY DEF StoreInv, DiskInv, Whole, Survivor
    <3>2. disk' = stable /\ stable' = stable
      BY <1>0, <2>3, <3>1 DEF PowerLoss
    <3>3. Contents' = Durables /\ Durables' = Durables
      BY <3>2 DEF Contents, Durables
    <3> QED
      BY <2>1, <3>3 DEF Register!Crash, Register!Next
  <2> QED
    BY <1>3, <2>2, <2>3
<1>4. CASE UNCHANGED vars
  <2>1. Ops' = Ops
    BY <1>4 DEF vars, Ops, Op, OpState
  <2> QED
    BY <1>4, <2>1, FilesStay DEF vars, Register!vars
<1> QED
  BY <1>1, <1>2, <1>3, <1>4, RegisterInvoke, RegisterStep DEF Next, Server, Failure

\* The store implements CorpusFile, whatever its callers, the disk and the
\* machine do: its files are registers (store.go over writer.go).
THEOREM StoreIsARegister == HSpec => ImplementsCorpusFile
<1>1. HInit => Init
  BY DEF HInit
<1>2. [HNext]_hvars => [Next]_vars
  BY DEF HNext, hvars
<1>3. HSpec => Spec
  BY <1>1, <1>2, PTL DEF HSpec, Spec
<1>4. Spec => Register!Spec
  BY RegisterInit, RegisterNext, StoreOkInvariant, PTL DEF Spec, Register!Spec
<1> QED
  BY <1>3, <1>4 DEF ImplementsCorpusFile
=============================================================================
