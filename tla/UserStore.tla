----------------------------- MODULE UserStore ------------------------------
(***************************************************************************)
(* The per-user corpus store: DiskUserStore (internal/data/store.go) and   *)
(* the atomic file writer under it (internal/data/writer.go).              *)
(*                                                                         *)
(* Every tool call runs in a goroutine of its own, a Request here.  Its    *)
(* steps are the stretches of code between two places where another        *)
(* goroutine, the kernel or a crash can interfere: the critical sections   *)
(* of cacheMu, the per-user mutex, and each system call on the files.      *)
(*                                                                         *)
(* A file remembers which id it was written for ("of"), a history field    *)
(* that no step of the store reads.                                        *)
(***************************************************************************)
EXTENDS LruCache

CONSTANTS
    User,           \* non-empty user ids
    Anon,           \* the empty user id, which names the shared corpus
    NoPath,         \* user ids pathFor refuses (or all, without a baseDir)
    HasShared,      \* whether a shared corpus path is configured
    Request, NoRequest,
    Text,           \* contents of a file
    Torn,           \* the content of a file cut short: empty or partial
    Doc,            \* parsed exports
    EmptyDoc,       \* &Export{}
    ParseError,
    Parse,          \* what Parse makes of each text
    Marshal,        \* the text Marshal makes of each export
    TempName, NoTemp,
    NoFile, NoVal,
    CacheCap        \* newLRU(50)

Id == User \cup {Anon}

ASSUME UserStoreAssumption ==
    /\ Anon \notin User
    /\ NoPath \subseteq User
    /\ HasShared \in BOOLEAN
    /\ CacheCap \in Nat \ {0}
    /\ NoRequest \notin Request
    /\ Torn \in Text
    /\ EmptyDoc \in Doc
    /\ ParseError \notin Doc
    /\ NoTemp \notin TempName
    /\ Parse \in [Text -> Doc \cup {ParseError}]
    /\ Marshal \in [Doc -> Text]
    /\ Parse[Torn] = ParseError
    /\ \A d \in Doc : Parse[Marshal[d]] # ParseError

File == [of : Id, text : Text, synced : BOOLEAN]
Corpus == [of : Id, doc : Doc]
Bytes == [of : Id, text : Text]

ASSUME NotAValue == NoFile \notin File \cup Text /\ NoVal \notin Corpus \cup Bytes

VARIABLES
    disk,           \* the storyplotter.json that open() finds, per id
    stable,         \* the one that a power loss would bring back
    temps,          \* .storyplotter-*.tmp files in each user's directory
    cache,          \* the LRU cache, guarded by cacheMu
    lock,           \* holder of each user's mutex
    pc,             \* where each request is
    who,            \* the user id it was called with
    val,            \* the bytes it writes, or the result it is about to return
    tmp,            \* the temp file it created
    ok              \* err == nil so far

vars == << disk, stable, temps, cache, lock, pc, who, val, tmp, ok >>
files == << disk, stable, temps >>
frame == << pc, who, val, tmp, ok >>

Writing == {"write", "sync", "rename"}
Cleaning == {"cleanup", "remove"}
Locked == Writing \cup Cleaning \cup {"create", "invalidate", "unlock"}
Returning == {"loaded", "raw", "written"}
Label == {"idle", "read", "fill", "lock"} \cup Locked \cup Returning

TypeOK ==
    /\ disk \in [Id -> File \cup {NoFile}]
    /\ stable \in [Id -> File \cup {NoFile}]
    /\ temps \in [User -> [TempName -> File \cup {NoFile}]]
    /\ DOMAIN cache.items \subseteq Id
    /\ \A u \in DOMAIN cache.items : cache.items[u] \in Corpus
    /\ lock \in [User -> Request \cup {NoRequest}]
    /\ pc \in [Request -> Label]
    /\ who \in [Request -> Id]
    /\ val \in [Request -> Corpus \cup Bytes \cup {NoVal}]
    /\ tmp \in [Request -> TempName \cup {NoTemp}]
    /\ ok \in [Request -> BOOLEAN]

SharedFile ==
    {NoFile} \cup {[of |-> Anon, text |-> t, synced |-> TRUE] : t \in IF HasShared THEN Text ELSE {}}

Idle == /\ pc = [r \in Request |-> "idle"]
        /\ who = [r \in Request |-> Anon]
        /\ val = [r \in Request |-> NoVal]
        /\ tmp = [r \in Request |-> NoTemp]
        /\ ok = [r \in Request |-> TRUE]

Init == /\ \E f \in SharedFile :
               disk = [u \in Id |-> IF u = Anon THEN f ELSE NoFile]
        /\ stable = disk
        /\ temps = [u \in User |-> [n \in TempName |-> NoFile]]
        /\ cache = NewLRU(CacheCap)
        /\ lock = [u \in User |-> NoRequest]
        /\ Idle

-----------------------------------------------------------------------------
(* Control of one request.                                                 *)

Call(r, u, label, v) ==
    /\ pc[r] = "idle"
    /\ pc' = [pc EXCEPT ![r] = label]
    /\ who' = [who EXCEPT ![r] = u]
    /\ val' = [val EXCEPT ![r] = v]
    /\ UNCHANGED << tmp, ok >>

Goto(r, label) ==
    /\ pc' = [pc EXCEPT ![r] = label]
    /\ UNCHANGED << who, val, tmp, ok >>

Return(r, label, v) ==
    /\ pc' = [pc EXCEPT ![r] = label]
    /\ val' = [val EXCEPT ![r] = v]
    /\ UNCHANGED << who, tmp, ok >>

Fail(r, label) ==
    /\ pc' = [pc EXCEPT ![r] = label]
    /\ ok' = [ok EXCEPT ![r] = FALSE]
    /\ UNCHANGED << who, val, tmp >>

\* A call refused before it touched anything.
Refuse(r, u, label) ==
    /\ pc[r] = "idle"
    /\ pc' = [pc EXCEPT ![r] = label]
    /\ who' = [who EXCEPT ![r] = u]
    /\ ok' = [ok EXCEPT ![r] = FALSE]
    /\ UNCHANGED << val, tmp >>

\* The caller takes the result; the goroutine is gone.
Done(r) ==
    /\ pc[r] \in Returning
    /\ pc' = [pc EXCEPT ![r] = "idle"]
    /\ who' = [who EXCEPT ![r] = Anon]
    /\ val' = [val EXCEPT ![r] = NoVal]
    /\ tmp' = [tmp EXCEPT ![r] = NoTemp]
    /\ ok' = [ok EXCEPT ![r] = TRUE]
    /\ UNCHANGED << files, cache, lock >>

-----------------------------------------------------------------------------
(* Mutants of definitions below: bugs the properties must notice.          *)

\* Of EmptyCorpus: a missing file loads as nil.
NilCorpus(u) == NoVal

\* Of LoadFill: the corpus is cached under the shared key.
LoadFillShared(r) ==
    /\ pc[r] = "fill"
    /\ cache' = LruPut(cache, Anon, val[r])
    /\ Goto(r, "loaded")
    /\ UNCHANGED << files, lock >>

\* Of Replace: the mutex is not taken.
ReplaceUnlocked(r, u, t) ==
    /\ IF u = Anon \/ Parse[t] = ParseError
         THEN Refuse(r, u, "written")
         ELSE Call(r, u, "create", [of |-> u, text |-> t])
    /\ UNCHANGED << files, cache, lock >>

\* Of Save: the mutex is not taken.
SaveUnlocked(r, u, d) ==
    /\ IF u = Anon
         THEN Refuse(r, u, "written")
         ELSE Call(r, u, "create", [of |-> u, text |-> Marshal[d]])
    /\ UNCHANGED << files, cache, lock >>

\* Of CreateError: an early return without the unlock.
CreateErrorKeepsLock(r) ==
    /\ pc[r] = "create"
    /\ Fail(r, "written")
    /\ UNCHANGED << files, cache, lock >>

\* Of Write: no fsync before the rename.
WriteWithoutSync(r) ==
    /\ pc[r] = "write"
    /\ temps' = [temps EXCEPT ![who[r]][tmp[r]] =
                    [of |-> val[r].of, text |-> val[r].text, synced |-> FALSE]]
    /\ Goto(r, "rename")
    /\ UNCHANGED << disk, stable, cache, lock >>

\* Of Rename: the file of the shared corpus is written.
RenameToShared(r) ==
    /\ pc[r] = "rename"
    /\ disk' = [disk EXCEPT ![Anon] = temps[who[r]][tmp[r]]]
    /\ temps' = [temps EXCEPT ![who[r]][tmp[r]] = NoFile]
    /\ Goto(r, "cleanup")
    /\ UNCHANGED << stable, cache, lock >>

\* Of Rename: Chmod comes after the rename, and its error is returned.
RenameThenChmod(r) ==
    LET u == who[r] IN
    /\ pc[r] = "rename"
    /\ disk' = [disk EXCEPT ![u] = temps[u][tmp[r]]]
    /\ temps' = [temps EXCEPT ![u][tmp[r]] = NoFile]
    /\ Goto(r, "cleanup") \/ Fail(r, "cleanup")
    /\ UNCHANGED << stable, cache, lock >>

\* Of WriteError: the error is not returned.
WriteErrorIgnored(r) ==
    /\ pc[r] \in Writing
    /\ Goto(r, "cleanup")
    /\ UNCHANGED << files, cache, lock >>

\* Of WriteError: the temp file is not removed.
WriteErrorLeavesTemp(r) ==
    /\ pc[r] \in Writing
    /\ Fail(r, "unlock")
    /\ UNCHANGED << files, cache, lock >>

\* Of Invalidate: the key is looked up, not removed.
InvalidateNothing(r) ==
    /\ pc[r] = "invalidate"
    /\ cache' = IF Cached(cache, who[r]) THEN LruGet(cache, who[r]) ELSE cache
    /\ Goto(r, "unlock")
    /\ UNCHANGED << files, lock >>

-----------------------------------------------------------------------------
(* Load: look the user up in the cache, else read, parse and fill.         *)

Parsed(f) == [of |-> f.of, doc |-> Parse[f.text]]
EmptyCorpus(u) == [of |-> u, doc |-> EmptyDoc]

\* pathFor gives a path that can be opened.
Found(u) == /\ u \notin NoPath
            /\ u = Anon => HasShared
            /\ disk[u] # NoFile

LoadLookup(r, u) ==
    /\ IF Cached(cache, u)
         THEN Call(r, u, "loaded", cache.items[u]) /\ cache' = LruGet(cache, u)
         ELSE Call(r, u, "read", NoVal) /\ UNCHANGED cache
    /\ UNCHANGED << files, lock >>

LoadRead(r) ==
    LET u == who[r] IN
    /\ pc[r] = "read"
    /\ \/ u \in NoPath /\ Fail(r, "loaded")
       \/ u \notin NoPath /\ ~Found(u) /\ Return(r, "fill", EmptyCorpus(u))
       \/ Found(u) /\ Parse[disk[u].text] = ParseError /\ Fail(r, "loaded")
       \/ Found(u) /\ Parse[disk[u].text] # ParseError
                   /\ Return(r, "fill", Parsed(disk[u]))
    /\ UNCHANGED << files, cache, lock >>

\* Any error of ReadFile other than ErrNotExist.
LoadReadError(r) ==
    /\ pc[r] = "read"
    /\ who[r] = Anon => HasShared
    /\ Fail(r, "loaded")
    /\ UNCHANGED << files, cache, lock >>

LoadFill(r) ==
    /\ pc[r] = "fill"
    /\ cache' = LruPut(cache, who[r], val[r])
    /\ Goto(r, "loaded")
    /\ UNCHANGED << files, lock >>

-----------------------------------------------------------------------------
(* Raw: the bytes of the file, past the cache and without the lock.        *)

Raw(r, u) ==
    /\ \/ Found(u) /\ Call(r, u, "raw", [of |-> disk[u].of, text |-> disk[u].text])
       \/ Refuse(r, u, "raw")       \* no path, no file or an I/O error
    /\ UNCHANGED << files, cache, lock >>

-----------------------------------------------------------------------------
(* Replace and Save: both write under the user's lock.                     *)

\* Replace parses the caller's bytes before it takes the lock.
Replace(r, u, t) ==
    /\ IF u = Anon \/ Parse[t] = ParseError
         THEN Refuse(r, u, "written")
         ELSE Call(r, u, "lock", [of |-> u, text |-> t])
    /\ UNCHANGED << files, cache, lock >>

Save(r, u, d) ==
    /\ IF u = Anon
         THEN Refuse(r, u, "written")
         ELSE Call(r, u, "lock", [of |-> u, text |-> Marshal[d]])
    /\ UNCHANGED << files, cache, lock >>

Acquire(r) ==
    /\ pc[r] = "lock"
    /\ lock[who[r]] = NoRequest
    /\ lock' = [lock EXCEPT ![who[r]] = r]
    /\ Goto(r, "create")
    /\ UNCHANGED << files, cache >>

NewFile(u) == [of |-> u, text |-> Torn, synced |-> FALSE]

SetTemp(u, n, f) == temps' = [temps EXCEPT ![u][n] = f]

\* os.CreateTemp opens with O_EXCL: it never takes a name that exists.
CreateTemp(r) ==
    LET u == who[r] IN
    /\ pc[r] = "create"
    /\ u \notin NoPath
    /\ \E n \in TempName :
          /\ temps[u][n] = NoFile
          /\ SetTemp(u, n, NewFile(u))
          /\ tmp' = [tmp EXCEPT ![r] = n]
    /\ pc' = [pc EXCEPT ![r] = "write"]
    /\ UNCHANGED << disk, stable, cache, lock, who, val, ok >>

\* pathFor, MkdirAll, Marshal or CreateTemp fails: nothing to clean up yet.
CreateError(r) ==
    /\ pc[r] = "create"
    /\ Fail(r, "unlock")
    /\ UNCHANGED << files, cache, lock >>

Write(r) ==
    /\ pc[r] = "write"
    /\ SetTemp(who[r], tmp[r],
               [of |-> val[r].of, text |-> val[r].text, synced |-> FALSE])
    /\ Goto(r, "sync")
    /\ UNCHANGED << disk, stable, cache, lock >>

Synced(f) == [of |-> f.of, text |-> f.text, synced |-> TRUE]

Sync(r) ==
    /\ pc[r] = "sync"
    /\ SetTemp(who[r], tmp[r], Synced(temps[who[r]][tmp[r]]))
    /\ Goto(r, "rename")
    /\ UNCHANGED << disk, stable, cache, lock >>

\* Close, Chmod and Rename: the temp file becomes the user's file.
Rename(r) ==
    LET u == who[r] IN
    /\ pc[r] = "rename"
    /\ disk' = [disk EXCEPT ![u] = temps[u][tmp[r]]]
    /\ SetTemp(u, tmp[r], NoFile)
    /\ Goto(r, "cleanup")
    /\ UNCHANGED << stable, cache, lock >>

\* Write (after a part of the bytes), Sync, Close, Chmod or Rename fails.
WriteError(r) ==
    /\ pc[r] \in Writing
    /\ Fail(r, "cleanup")
    /\ UNCHANGED << files, cache, lock >>

\* Where WriteAtomic returns to.
AfterWrite(r) == IF ok[r] THEN "invalidate" ELSE "unlock"

\* The deferred Stat, which runs after a success too ...
CleanupStat(r) ==
    /\ pc[r] = "cleanup"
    /\ Goto(r, IF temps[who[r]][tmp[r]] # NoFile THEN "remove" ELSE AfterWrite(r))
    /\ UNCHANGED << files, cache, lock >>

\* ... and the Remove of what it found.
CleanupRemove(r) ==
    /\ pc[r] = "remove"
    /\ SetTemp(who[r], tmp[r], NoFile)
    /\ Goto(r, AfterWrite(r))
    /\ UNCHANGED << disk, stable, cache, lock >>

\* An error of either is ignored: the temp file, if it is still there, stays.
CleanupError(r) ==
    /\ pc[r] \in Cleaning
    /\ Goto(r, AfterWrite(r))
    /\ UNCHANGED << files, cache, lock >>

Invalidate(r) ==
    /\ pc[r] = "invalidate"
    /\ cache' = LruRemove(cache, who[r])
    /\ Goto(r, "unlock")
    /\ UNCHANGED << files, lock >>

Unlock(r) ==
    /\ pc[r] = "unlock"
    /\ lock' = [lock EXCEPT ![who[r]] = NoRequest]
    /\ Goto(r, "written")
    /\ UNCHANGED << files, cache >>

-----------------------------------------------------------------------------
(* The environment.                                                        *)

\* The operator replaces the shared corpus.
Upload ==
    /\ HasShared
    /\ \E f \in SharedFile : /\ disk' = [disk EXCEPT ![Anon] = f]
                             /\ stable' = [stable EXCEPT ![Anon] = f]
    /\ UNCHANGED << temps, cache, lock, frame >>

\* The kernel writes a directory back in its own time.
Writeback(u) ==
    /\ stable' = [stable EXCEPT ![u] = disk[u]]
    /\ UNCHANGED << disk, temps, cache, lock, frame >>

Restart ==
    /\ cache' = NewLRU(CacheCap)
    /\ lock' = [u \in User |-> NoRequest]
    /\ pc' = [r \in Request |-> "idle"]
    /\ who' = [r \in Request |-> Anon]
    /\ val' = [r \in Request |-> NoVal]
    /\ tmp' = [r \in Request |-> NoTemp]
    /\ ok' = [r \in Request |-> TRUE]

\* The process dies and is started again: the files are as they were.
Crash == Restart /\ UNCHANGED files

\* What a power loss leaves of a file whose data was not synced.
Survivor(f) ==
    IF f = NoFile \/ f.synced THEN f ELSE [of |-> f.of, text |-> Torn, synced |-> TRUE]

\* The machine dies: each storyplotter.json goes back to the one written back
\* last, any temp name may be gone, contents that were not synced are torn.
PowerLoss ==
    /\ Restart
    /\ disk' = [u \in Id |-> Survivor(stable[u])]
    /\ stable' = disk'
    /\ \E gone \in SUBSET (User \X TempName) :
          temps' = [u \in User |-> [n \in TempName |->
                      IF << u, n >> \in gone THEN NoFile ELSE Survivor(temps[u][n])]]

-----------------------------------------------------------------------------

Invoke(r, u) ==
    \/ LoadLookup(r, u)
    \/ Raw(r, u)
    \/ \E t \in Text : Replace(r, u, t)
    \/ \E d \in Doc : Save(r, u, d)

Step(r) ==
    \/ LoadRead(r) \/ LoadReadError(r) \/ LoadFill(r)
    \/ Acquire(r)
    \/ CreateTemp(r) \/ CreateError(r)
    \/ Write(r) \/ Sync(r) \/ Rename(r) \/ WriteError(r)
    \/ CleanupStat(r) \/ CleanupRemove(r) \/ Invalidate(r) \/ Unlock(r)
    \/ Done(r)

Server == \E r \in Request : Step(r) \/ \E u \in Id : Invoke(r, u)

Failure ==
    \/ \E r \in Request : CleanupError(r)
    \/ \E u \in User : Writeback(u)
    \/ Crash
    \/ PowerLoss

Next == Server \/ Upload \/ Failure

Spec == Init /\ [][Next]_vars

\* The process without crashes, where every goroutine keeps being scheduled
\* and sync.Mutex, whose starvation mode hands the lock to the longest waiter,
\* lets everybody in.  No call is ever forced to arrive.
CrashFree == Init /\ [][Server \/ Upload]_vars

Fairness ==
    \A r \in Request : /\ WF_vars(Step(r))
                       /\ SF_vars(Acquire(r))

FairSpec == CrashFree /\ Fairness

-----------------------------------------------------------------------------
(* Properties.                                                             *)

\* The per-user mutex admits one writer per user, and a user's mutex is held
\* exactly while a request of that user is between Lock and the deferred
\* Unlock: no early return leaves it locked and no path unlocks it twice.
OneWriterPerUser ==
    \A r \in Request, u \in User :
        lock[u] = r <=> (pc[r] \in Locked /\ who[r] = u)

\* From CreateTemp to Rename a writer's temp file is the one it made: neither
\* another writer's rename nor its deferred Remove of a reused name takes it
\* away, and what is about to be renamed is exactly what the caller sent.
TempFileIsOwn ==
    \A r \in Request :
        /\ pc[r] \in Writing => temps[who[r]][tmp[r]] # NoFile
        /\ pc[r] = "rename" =>
              temps[who[r]][tmp[r]] =
                 [of |-> val[r].of, text |-> val[r].text, synced |-> TRUE]

\* Whatever crash or power loss hits it, each user's storyplotter.json is
\* absent or complete and parseable, now and after the next power loss: the
\* fsync comes before the rename and nothing writes the file in place.
FilesWhole ==
    \A u \in User : \A f \in {disk[u], stable[u]} \ {NoFile} :
        f.synced /\ Parse[f.text] # ParseError

\* No user's data reaches another user: not through the files, not through
\* the cache the users share, and not through the result of a call.
TenantIsolation ==
    /\ \A u \in Id : disk[u] # NoFile => disk[u].of = u
    /\ \A u \in DOMAIN cache.items : cache.items[u].of = u
    /\ \A r \in Request : val[r] # NoVal => val[r].of = who[r]

\* A write that has succeeded is what the file holds until its lock is
\* released: no other writer gets between the rename and the answer.
AckedWriteVisible ==
    \A r \in Request :
        pc[r] \in Cleaning \cup {"invalidate", "unlock"} /\ ok[r] =>
            /\ disk[who[r]] # NoFile
            /\ disk[who[r]].of = val[r].of
            /\ disk[who[r]].text = val[r].text

\* No call of any id changes the shared corpus: only its operator does.
SharedIsReadOnly == [][disk[Anon]' # disk[Anon] => Upload]_vars

\* What Load would make of the user's file now.
Current(u) == IF Found(u) THEN Parsed(disk[u]) ELSE EmptyCorpus(u)

\* A writer is past its rename and has not reached cache.remove.
Publishing(u) ==
    \E r \in Request : who[r] = u /\ ok[r] /\ pc[r] \in Cleaning \cup {"invalidate"}

\* The cache never serves what a completed Save or Replace has superseded
\* (MULTITENANCY.md: "invalidated on every Save/Replace").  It fails when a Load
\* that read the old file fills the cache after the invalidation; StoreHistory
\* shows that it fails in no other way.
CacheInvalidated ==
    \A u \in User \cap DOMAIN cache.items :
        ~Publishing(u) => cache.items[u] = Current(u)

\* Without crashes no temp file outlives its writer: every return of
\* WriteAtomic after CreateTemp runs the deferred Remove.
NoTempLeft ==
    \A u \in User, n \in TempName :
        temps[u][n] # NoFile =>
            \E r \in Request : /\ pc[r] \in Writing \cup Cleaning
                               /\ who[r] = u
                               /\ tmp[r] = n

\* Every call returns: no error path keeps a user's mutex.
CallsReturn == \A r \in Request : pc[r] # "idle" ~> pc[r] = "idle"
=============================================================================
