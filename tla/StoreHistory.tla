---------------------------- MODULE StoreHistory ----------------------------
(***************************************************************************)
(* UserStore with two history variables that follow the one race of the    *)
(* cache, and the mapping under which the store implements CorpusFile.     *)
(* No step of UserStore reads or is restricted by the history.             *)
(***************************************************************************)
EXTENDS UserStore

VARIABLES
    superseded,     \* requests between LoadRead and LoadFill whose file was
                    \* replaced since they read it
    stale           \* ids whose cache entry such a request has put there

hvars == << vars, superseded, stale >>

HInit == Init /\ superseded = {} /\ stale = {}

Fills(r, u) == pc[r] = "fill" /\ pc'[r] = "loaded" /\ who[r] = u

History ==
    /\ superseded' =
          {r \in Request : /\ pc'[r] = "fill"
                           /\ r \in superseded \/ disk'[who'[r]] # disk[who'[r]]}
    /\ stale' =
          {u \in DOMAIN cache'.items :
              IF \E r \in Request : Fills(r, u)
                THEN \E r \in superseded : Fills(r, u)
                ELSE u \in stale}

HNext == Next /\ History

HSpec == HInit /\ [][HNext]_hvars

-----------------------------------------------------------------------------
(* The register each id's file is.                                         *)

Content(f) == IF f = NoFile THEN NoFile ELSE f.text

\* The call of a request as its caller sees it: Load, which reads through the
\* cache, is no call of the register.
OpState(r) ==
    CASE pc[r] \in Writing \cup {"lock", "create"} -> "pending"
      [] pc[r] \in {"cleanup", "remove", "invalidate", "unlock", "written", "raw"} ->
            IF ok[r] THEN "done" ELSE "failed"
      [] OTHER -> "none"

Op(r) ==
    LET s == OpState(r) IN
    IF s \in {"pending", "done"}
      THEN [state |-> s, of |-> who[r], text |-> val[r].text]
      ELSE [state |-> s, of |-> Anon, text |-> NoFile]

ValidText == {t \in Text : Parse[t] # ParseError}
Contents == [u \in Id |-> Content(disk[u])]
Durables == [u \in Id |-> Content(stable[u])]
Ops == [r \in Request |-> Op(r)]

Register == INSTANCE CorpusFile WITH
    Valid <- ValidText, Absent <- NoFile,
    content <- Contents, durable <- Durables, op <- Ops

-----------------------------------------------------------------------------
(* Properties.                                                             *)

\* The store's files are registers: whatever errors, crashes and power losses
\* it meets, a Save or Replace that returns nil has replaced the file once and
\* whole, one that returns an error has left it as it was, Raw answers with a
\* content the file had during the call, and a power loss brings back a content
\* the file had before (store.go, Save, Replace and Raw over WriteAtomic).
ImplementsCorpusFile == Register!Spec

\* A superseded corpus is cached only by a Load that read the file before a
\* rename and fills the cache after it.  No I/O error, no failed write, no
\* eviction, crash or power loss leaves one there, and clients that do not
\* overlap two calls of one user never meet one (store.go, the cache.remove
\* that ends Save and Replace).
StaleOnlyByRace ==
    \A u \in User \cap DOMAIN cache.items :
        u \notin stale /\ ~Publishing(u) => cache.items[u] = Current(u)
=============================================================================
