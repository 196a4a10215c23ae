# storyplotter-mcp: TLA+ models and proofs

`storyplotter-mcp` is a Go server that gives language-model clients access to
Story Plotter exports over the Model Context Protocol. In stdio mode it serves
one client and one shared corpus; in http mode it serves many users, each with a
corpus file of its own, takes imports, and hands out one-shot download links.

This directory holds TLA+ models of its stateful parts, TLC configurations that
check them on small instances, and TLAPS proofs of the properties that matter
most for every size of instance. `PROJECT.json` maps every definition to the
lines it models, lists the hazards, and names a mutation of the model that breaks
each property.

    tlc -workers 2 -config MCStore.cfg MCStoreHistory  # model-check
    tlapm UserStoreProofs.tla                          # check the proofs

## 1. The system

    stdin/stdout -> ServeStdio ----\
                                    > Dispatch -> tool handlers -> DiskUserStore -> LRU cache
    POST /mcp -> body cap ->       /                  |                |-> WriteAtomic -> files
      rate limit -> bearer ->  ---/                   |-> TokenSigner.Sign
      user identity -> serveMCP
    GET /download -> rate limit -> TokenSigner.Verify -> DiskUserStore.Raw

| Component | State | Operations | Hard behaviour | What makes it correct |
|---|---|---|---|---|
| `DiskUserStore` (`internal/data/store.go`) | cache under `cacheMu`, a mutex per user, files | `Load`, `Raw`, `Save`, `Replace` | concurrent calls of one user, I/O errors on every path, crash between two steps | one writer per user, whole files, no user's data under another id, cache follows the file |
| `WriteAtomic` (`internal/data/writer.go`) | temp files, the user's file | create, write, fsync, close, chmod, rename, deferred remove | power loss, a temp name reused by another writer | the file is absent or complete; no temp file is left |
| `lruCache` (`internal/data/store.go`) | list of entries, map to list elements | `get`, `put`, `remove` | list and map drift apart | they agree; a hit is the latest put; eviction takes the least recently used |
| `TokenSigner` (`internal/mcp/tokens.go`) | map of consumed nonces | `Sign`, `Verify`, sweep | verify against sweep at the expiry second, restart | a token is redeemed once, a good one is never refused |
| `Limiter` (`internal/mcp/ratelimit.go`) | a ring of timestamps per key | `Allow`, garbage collection | wrap-around, routes with different limits on one key | a sliding window |
| import, link, download (`internal/tools/import_data.go`, `request_export_link.go`, `internal/mcp/download.go`) | none of their own | the three handlers | check-then-act over the store, failures between two calls | no data replaced unasked, a link serves its owner once |
| JSON-RPC and stdio (`internal/mcp/server.go`) | two pipes, registered tools | `Dispatch`, `tools/call`, `ServeStdio` | malformed input, closed pipes, a handler's panic | every request answered once, in order; the loop ends |
| HTTP server (`internal/mcp/http.go`, `middleware.go`) | a request's context | the middlewares of three routes, `serveMCP` | order of the checks, two readings of the user header, limits switched off | who pays is who runs |
| parser and lookups (`internal/data/loader.go`, `types.go`, `Marshal` of `writer.go`) | none | `Parse`, `Marshal`, `FindPlot`, `FindPlotsByFolder` | fields absent, null or malformed; names inside names; several case foldings | what was read can be written back; a thing is found by its name |
| read-only tools (`internal/tools/`) | none | nine tools: one `Load`, lookups, filters | positions against names, map order, overflow | the tools' answers agree with each other and with the corpus |
| start-up (`cmd/storyplotter-mcp/main.go`) | the process | reads flags and environment, wires the parts, exits | missing, malformed and zero values | the right server or none, the right exit |
| deployment (`Dockerfile`, `scripts/`) | none | build, container, smoke test | - | no program logic |

The parts interact through calls. Tool calls over HTTP run in goroutines of their
own and share the store, the signer and the limiter; the sweeper and the
limiter's collector are goroutines that never end; stdio is sequential.

## 2. The modules

| Module | What it is |
|---|---|
| `Selection` | a loop that appends what passes a test, as a recursive function; used wherever the code has such a loop |
| `LruCache` | the cache as a record of list, map and capacity, with `LruGet`, `LruPut`, `LruRemove` as operators |
| `LruCacheSpec` | a system that uses one cache, with a history of the puts |
| `UserStore` | `DiskUserStore`, `WriteAtomic`, the file system, crashes and power loss; extends `LruCache` |
| `CorpusFile` | abstract: one register per user |
| `StoreHistory` | `UserStore` with a history of the cache's one race; implements `CorpusFile` |
| `TokenSigner` | `Sign`, `Verify`, the sweep loop, restarts |
| `SlidingLog` | abstract: what a rate limiter promises |
| `RateLimiter` | rings, rebuilds and the collector; implements `SlidingLog` |
| `Transfer` | `import_data`, `request_export_link` and `/download` over an abstract store and signer |
| `Dispatch` | the responses to one JSON-RPC request, shared by the two transports |
| `StdioServer` | the stdio loop and its client; extends `Dispatch` |
| `HttpServer` | the routes with their middlewares and `serveMCP`; extends `Dispatch` |
| `Main` | the process, from its environment to its exit; composes `StdioServer` and `HttpServer` |
| `Corpus` | an export: types, `Parse` and `Marshal`, lookups |
| `ReadTools` | the nine reading tools; extends `Corpus` |
| `CollectionLemmas` | lemmas about `Kept`, `FlattenSeq`, ranges and sequences, and about the operations of the cache |
| `LruCacheProofs`, `UserStoreProofs` (with `StoreHistory`), `TokenSignerProofs`, `RateLimiterProofs`, `TransferProofs`, `MainProofs` (with both transports), `ReadToolsProofs` | theorems and proofs |
| `MC*` | instances for TLC |

Each operation keeps the name it has in the code. Where an operation takes
several steps (`Load`: lookup, read, fill), its actions carry its name as a
prefix. Definitions introduced as "Mutant of X" are bugs one could plausibly
write; no specification uses them.

### UserStore

A `Request` is a goroutine inside one call; `pc` says where it is. A step is the
code between two points where somebody else can act: a critical section of
`cacheMu`, acquiring the user's mutex, one system call. So `Load` is `LoadLookup`
(first critical section), `LoadRead` (open, read, parse; no lock), `LoadFill`
(second critical section). `Replace` and `Save` are the argument check, `Acquire`,
`CreateTemp`, `Write`, `Sync`, `Rename` (close, chmod and rename), `CleanupStat` and
`CleanupRemove` (deferred, so they run after a success too), `Invalidate`, `Unlock`.
Every step that can fail has a failing counterpart with the early return and the
deferred calls it runs.

`disk` is what `open` finds, `stable` what a power loss brings back: `Rename`
changes the first, `Writeback` copies it to the second at any time, and a file
whose data was not synced survives as `Torn`. `Crash` loses memory only.
`Parse` and `Marshal` are constant functions, of which only two things are
assumed: torn text does not parse, marshalled text does. Corpora carry the id
they were written for, so that a mix-up of tenants shows in the data.

Abstracted: `MkdirAll`, `Marshal` and `CreateTemp` errors are one failure;
`CleanupError` stands for a failing `Stat` or `Remove` and counts as a failure of the
environment, next to crashes; a power loss does not resurrect the temp name of a
file already published, which no step would read.

### CorpusFile, StoreHistory

`CorpusFile` is what a caller may rely on: a register per user; a `Save` or
`Replace` that succeeds replaces its content at one instant during the call, one
that fails leaves it alone; `Raw` answers with the content of one instant; a crash
loses the calls in flight and a power loss may take every register back to a
content it had. `StoreHistory` maps the store to it: a call is pending until
`Rename` and done from then on, everything else, temp files, locks, `fsync`, clean-up
and invalidation, is a stutter. `Load` is left out of the mapping because it may
answer from a superseded cache entry. What it may answer is said by two history
variables: `superseded`, the Loads that were overtaken by a rename, and `stale`,
the entries such a Load has cached. `StaleOnlyByRace` says that there is no other
source of stale entries.

### TokenSigner

A claim is a user, an expiry second and a nonce; a MAC is good exactly when the
claim was signed. `Verify` is two steps, because it reads the clock before
`LoadOrStore`; what does not decode is refused in one (`VerifyMalformed`). The sweep
reads the clock once and deletes entry by entry.
`MaxStall` bounds how many seconds a goroutine may be stopped between the two
steps of `Verify`. `Restart` keeps the key, which comes from the environment, and
empties the map. The clock does not go back.

### RateLimiter

Rings are the code's records, with head, filled and capacity. `Allow` and a
collector pass hold `mu` throughout and are one step each. `Allow` reads the clock
twice when it rebuilds; here both reads agree. A collector that computes its cutoff
before it gets `mu` compares with an older cutoff and drops less, which is
`GC` taken earlier.

### Transfer

The store is one corpus per user with atomic `Raw` and `Replace`, which is what
`UserStore` shows; its one departure from that, the stale cache of section 5,
appears as `ImportRereadSuperseded`. Tokens are unsigned, live, spent or
expired; a request may also come without one, and "unsigned" stands for every token
the signer did not make, forged or malformed, which the handler answers alike. A
handler's steps are its calls of store and signer. The history `lost` holds the
links whose one download met an error of the store.

### Dispatch, StdioServer, HttpServer, Main

`Responses(m)` is the set of answers a message may get: a tool answers, reports an
error or panics, and the rest is determined. `StdioServer` adds the loop, with a
client that sends anything and closes at any time; a line that does not decode ends
it, whether the parse error could be written or not. `AnsweredInOrder` is about all
that is written: `Owed` says which messages the code answers, with an id or without. `HttpServer` runs each
connection from the mux through the handlers in the order `Handler` composes them,
which depends on the configuration: a limit of 0 leaves its middleware out.
`/mcp` and `/download` count on the same limiter with limits of their own. The
limiter is a count per key that goes down at any time. Nobody recovers from a
panic: `net/http` closes the connection, `ServeStdio` ends the process.

`Main` starts from an environment (mode, signing key, bearer, three numbers that may
be unset, malformed, negative or zero), becomes one of the two servers or exits
with an error, and ends as `ServeStdio` does. `cfg`, the `HTTPConfig`, is a
function of the environment and takes the place of `HttpServer`'s variable.
`ChargedToWhomItRunsAs` follows a call along the chain: who is charged when it is
refused, that the key and the identity agree when a tool runs, and, from `Main`,
that only a 0 in the environment lets one run uncounted or over the cap.

### Corpus, ReadTools

A text is an element of a set; what the code asks of texts is given by four
constant functions: which texts it contains, which lie under it as folders, its
ASCII lower case and its full lower case. `TextAssumption` says what is assumed of
them, that lower-casing respects containment and that the full one absorbs the
ASCII one. The inner strings of the envelope are `Absent`, `Null`, `Bad` or a
collection. Of the fields, those some tool looks at are kept; a list element's
`texts` are the fields that search looks at.

An action is one handler: load, argument checks, lookup, filter, answer. The
order of attributes out of a Go map is any that `sort.Slice` may produce. Integers
of `generate_context` wrap at `IntMax`. A context's length is a fixed part and a
part per profile, which is all the cut depends on.

## 3. Runs

| Run | Instance | Shows |
|---|---|---|
| `MCLruCache` | capacity 2, 4 keys, 7 uses | `ListAndMapAgree`, `ServesLatestPut`, `KeepsRecentlyUsed` |
| `MCStore` | a user, 2 calls, no shared corpus, I/O errors, crash and power loss | type, `OneWriterPerUser`, `TempFileIsOwn`, `FilesWhole`, `AckedWriteVisible`, `StaleOnlyByRace`; `ImplementsCorpusFile` |
| `MCStoreLive` | a user, an id without a path, the shared corpus, cache of 1; fair, no crashes | `TenantIsolation`, `SharedIsReadOnly`, `NoTempLeft`, `CallsReturn` |
| `MCStoreStale` | a user, 2 overlapping calls | `CacheInvalidated` violated |
| `MCTokens` | 2 tokens, 2 verifiers, 5 seconds, restarts; fair | type, `OneShot`, `RedeemedStaysConsumed`, `VerdictsAreJust`, `ConsumedIsSwept` |
| `MCRate` | 2 keys, limits 3 and 2; fair | type, `ImplementsSlidingLog`, `SmallestLimitHolds`, `RetryIsExact`, `IdleBucketsDropped` |
| `MCRateShared` | 1 key, limits 3 and 2 | `EachLimitHolds` violated |
| `MCTransfer` | 2 users, 2 tokens, 2 requests | type, `LinkHasData`, `DownloadIsOwnAndOnce`, `KeepsWhenUndisturbed`, `ImportReportIsOwn` |
| `MCTransferOverwrite` | 1 user, 2 requests | `KeepsUnlessOverwrite` violated |
| `MCMain` | 12 environments; 3 messages of every method, or 2 connections, 2 users, limits 0 to 2; fair | type, `AnsweredInOrder`, `ChargedToWhomItRunsAs`, `LoopEnds` |
| `MCReadTools` | 466 corpora and files, 5 query texts | type, `ListedIsFindable`, `SearchFindsWhatIsFetched`, `FiltersMatchWhatIsShown`, `DefaultProfilesAreMain`, `ProfilesAreRepeatable`, `RoundTrip` |
| `MCSoftCap` | the same, with 8 and 16 tokens of an `int` up to 31 | `SoftCap` violated |

### Bounds

*Cache*: two entries and four keys give every order of hit, overwrite and
eviction; seven uses fill the cache, reorder it and evict twice.
*Store*: two overlapping calls are enough for every race between a reader and a
writer or two writers, since a third waits for the same mutex; the theorems of
section 4 hold for any number. One temp
name is the hard case, because a writer can only reuse the name another has just
published. Two texts parse, so that an old and a new corpus differ, and one does
not. `MCStore` has one user, whose calls are the only ones that meet on a mutex
and a file; `MCStoreLive` has three ids, which a cache of one entry makes evict
each other, and no crashes, under which nothing need return.
*Tokens*: a life of two seconds, signed in the first two, over five seconds:
every token is presented before, at and after its expiry, swept, and presented
again. *Rate*: window 2, calls at four instants, so that calls age out while
others still count, both rings wrap, and a collector (age 3) runs before and
after. The clock runs on after the last call, to let idle buckets grow old.
`MaxAdmitted` bounds the history. *Transfer*: two requests overlap in every
way; `MoreTokens` keeps links to the tokens there are. *Stdio*: three messages,
one being served, one waiting and one in between. *HTTP*: limits of 1 and 2 on
one limiter and two connections let a key be full, cut back by the other route,
emptied and filled again. *Corpora*: three plots in every order from four, whose
titles and folders contain one another; three characters and three eras likewise,
with equal names, no name, two spellings of the priority and equal sort values;
relationships and events that point to the first, a later, and no position; every
mix of absent, null, malformed and present fields in the envelope. A lookup or a
filter compares at most two elements, and three leave one before, between or
after them. `IntMax` is 31, which 4 * 8 and 4 * 16 exceed, one to a negative
number and one to zero.

TLC looks for deadlock in every run but `MCMain`, whose process ends.

### Fairness

* `MCStoreLive`: each goroutine keeps being scheduled (`WF` on its steps), and
  `sync.Mutex`, whose starvation mode hands the lock to the longest waiter, lets
  everybody in (`SF` on `Acquire`). Calls need not arrive.
* `MCTokens`: time passes, the ticker of `sweepLoop` keeps firing and each pass
  ranges over the whole map, verifiers run on.
* `MCRate`: time passes and the collector's ticker keeps firing.
* `MCMain`: the stdio server's goroutine runs on and what it writes is read; the
  client may stay silent for ever. HTTP connections need not move.

Safety properties need none of it.

## 4. What is proved

Every invariant, action property and refinement that a passing run checks is also
stated by a theorem, of the specification the run uses or of one that allows more.
TLAPS checks all proofs, for every value of the constants under the assumptions
named in the modules. TLC alone checks the four liveness properties.

* `LruCacheProofs`. `LruInv` says that the list has no duplicates, holds the keys of
  the map, and is no longer than the capacity; with it go `CacheListAndMapAgree` and
  `CacheServesLatestPut`. `CacheKeepsRecentlyUsed` rests on `RecentInv`: the list is
  ordered by last use, and a key that is missing though it was put has been outlived
  by as many keys as the cache holds: those of the list, which is full when a key is
  evicted. `KeepsRecentlyUsed` alone is not inductive, since it says nothing of the
  order in which the keys still cached will go.
* `UserStoreProofs`, with any number of users, requests and temp names. All but one
  theorem hold with crashes and power losses. The invariant has two layers.
  `ControlInv` ties `lock`, `who`, `val` and `tmp` to `pc`: that the mutex is held
  exactly in the locked section makes two requests there requests of different
  users. On it rests `StoreInv`: what each file, temp file, cache entry and value
  holds. `FilesWhole` alone is not inductive: `Rename` publishes whatever the temp
  file holds, so the proof needs `TempFileIsOwn`, which needs the mutex, because
  without it another writer's `CleanupRemove` may remove a reused name. `NoTempFileIsLeft`
  assumes `CrashFree`, that no process dies between creating a temp file and
  removing it, and that `Remove` works; every other I/O error may happen.
  `StoreIsARegister`, the refinement of `CorpusFile`, adds `OkInv`, that no error
  was met before a step an error would have skipped, so that a call which is not
  past `Rename` is still pending; then every action of the store is shown to map to
  one of the register or to a stutter, of which `Rename` to `Install` is the one
  that needs the temp file to hold the caller's text. `StalenessOnlyByRace` adds
  `FreshFill`: a Load about to fill the cache holds what the file is now, unless it
  is in `superseded`.
* `TokenSignerProofs`. `TokenInv` says that a verifier between its two steps checked
  in time and that the sweeper's clock is not ahead. `TokensAreOneShot` and
  `RedeemedNoncesStay` assume `ShortStalls`, that no goroutine is stopped for more
  than a second between its expiry check and `LoadOrStore`; the strict comparisons
  of `Verify` (`now >= exp`) and of the sweeper (`exp < now`) are what leaves
  exactly one second. The assumption is needed: with a stall of two seconds TLC
  finds a token redeemed twice. `TokenTypeOK` and `VerdictsJust` do without it: a
  stall may let a token be used twice, but never one that is forged or late when it
  was looked at.
* `RateLimiterProofs`, for any limits, window, keys and routes. `RingInv` says what
  a ring is: head, filled and capacity fit, and the timestamps read from the head
  are in order. From it, the lemmas about rings: `Chronological` is ordered, so what
  `liveTimestamps` keeps is a suffix, so a push, a rebuild and a collection do to
  the ring what the log does to its sequence. `RingsImplementTheLog` puts them
  together, one step of the limiter at a time. `DeniedInv` says that the ring a
  refused call leaves is full and its oldest call is the one the answer waits for
  (`RetriesAreExact`). `LogInv` relates the log to the history of the calls
  admitted: it is a suffix of it, and all of it unless it is at least as long as the
  smallest limit, so a rebuild forgets only calls that limit need not see
  (`SmallestLimitIsHeld`).
* `TransferProofs`, for any number of users, tokens and requests. `TransferInv`
  joins the type, `ActsForUser` (a request works on the data of its own user),
  `LinkInv` (what `request_export_link` saw before it signs is still there when it
  does, as a corpus is replaced but never removed), `DownloadInv` (a request about
  to stream holds a spent link nobody has served or lost, as the only one, and acts for
  its owner; every other spent link is accounted for: `SpentIsAccounted`,
  `LostIsUnserved`) and `ImportInv` (what an import knows of the store at each step, unless
  another came between).
* `MainProofs`, for any environment and number of messages and connections. Before
  the process is a server nothing has moved; afterwards it is one of the two, for
  good. For stdio, `OrderInv`: the answers written are those of the messages
  decoded that are owed one, in order, except that the last one's is missing while it
  is being written, when writing it failed, and after a panic, and that a parse error
  may follow them. For HTTP, `CallInv` has three parts: what a connection has passed
  in the chain of its route fixes the key it was charged to and the user it will run
  as, which the two middlewares read from the header separately (`Counted`), whom a
  refused call was charged to (`Refused`), and that a body over the cap gets no further
  unless there is none (`Fits`). `ZeroIsOff` ties the last to the environment.
* `ReadToolsProofs`, for any corpora, and texts about whose containment and
  lower-casing only `TextAssumption` is known. An answer is that of one handler for
  the call's arguments and the corpus loaded (`AnsweredByHandler`), so each property
  is a lemma about a handler or about two. `FoundPlotMatches` and
  `FoundCharacterMatches` relate the lookups to search, `OwnTitleFindsPlot` and
  `OwnNameFindsCharacter` to the lists, `NamesLeadBack` and `PlacesAreKnown` names
  to positions and back, and `SortedInOneWay` says that a sort by distinct values
  has one result. `RoundTripHolds` follows from `ParseReturnsExport` and
  `ParseOfMarshal`; it is also what `UserStore` assumes of `Marshal`, that its text
  parses.
* `CollectionLemmas`. `Kept` and `FlattenSeq` are recursive functions, and the
  library's induction theorems take an operator as a parameter, which the installed
  provers cannot instantiate. What these functions return is proved by the least
  position at which it would be wrong, which the well-founded order of the naturals
  provides (`WFMin`).

Assumptions on constants say that sets have the kinds of elements the code gives
them (a text, a limit, a key), that a marker for absence such as `NoCall` is none of
the values, and, where the code checks at start-up, what it checks. `MainAssumption`
also says that the two default limits are positive, as they are in the code, and
that a variable which is unset or malformed holds no number. TLC evaluates each of
them in the runs.

## 5. Where code and text disagree

Checked by a run that expects a violation:

* `MCStoreStale`: `Load` reads the file and fills the cache in two critical
  sections. If a `Replace` of the same user runs in between, the old corpus is
  cached after the invalidation and served until it is evicted, replaced again or the
  process ends; `docs/MULTITENANCY.md` says the cache is "invalidated on every
  `Save`/`Replace`" and "subsequent tool calls for the same user see the new
  corpus". Clients with one call per user in flight never see it,
  and nothing else makes an entry stale (`StaleOnlyByRace`).
* `MCRateShared`: `/mcp` and `/download` share one limiter and, for anonymous
  callers, the `ip:` keys. A call under the smaller limit rebuilds the ring to
  that size, even if refused, and forgets the oldest calls; the larger limit then
  admits more than it should. `SlidingLog` states exactly what is forgotten.
* `MCTransferOverwrite`: `overwrite: false` asks `Raw` and then calls `Replace`,
  with no lock over both, and takes any error of `Raw` for absence.
* `MCSoftCap`: `generate_context` multiplies `maxTokens` by four in an `int`. From
  2^61 on the product wraps: a negative cut panics, which ends a stdio server, and
  a wrapped positive one cuts where nobody asked.

Seen while modelling, without a run of their own:

* A token redeemed before a restart is accepted again after it, until it
  expires: the nonces are in memory, the key is not (`tokens.go:31`, against
  "Reusing the same token returns 410 Gone"). `OneShot` counts within one process.
* `server.go:86` says notifications get no response. `ping`, `initialize`,
  `tools/list` and `tools/call` without an id get one; and `initialized` with an
  id gets none. `AnsweredInOrder` states what the code does.
* `server.go:176` says that the stdio loop continues after a parse error; it
  returns, since a JSON decoder cannot go on after one.
* `docs/MULTITENANCY.md` draws bearer, identity, rate limit, body cap; the code
  runs body cap, rate limit, bearer, identity. A call with a wrong bearer is
  counted against the user its header names.
* `ratelimit.go:82-83` says the returned time is when the oldest call falls off;
  at that very instant it still counts, and the caller is let in after it
  (`RetryIsExact`).
* `main.go:16` says that `envInt64` reads a positive number; it takes 0, which
  switches a limit or the body cap off. `main.go:72` asks for a key of at least 32
  bytes; 16 are enough.
* `get_plot` promises a "case-insensitive substring"; `toLower` folds ASCII only,
  while search and the character lookup fold every letter.
* `list_plots` shows a plot without a title, but `get_plot` and the other tools refuse
  an empty one: `ListedIsFindable` speaks of the lookup, `FindPlot`, there.
* A plot, or a character of a plot, whose name an earlier one has as well is
  listed but never fetched; `generate_context` then profiles the earlier one
  twice.
* `get_character` hides attributes marked silent; search matches them, and
  `list_characters` shows a silent age.
* `targetCharacters` that match nobody are skipped without a word.
* `Marshal` is called the inverse of `Parse`; it is, of the fields the Go types
  have. Others in a user's JSON are dropped by `Parse` and would be lost by a
  `Save`, which no tool calls yet; imports store the caller's bytes as they are.

## 6. Hazards

`PROJECT.json` lists each with its line and the properties that would notice it.
Those no property covers: the map of mutexes grows with the users ever seen; the
shared corpus stays cached until a restart, which the deployment guide documents;
an acknowledged write may be undone by a power loss, because the directory is not
synced (the file is whole either way); a wall clock set back makes a swept token
valid again, and so does a restart, which forgets the nonces; a malformed line ends the
stdio server, and with it every later request, as does a tool's panic; a link whose
download failed cannot be tried again; `generate_context` may cut inside a UTF-8
sequence.

## 7. Not modelled

Wording and layout of the tools' answers, the SSE framing, the HMAC, the HTTP and
JSON libraries, logging, deployment files. Tools are registered before the server
starts, so the registry is a constant. Letters whose `EqualFold` and `ToLower`
disagree, and fields of the export that no tool reads. A client that never reads
what the stdio server writes. A restart of the whole process is in `UserStore` and
`TokenSigner`, which have memory to lose, and not in `Main`.

## 8. Plan

Done, in this order: the cache and the store, tokens, rate limiter, transfer,
transports, the register and its refinement, the corpus and the reading tools, the
process; then the proofs of every safety property. Left:

1. `Transfer` over `CorpusFile` in place of its own abstract store, with `Load` as
   `StoreHistory` describes it.
2. The count per key of `HttpServer` as an abstraction of `RateLimiter`'s ring, shown by
   a refinement.
