# Formal models of Autopsy

Autopsy is a Go web server. A user uploads a Kubernetes support bundle; the server extracts it into a temporary
directory, parses it, has Claude analyse it in three phases (triage, timeline, root cause), streams the results to
the report page over server-sent events (SSE), and answers chat questions about it. State lives in two in-memory
maps, sessions and analysis results, each with a sweeper of its own, and optionally in PostgreSQL. Nothing above
the two maps takes a lock, every request is a goroutine, and each upload starts one more.

The modules here are TLA+; TLC checks them on small instances, and TLAPS proves the theorems of the seven `*_proofs`
modules, and the lemmas of `DataInduction` they rest on, for every value of the constants. `PROJECT.json` lists every
run, mutant, finding, hazard and theorem, and maps each definition to the lines it models. Paths below are under
`internal/` unless they start with `src/`.

## 1. Inventory

| Component | State | Operations | Hard behaviour | What makes it correct |
|---|---|---|---|---|
| Analysis cache (`analysis/cache.go`) | map SHA256 -> pointer to CachedResult, TTL of 2 hours, cleanup every 30 minutes | Get, Set, Snapshot, eviction | the pointer leaves the lock; eviction uses two locks | results of one bundle never reach another; expired entries go |
| Cache writers (`server/handlers.go`: upsertCache, preWarmAnalysis, three SSE handlers, restoreAnalysisCache) | position of each goroutine, the pointer it holds | look up, run, get-or-create, mutate, set | get-mutate-set with no lock; checks stale after seconds; one retry after a 529 | readers see only phases an analysis produced |
| Session store (`session/store.go`) | map id -> pointer to Session, TTL | New, Get, Set, Delete, sweep | Set overwrites; Delete acts on stale ids; RemoveAll outside the lock | expired sessions only are swept; no directory is orphaned |
| Chat (`HandleChat`, `HandleChatSSE`, `HandleReport`, `chat_messages`) | history slice of the session, rows | ask, reply, stream, load | the slice is shared without a lock; inserts may fail half way | memory and table hold one conversation, as far as its inserts succeed |
| Upload, restore, persistence (`HandleUpload`, `HandleReport`, `restoreSessionFromDB`, `db/queries.go`) | tables bundles and analyses, sessions, cache | upload, insert, restore, save | restart between saves; cancelled uploads; session visible before the cache is filled | stored analyses are not run again, and not lost |
| Streamed analysis (`HandleRCASSE`, `RunRCA`, `server/sse.go`, `src/templates/report.html`) | result channel, SSE writer, request context, page | stream, replay, fail, disconnect | goroutine and handler share a writer; select races | only whole texts are cached; nothing follows `close`; no goroutine leaks |
| Bundle extraction (`bundle/extract.go`) | temporary directory, bytes written | make directories, write files, fail, clean up | limits checked after the write; damage and cancellation in the middle; one path twice | the directory is bounded, whole on success, gone on failure |
| Bundle parser (`bundle/parser.go`, `events.go`, `logs.go`) | data collected so far, errors noted | find the root, read pods, events, logs | three loops react to a cancelled context in three ways; in-place merging | partial data says so; events and logs agree with their definitions |
| Token budget (`bundle/budget.go`) | none | EnforceBudget, EstimateTokens | four passes, each only if needed | trims as far as it must and no further |
| Chat context, system prompt (`analysis/context.go`, `prompts.go`), suggested questions | none | choose what a turn tells of the bundle | two limited lists that complete each other, each in a text that is cut | what matches a question is told while there is room; a turn is never empty |
| Bundle status (`HandleBundleStatus`) | a column | new -> in_review -> resolved -> new | read, then write, in two statements | clicks go round the cycle |
| Demo data (`seed/seed.go`, `src/main.go`) | rows | four statements per entry at every start | failures and crashes between any two; rows of earlier starts | a start repairs what an earlier one left; demo data does not pass for newer |
| Dashboards and listings (`handlers.go`, `db/queries.go`) | none of their own | read tables, summarise, group by customer | pages made of several queries, two notions of a customer | the pages agree with one another |
| Analyzer (`analysis/analyzer.go`) | none | RunTriage, RunTimeline, RunRCA, RunChat(Stream), one retry after a 529 | late answers | used through its outcomes |
| Organisations (`server/handlers.go`, `db/queries.go`) | a column | part of each look-up | none | - |
| Login, users, middleware | a cookie, a fixed table | log in, log out | none | - |
| Health check, configuration, database pool | environment | read | none | - |

Interactions: a start of the server seeds the demo data and then listens. An upload calls Extract, Parse, the
session store, `InsertBundle`, and starts `preWarmAnalysis`. A report gets or restores its session (session store,
`bundles`, `analyses`, cache) and loads its chat. The page then opens three SSE connections, each of which reads the
cache, may run an analysis, writes the cache and saves to `analyses`. Chats read the session, build a context of its
data, call Claude and write session and `chat_messages`. Dashboards read `bundles` and `analyses`; clicks write a
status. Two tickers sweep the maps. Every request has a context that is cancelled when its client leaves.

## 2. Modules and how they correspond to the code

| Module | Models | State |
|---|---|---|
| `AnalysisStore` | what the cache promises (abstract) | phases produced, phases visible |
| `AnalysisCache` | the cache and all goroutines that fill it | `entries` (the map), `results`, `age` (the heap of CachedResult objects), `pc`, `kind`, `job`, `phase`, `held` per goroutine, `empty` (goroutines with an empty root cause), `doomed` (keys collected for eviction) |
| `AnalysisCacheStore` | the refinement of `AnalysisStore` by `AnalysisCache` | the above and a history variable |
| `SessionStore` | the session store, the sweeper, and every handler's use of it | `sessions`, `age`, `onDisk` (sessions whose directory exists), `known` (ids), the requests, the sweeper's position |
| `ChatHistory` | the chat of one bundle in memory and in the table | `session`, `history` per object, `rows`, the requests with the slice each has read (`seen`); `refused` (questions the database refused) as history |
| `ReportPersistence` | tables, sessions, cache and all workers (requests, pre-warm goroutines) of one file | `bundles`, `saved`, `sessions`, `warmData`, the cache (`entry`, `objects`, the `held` one of each worker), the workers' `pc`, `phase` and `result`, the `row` a restore read; `loaded` and `lossy` as history |
| `RCAStream` | one streamed analysis, from Claude's pieces to the page | handler and goroutine positions, `result` (the channel), `cancelled`, `wire`, `page` |
| `BundleExtract` | Extract's loop over tar entries | `place`, `disk`, `total`, `entries`, `wanted` (sizes the archive gives) |
| `BundleParser` | Parse's loops, event digest and log limit | `stage`, `next`, `pods`, `all`, `result`, `excerpts`, `notes`, `cancelled` |
| `BundleIntake` | Extract, then Parse of what it returned, under one context | the two above |
| `BundleRoot`, `LogExcerpt`, `PodSummary`, `TokenBudget`, `ChatContext` | pure functions: the root of an archive, the lines kept of a log, the reason and health of a pod, EnforceBudget, what a chat turn tells and what the panel suggests | - |
| `Filtering` | loops that keep some elements of a list, which the parser, the log excerpts, the chat and the dashboards share | - |
| `Dashboards` | the tables as the pages see them, and what writes them: starts with seeding, uploads, saves, clicks | `bundles`, `analyses`, `server`, `entry` and `step` of the seeding, `click`, `page`, `tabs` |

A `*_proofs` module has the theorems of the module it is named after (`AnalysisCache_proofs` also those of
`AnalysisCacheStore`, `BundleIntake_proofs` those of the modules it is composed of), `DataInduction` has what the
operators on lists and sets compute, for data of any size, and each `MC` module extends one of these
with the symmetry and the definitions its runs use.

Decisions about atomicity, in the order a reader of the code will ask:

- `AnalysisCache`: `upsertCache` is three steps (get or create, mutate, set). The mutation and the stamping of
  `CachedAt`, which both happen without a lock on the goroutine's own pointer, are one step, since a reader can tell
  neither apart from an earlier or later mutation. `Get` and the test of the phase's field are one step: a field goes
  from empty to filled and never back. Reading `CachedAt` while it is written gives the old or the new value. A 529 is a
  step of its own (`Overloaded`), after which the second call succeeds or fails for good. Unreachable objects are reset,
  as the Go allocator hands out zeroed memory. `RunRCA` may return an empty text and no error: it is cached like any
  text (`RunReturnsNothing`), and since the code tests the field for `""` it looks like no root cause.
- `SessionStore`: sweeping is collect (read lock), delete per id (write lock), remove directory (no lock). `age` stops
  at `TTL + 1`. What a chat or report does between getting its session and storing it back is an arbitrary delay of at
  most `MaxElapsed` ticks.
- `ChatHistory`: reading the slice and storing a slice are two steps; the write to the object and `store.Set` are one.
  Go's `append` may write into a shared backing array; the model keeps its effect on the slice that is stored last. The
  loop that loads rows is one step. Each insert fails on its own, by an error of the database or because the client has
  left, and the code ignores either.
- `ReportPersistence`: one file content, as contents meet nowhere (that is `ServesOwnBundle`, proved). `upsertCache` is
  three steps here too, for requests, restores and pre-warm goroutines (`Get`, `Mutate`, `Set`), and a restore fills the
  cache phase by phase from the row it read before. The entry may expire at any time, which includes the clock of 2
  hours. `HandleUpload` finds no row of the content when there is none or its query fails. "Cut" data stands for a
  bundle whose reading was cancelled or failed; with `Cut = "whole"` the two are not told apart, for runs that do not
  ask. A restore whose extraction failed goes on to load the analyses, unless the client is gone. A phase replayed from
  the cache changes nothing and has no action. Organisations are left out.
- `RCAStream`: `SendEvent` by the goroutine is two steps, the look at the context and the write; a write to a page that
  left vanishes. `SaveRCA`, whose failure is only logged, is part of `Store`.
- `BundleExtract`: one entry of the archive is one step, the look at the context included. The text of a path is data:
  the path is safe, or its entry is skipped. Sizes are in units of which `MaxFileSize` and `MaxTotal` are small numbers.
  `HandOver` forgets the directory, as `BundleParser` chooses what a file holds when it is read.
- `BundleParser`: a look at the context and what the loop does next are one step, since a cancellation in between has
  the effect of a later one.
- `BundleIntake`: the client may leave at any step of either. The pure functions have no state, so their properties
  range over all small inputs and are evaluated in the initial state alone (`place = "make"`).
- `PodSummary`: a reason is the place where it was found, its text and message are not kept, except whether a
  termination is a completion.
- `ChatContext`: whether a keyword of the question occurs in a text is a flag of the text. Both texts are cut after 2000
  characters; how many of their lines these hold is a number of the data (`promptHolds`, `contextHolds`), since it
  depends on how long the lines are. A line that is cut in its middle counts as left out. The context holds one line at
  least: the cuts inside a line (100 and 120 characters of a message) keep it short.
- `Dashboards`: every SQL statement is one step, those of the seeding too (`SeedInsert`, `SeedTriage`, `SeedTimeline`,
  `SeedRCA`; a failed one, or a crash, leaves the rest of its entry undone). A click is two statements, and the platform
  page two queries. Every other page is one query, so it is a function of the tables. `ORDER BY uploaded_at DESC` gives
  some order where times are equal (`LatestFirst`), as they are of demo bundles of different customers. Of a triage only
  severity and health are kept, the two values that pages show. Uploads and saves, which other modules have in detail,
  are one step each.

## 3. Runs

Bounds are constants of the `.cfg`; each is the smallest at which the interleavings of interest occur.

| Run | Instance | Shows |
|---|---|---|
| `cache_store` | 2 bundles, 2 SSE handlers, 3 addresses, 2 phases, TTL 0, root causes that may be empty | `ObjectsUnshared`, `ServesOwnBundle`: escaped pointers never mix bundles; `ImplementsStore`: the cache implements `AnalysisStore` |
| `cache_progress` | 1 bundle, 2 pre-warms or restores, 529s, fair | `WorkersReturn`, `ExpiredEntriesGo` |
| `session_requests` | 1 id, 3 objects, 2 requests that may overlap, one of which may write back; TTL 2, a sweep every tick, requests of at most 2 ticks; fair | `SweepsOnlyExpired` across the sweeper's two locks, `NoDirectoryLost`, `SessionsExpire`, `DirectoriesGo` |
| `chat_requests` | 2 requests of 4 kinds, 2 messages, 3 session objects, sweeps, restarts, disconnects, inserts that fail | `AnswersFollowQuestions` always, where an answer without its question is one whose question the database refused; `NoTurnTwice` unless a report overlaps; `HistoryAgreesWithRows` and `HistoriesGrow` unless any two overlap |
| `persist_requests` | 2 requests and a pre-warm goroutine, 1 id, 2 objects, 2 phases, faults, cancellations, expiry, restarts | `LoadedSessionsRerunNothing`: what was in the cache when a session started is not run again, unless the entry expired, two workers had each made an object for it, or its root cause was replaced by an empty text |
| `stream_pages` | 2 pages, 2 pieces, fair | `OnlyWholeTextsCached`, `CloseComesLast`, `WorkersExit`, `PagesSettle` |
| `bundle_intake` | archives of up to 4 entries on 3 paths (a directory and two files), sizes below, at and above the limits; 2 directories, up to 3 events, logs of up to 5 lines, pods of up to 2 containers and 2 init containers; small budgets and contexts | `DiskIsBounded`, `AllOrNothing` for the extraction; `IncompleteIsNoted`, `MatchesReference`, `LogsUpToLimit` for the loops; `RootsAreFound`, `ExcerptsKeepWhatMatters`, `PodsTellTheirTrouble`, `BudgetIsKept`, `ChatIsGrounded` for the pure functions |
| `dashboard_requests` | 2 starts, 2 demo entries, 1 upload, 2 organisations, 2 customers that share a slug, 2 clicks, 1 save, failures and crashes anywhere | `ClicksCycle`, `SeedingRepairs`, `DemoDataIsOlder`, `DashboardsAgree`, `TabsAgreeWithInbox` |
| `cache_lost_phase` | 2 SSE handlers | violation of `InstallKeepsPhases` |
| `cache_double_call` | a pre-warm goroutine or SSE handlers, 2 of them | violation of `NoRedundantCalls` |
| `persist_no_triage` | 1 request, 2 phases | violation of `SavedIsRestored` |
| `persist_cut_bundle` | 1 request, 2 ids | violation of `WholeSessionsSeeWholeResults` |

Every passing run but `cache_progress` also checks the `TypeOK` of its module.

Why the bounds are enough. Two goroutines and two requests suffice for every hazard listed, which are all about a check
of one goroutine and an action of another; in `cache_store` one address more than goroutines lets a new object be made while all
others are held, and in `persist_requests`, where the entry is one, two let an object replace another. TTL 0 makes every tick an expiry, TTL 2 with a sweep every tick lets a session be renewed or replaced
between collection and deletion. `cache_store` runs SSE handlers, which can
start at any phase; pre-warm and restore goroutines, which take the phases one after another, run in
`cache_progress`, and that they too keep the bundles apart and implement the store is what `CacheServesOwnBundle`,
`CacheObjectsUnshared` and `CacheImplementsStore` prove for every choice of goroutines. Two phases are enough where phases differ only by being first or last and by the
severity column of the first. Two pieces give a stream a middle. Four entries let an archive meet a limit, write a path
again and go on; both limits are two units, so that a file of four breaks the one, two files the other, and one of two
neither. In `LogExcerpt` the limits 1, 2 and 3 add up as the code's 20, 30 and 50 do. `PodSummary` has every pod of up
to two statuses of each kind, as the loops only compare a container with those before it. `BundleRoot` has every pair of
root-like directories three levels deep, as in the code. Budgets and chat lists go one beyond their limits, and the cut of a text falls at each of its lines. Two starts
let a second one find what the first left; two demo entries of one organisation give its lists an order, and one upload
of an unsettled organisation and customer joins or leaves them. Deadlock is checked in the chat and persistence runs,
which can always restart; the others may stop when no request arrives, all bundles were uploaded, all pages settled, the
bundle is read or the last start has crashed.

Where a property holds only while requests do not overlap, the formula says so with a history variable: `overlapped`
and `storedBack` in `SessionStore`, `overlaps` in `ChatHistory`, `lossy` in `ReportPersistence`; `Dashboards` has
`expected` and `seeded` to the same end. The overlapping requests themselves are in every instance.

### Fairness

`AnalysisCache`: weak fairness of each goroutine's next step and of eviction's two steps. The Go scheduler runs
every goroutine, Claude calls end in success or failure, and `cleanupLoop`'s ticker fires.
`SessionStore`: of each started request, of the steps of a sweep, and of the clock. `RCAStream`: of handler and
goroutine, of net/http's notice of what happened to a connection, and of delivery to an open page. No fairness
makes a request arrive, a client stay or leave, a call retried, or an analysis succeed. `BundleIntake` and
`Dashboards` state no liveness: each of their loops is over a finite list, and a crash may end it.


## 4. What is proved

Every theorem holds for every value of the constants that its module's assumption admits; TLC evaluates the
assumptions on each run. None but `ExpiredAreSwept` assumes anything more.

| Module | Theorem | Property |
|---|---|---|
| `AnalysisCache_proofs` | `TypeCorrect`, `CacheServesOwnBundle`, `CacheObjectsUnshared`, `Separation` | `TypeOK`, `ServesOwnBundle`, `ObjectsUnshared`, the invariant `IInv` |
| | `CacheImplementsStore` | `ImplementsStore`: the refinement of `AnalysisStore` |
| `SessionStore_proofs` | `TypeCorrect`, `DirectoriesAreRegistered`, `ExpiredAreSwept` | `TypeOK`, `NoDirectoryLost`, `SweepsOnlyExpired` |
| `ChatHistory_proofs` | `TypeCorrect`, `TableIsAConversation`, `HistoriesOnlyGrow`, `EachTurnOnce`, `HistoryMatchesTable` | `TypeOK`, `AnswersFollowQuestions`, `HistoriesGrow`, `NoTurnTwice`, `HistoryAgreesWithRows` |
| `ReportPersistence_proofs` | `TypeCorrect`, `NothingIsRunAgain` | `TypeOK`, `LoadedSessionsRerunNothing` |
| `RCAStream_proofs` | `TypesOfStreams`, `CacheGetsWholeTexts`, `NothingAfterClose` | `TypeOK`, `OnlyWholeTextsCached`, `CloseComesLast` |
| `BundleIntake_proofs` | `TypesOfUpload`, `DirectoryIsBounded`, `ArchivesWholeOrGone` | `TypeOK`, `DiskIsBounded`, `AllOrNothing` |
| | `WhatIsMissingIsNoted`, `EventsMatchReference`, `LogsAreTakenUpToLimit` | `IncompleteIsNoted`, `MatchesReference`, `LogsUpToLimit` |
| | `EveryBudgetIsKept`, `EveryExcerptKeeps`, `EveryPodTells`, `EveryTurnIsGrounded`, `EveryRootIsFound` | `BudgetIsKept`, `ExcerptsKeepWhatMatters`, `PodsTellTheirTrouble`, `ChatIsGrounded`, `RootsAreFound` |
| `Dashboards_proofs` | `TypeCorrect`, `ClicksMoveInCycles`, `SeedingRepairsEntries`, `TabsFollowInbox`, `DemoDataComesLast`, `PagesAgree` | `TypeOK`, `ClicksCycle`, `SeedingRepairs`, `TabsAgreeWithInbox`, `DemoDataIsOlder`, `DashboardsAgree` |

Every safety property that a run finds to hold is a theorem.

**Induction over data** (`DataInduction`). The library's induction theorems take an operator as a parameter, which no
prover here instantiates. But that the strict subsets of a finite set are well founded is a fact about sets alone, so a
non-empty set of counterexamples has a minimal one (`Minimal`, `LeastNumber`), and a set of lists that has the empty
list and all it is appended to has every list (`SequenceInduction`). In the same way the function that a fold chooses
exists and is unique (`FoldExists`, `ComputesAgree`), which gives what sums (`SumTake`, `SumSame`) and filters
(`FilteredOfAppend`, `FilteredElements`, `FilteredOnce`, `FilteredCount`, `PlacesFacts`, `DistinctFacts`) compute, and
that a finite set can be listed by falling weight, in one way only where weights differ (`ListingExists`,
`ListingUnique`). The provers cannot unfold `SelectSeq`, a function defined by recursion inside a LET, nor sorting by
TLC; the models therefore say `Filtered`, `Places`, `Distinct`, `MapThenSumSet` and `LatestFirst`.

**Cache** (`ConstantsAssumption`: nil is no address, the empty result is no bundle, at least one phase).
`ServesOwnBundle` is not inductive: an entry may be mutated through a pointer that left the lock, so what the map
shows depends on who holds which object. `IInv` adds that a goroutine holds a pointer exactly between `Get` and
`Set` (`HoldersWrite`), that an object reachable for a bundle, from the map or from a goroutine working for it, is
reachable for no other (`ObjectsUnshared`) and has only its results (`OwnResults`), and that new objects are blank
(`FreeAreBlank`). A step adds at
most one way to reach an object, and only for the bundle the goroutine works for; every other step only removes
ways, which `ReachesLess` and `LocalStep` say once for all of them.

**Refinement.** `AnalysisStore` keeps, per bundle, the phases that were produced and those that a lookup finds. On top
of `IInv`, the proof needs that a goroutine inside `upsertCache` has seen its phase produced (`ObtainedIsProduced`) and
that every phase in an object was produced for the bundle the object is reachable for (`HeldIsProduced`).
`StoreStep` then takes the actions one by one: receiving a result is `Produce`, storing a pointer is `Publish` or
`Hide`, a mutation of an object in the map changes what is found of one bundle only (`OneBundle`), and eviction and
the clock only hide.

**Sessions** (`SessionAssumption`: nil is no session, there is an id, the handlers that write back are requests, sweeps
are at least a tick apart). For the directories, `DInv` says that ids in use were issued (`IdsAreIssued`), that a
request has a session only after its extraction (`HeldAfterExtraction`), and, while requests do not overlap, that at
most one is at work (`OneAtATime`) and that under its id the map has nothing when it is about to store, and later its
own session or nothing, the latter only when the sweeper removes its directory or has (`StoresItsOwn`).
Hence no write to the map replaces a session whose directory would be forgotten. For the sweeper, `SInv` says
that the session a request is about to store is nobody else's (`HeldIsNew`), that the sweeper finds what it has
collected (`CollectedStay`), that what others have stored under a request's id since it found nothing there is no older
than the request (`StoredSince`, unless a session was stored back), and that what was collected is expired
(`CollectedAreOld`, unless a session was stored back and requests overlapped). `ExpiredAreSwept` assumes
`MaxElapsed <= TTL`: only then is what replaces a collected session either as old as that or written by an overlap.

**Chat** (`ChatAssumption`: nil is no session, none is no message). `IInv` says of each request that its message is
its own (`MessagesAreOwn`), and how far the table is with it (`RowsAndChats`): no answer of a chat that still runs, no
question before it is inserted, and of every chat that is past it with a live context the question, unless the database
refused it. Either insert may fail while the other succeeds, so an answer may lack its question. That it does only then
needs the context: a client that left before the question was inserted has its answer dropped too; and a refused question
is nowhere in the table and is not inserted later (`RefusedStayOut`). `HInv` says that a request which is alone has read what it will extend
(`SlicesAreCurrent`), so histories only grow. `LInv` is about overlapping chats: every slice, in an object or in the
hands of a handler, has each turn once and none that a chat is still to store (`SlicesFit`), so that a handler may
store whichever slice it has, with its turns added. Rows and slices do not exclude each other, which is why a load is
alone (`LoadsAlone`), and its object still has an empty history (`LoadsIntoEmpty`, from `FreeAreEmpty` and
`IdleHoldNothing`).

The history of a session and the table agree (`HistoryMatchesTable`) by `AInv`: while no two
requests have overlapped, the request at work holds the session of the store, or none is there (`Holds`), what a chat
has added to the history and not yet tried to insert is at its end (`Pending`), and the stored turns of every history
are the latest rows (`Agrees`). What is stored and what is not is told apart with `Filtered`, so that an insert, or its
failure, moves one turn at the end of both lists.

**Persistence** (`PersistenceAssumption`: two or three phases, nil is no id and no address, requests are no pre-warm
goroutines). `TInv` has the positions of requests and workers (`RequestsAreReady`, `WorkersAreReady`), and analyses are
stored only of bundles with a row (`StoredHaveRows`). The updates of the cache are not atomic and another worker's phase
may be lost in them, so the claim is about the phases that are not `lossy`: all are once the entry expired or a worker has
made an object while another has one it made (`TwoObjects`), the root cause is once an empty text is on its way. Until
then all workers in `upsertCache` have the object of the entry, or one of them has the only object there is
(`OneObject`), so that a `Set` replaces nothing. Hence, for every phase that is not lossy (`Ahead`), a worker about to
save has its result in the cache (`WorkerAhead`), a restore has there what it has been through of its row and what was
saved since it read the row (`RestoreAhead`), and so the cache has all that is stored of a loaded session
(`LoadedAhead`). The theorem follows as a request runs a phase only after a miss.

**Streaming** (`StreamAssumption`: a text has at least one piece). `Types` has the types that the proof needs,
`GoroutinesMeet` says in which pairs of positions handler and goroutine can be, that the channel has a result only of
a goroutine that has ended, and that the goroutine of a closed connection has ended; `SuccessIsWhole` that a success
on its way through the channel, or taken from it, goes with all pieces. `TypeOK` bounds the pieces a page shows, for
which `SInv` counts: those shown, those on the wire and the one in the goroutine's hand are no more than it has
received.

**Extraction** (`ExtractAssumption`: sizes and limits are naturals, which no directory is). The sum over a disk changes
by one file at a time (`SumTake`, `SumSame`), but the check comes after the write, so the bound on the directory that
holds at every step is above the limit. `EInv` has the sharper one that holds between entries (`Written`: within the
limit, no file above that on a file, everything wanted so far there as it was last given), that the files on disk are finitely
many, and that before and after there is none. Cancellation and damage at any entry lead to the clean-up, a hand-over
only comes from `Written`.

**Parsing** (`ParserAssumption`: its numbers are naturals). The loop over the pods leaves without a note, so the invariant
`NotesFollow` is needed: when `parseEvents` begins with something missing, the context is done and a directory is left,
as it starts over at the first, and so it will see it; from then on something is missing exactly when there is a note.
`PInv` is about the results. `Indices` bounds each loop's counter by what it runs over. `LogsInv` says that the
excerpts are of the logs there are of the pods so far, up to the limit, by a cardinality that each pod adds its part
to. `CollapseInv` is the loop invariant of `deduplicateEvents`: the events before the index are collapsed
(`Collapsed`), that is, each key once, standing for the first of its latest events with the sum of all counts
(`Standing`). It is exact where the code overwrites the entry of a key in place, whichever event comes later.

**Pure functions.** Their properties range over data that constants bound, so that TLC can check them; each theorem holds
for every value of these, and follows from a lemma that has no bound. `EnforceBudget` (`BudgetTrims`): each pass is applied only above the budget, so that what is
trimmed is a prefix of the four passes, and the shortest that fits. Excerpts (`ExcerptKeeps`, from `ExcerptAssumption`:
errors and tail fit into the excerpt, 20 + 30 <= 50 at `bundle/logs.go:14`, without which the claim is false): errors
and last lines are there because `Distinct` keeps one of each and the limit cuts nothing of theirs. Pods (`PodTells`):
the reason is the first there is, where completions only add to what is tried before, and a restart of any container
gets the logs of the pod read. Chat (`Grounded`, `AnchorsFollow`, from `ContextAssumption`: the limits of the context are
positive): a turn has what the keywords match or else the first pods, the cut of a cut list is the shorter of the two
(`UptoUpto`), and a cut of two lists that lacks some of the first has none of the second (`CutText`). The root (`FoundAnywhere`): the recursion is a function on directories, which exists as
it can be built level by level from the lowest (`Lowest`); a directory that has a root below it returns the first one
(`Finds`), by induction on its height.

**Dashboards** (`DashboardsAssumption`: the demo entries are well-typed and have distinct ids, which are not ids of
uploads; bundles are finitely many; the values for "nothing" are no rows). `TInv` has that a click only reads a bundle
with a row (`ClicksHaveRows`), which upserts never remove, and that the latest time is that of a row (`HasLatest`).
`CInv` adds to `ClicksCycle` that a bundle not there yet is expected to be new. `RInv` says what the entry being seeded
must have at each of its statements (`EntryIsUnderway`) and that entries passed without an error are complete
(`SeedingRepairs` itself), of a server that has not stopped since (`SeededByServer`). `TabsAgreeWithInbox` needs that
the inbox is `page.writes` writes old (`InboxAges`), where one write changes the number of open bundles of an
organisation by at most one (`OneWrite`, by cardinality). The two properties of listings rest on `AgeInv`: a demo bundle
has the day, the organisation and the customer of its entry (`SeedsAreDated`), an upload is later than every entry
(`UploadsAreLater`, as `FirstUpload` is) and than every upload before it (`UploadsInTurn`). `LatestFirst` then lists any
rows once, none before a later one (`LatestFirstLists`), and the rows of one organisation and slug differ in time
(`TimesDiffer`), so that their listing is unique, is what the history has of them (`ListingOfPart`), and begins with
what any part of it begins with that has its first (`HeadOfPart`). The assumption has that demo bundles of one
organisation and slug differ in their day, as those of `seed.go` do; those of different customers do not, and nothing is
claimed of their order.

**Only model-checked.** Liveness under fairness (`WorkersReturn`, `ExpiredEntriesGo`, `SessionsExpire`,
`DirectoriesGo`, `WorkersExit`, `PagesSettle`), which needs ENABLED and is out of the prover's reach. The four
properties that runs find violated are, of course, not theorems.

## 5. Disagreements between the code and what is written about it

Shown by runs:

1. `cache_lost_phase`: two handlers that miss together store one object each, and one phase is lost.
2. `cache_double_call`: pre-warm goroutine and SSE handler both call Claude for one phase, which the comment at
   `handlers.go:1160` says is avoided.
3. `persist_no_triage`: `GetAnalysisByBundleID` scans a severity that is NULL until the triage is saved into an
   `int`, so a timeline or root cause stored first is unreadable, and the restore drops it without a word.
4. `persist_cut_bundle`: a cancelled upload still starts the pre-warm goroutine, which caches the analysis of an
   empty bundle under the real SHA256; the next upload of the file is shown it.

Met while modelling, present in the models, and not run as violations (most are under "hazards" in PROJECT.json):

- Concurrency. `evictExpired` and the session sweeper delete by key what may have been renewed or replaced since it
  was collected. Two restores of one session at once leave one directory that nothing removes. Overlapping
  `HandleChat` calls lose turns; a report that overlaps a streamed chat shows a question twice; a session restored
  by a duplicate upload that chats first never shows the older conversation.
- Chat. An answer whose question the database refused is stored alone, and a restore shows it so.
- Persistence. `upsertCache` may lose a stored phase that was in the cache (`LoadedSessionsRerunNothing` names the
  cases). An empty root cause is cached, saved and served as if there were none. Two overlapping uploads of one file make two rows; a request between `store.Set` and the loading of
  the cache runs a stored analysis again; analyses by the pre-warm goroutine are never saved. Seeding overwrites the
  analyses of demo bundles at each start.
- Streaming. The goroutine of a stream may write after its handler returned; the page has no listener for
  `rca-error` and marks a failed phase complete.
- Parsing. A later Normal event of a key replaces a Warning in the digest. The reason of a pod is that of its first
  container with one, not the first of the priority list at `parser.go:282`; a finished init container gives a
  healthy pod the reason `Init:Completed`, against `parser.go:286` and `parser_test.go:123`; `PodTellsItsTrouble` exempts
  pods with a finished container from what it says of reasons that are wrong. `parser.go:27` speaks of the deepest root, the code returns the first one
  it walks into. A list `{"items":[]}`, which a comment says is supported, falls through to the parsing of an array
  and is noted as an error.
- Budgets. `EnforceBudget` stops after four passes, not when the data fits, and `src/README.md:142` says that a
  budget of 80k tokens is enforced though no handler calls it. The marker of a cut is added after the cut, so the
  caps of `prompts.go:134` and `context.go:14` are exceeded by its length. The cut of the system prompt takes the
  warnings first, so that 15 pods and 10 warnings of ordinary length lose the last warnings.
- Dashboards. A bundle without a triage is "pending" at home and "healthy" on its customer's page. `HasAnalysis` is
  true of a row with a timeline only. Two customers with one slug share a page, and a name with a "/" has none. The
  download link a platform user sees of another organisation's bundle ends in a 404. The fixed list of the home
  page has links that lead nowhere.

## 6. Not modelled

- Analyzer texts, prompt wording, stubs, templates, and JSON decoding transform strings and keep no state; what a
  cut leaves of the line it falls into is left out. Of the cluster, the versions, nodes and Helm
  releases that the parser copies are left out.
- Login is decided per request from a cookie and a fixed table, downloads and the health check read, configuration
  and the database pool are made once at start. Organisations appear in `Dashboards` only. `HandleHome`'s fixed list
  of customers is data.
- The failure of `os.RemoveAll`, directories left behind by a killed process, and disk space; panics and `recover`
  in the HTTP server. In SQL, rows are sets and functions; connection errors are failures of the step that queries.

## 7. Plan

1. An abstract conversation that `ChatHistory` implements while requests do not overlap (the table as a list of
   exchanges, memory as a suffix of it), and an abstract session directory (registered or removed) for
   `SessionStore`.
2. Composition of `SessionStore` and `ReportPersistence` on the restore path: directory, session and cache of one
   id, with the sweeper between them.
3. Theorems: the refinements of 1; what the liveness properties rest on that is safety, such as that every goroutine
   that has begun has a step it can take.
