# TLA+ models of the S3 Vectors store for LangChain.js

The library is a LangChain vector store over Amazon S3 Vectors. It runs on one
JavaScript event loop and keeps little state of its own, but that state is
shared by every call made on one store, and each call is a string of awaits
between which the others run: the service changes, signals fire, requests fail,
answers come late. The models here are about that. Paths below are relative to
the library's root, so `src/internal/x.ts` is the file itself.

## The system's parts

| Part | State | Operations | Hard because |
|---|---|---|---|
| Index lifecycle, `src/internal/index-lifecycle.ts` | `knownToExist`, `generation`, `memo` (the lookup in flight) | `ensureExists`, `markAbsent`, `deleteIndex` | writes share one lookup; a lookup's answer, a 404 and a delete are handled in any order; every request may be lost and sent again |
| Write rate limiter, `src/internal/rate-limit.ts` | the end of a line of promises, two token buckets | `acquire` | two budgets at once, debts, waits that are cancelled in the middle of the line |
| Concurrency window, `src/internal/concurrency.ts` | slots, the first failure, results | `openWindow`, `launch`, `settle`, `runBatches` | partial failure; the caller that waits for a slot |
| Embed-and-write pipeline, `src/internal/embed-pipeline.ts` | the window's, and the batch in hand | `embedAndWrite` | embedding and writing overlap, the model takes no signal, a batch becomes several requests |
| One write request, `src/internal/put-batch.ts` | none | `putBatch` | index, then limiter, then request, in that order |
| Signals, `src/internal/signals.ts` | none | `checkAborted`, `raceAbort` | a wait ends early and what it waited for goes on |
| Pagination, `src/internal/{query-pages,list-pages,page-tokens}.ts` | tokens seen, pages, vectors collected or handed out | `queryPages`, `listPages`, `trackPageTokens` | short pages, ceilings, a service that answers in a circle |
| Reads by id and MMR, `src/internal/get-vectors.ts`, `src/actions/{get-by-ids,mmr}.ts` | slots by id | `fetchVectorsByIds`, `getByIds`, MMR search | answers out of order, absent ids, candidates deleted between two requests |
| Store facade and actions, `src/s3-vectors.ts`, `src/actions/` | the store's lifecycle and limiter | `addDocuments`, `addVectors`, `delete`, searches, `listVectors`, `deleteIndex`, factories | wires all of the above; the order of checks; one reported failure stands for several |
| Errors, `src/shared/errors/` | none | classify, wrap, decorate | a failure passes three to five layers, each of which may lose something |
| Metadata and filters, `src/shared/{metadata,flatten-metadata}.ts`, `src/internal/filter.ts` | none; the caller's objects are shared | `buildPutMetadata`, `flattenMetadata`, `parseFilter` | objects shared, circular, and changed between the check and the request |
| Arguments, `src/shared/validation.ts`, `src/internal/guards.ts` | none | configuration, checks | options dropped in silence |
| Batching, ids, records | none | pure functions | limits met exactly |
| Retriever, `src/retriever.ts` | none | `invoke` with a timeout and a signal | a signal racing a model that takes none |
| Rendering, types, exports | none | wording and declarations | nothing |

How they interact. A write goes `action -> runBatches | embedAndWrite -> putBatch
-> ensureExists, acquire, PutVectors`. Its first batch is sent alone, since it may
have to create the index. Every data request of the store that answers 404 goes
through `#failed`, which calls `markAbsent`. `deleteIndex` waits for the lookup in
flight, sends, and forgets. Reads and deletes go to the service directly, through
pages or through the window. All of it shares one lifecycle and one limiter.

What makes each part correct:

- lifecycle: one lookup at a time; nothing the store was told is gone is
  remembered, and nothing is remembered that disagrees with the store's
  configuration; a delete is not undone by a creation that started before it; a
  signal always ends its call;
- limiter: the rates hold over every stretch of time, in order of arrival, without
  waiting for nothing and without waiting for ever;
- window and pipeline: the partial-write contract (below), the first batch alone,
  never too many requests, always an end;
- reads: each document in the slot of its id or the rank of its vector, and an error
  that names all that was found;
- batches and ids: every document sent once, with its own vector, under an id of its
  own, within both limits;
- the public methods: one order of refusals, nothing spent before the last of them;
- errors: class, cause, request, confirmed ids and verdict as the first failure had
  them, whatever layers are passed;
- values: what is sent is what was checked, and reads back as it was written;
- the store as a whole: once a call has reported the index gone, only a write that joins
  a lookup from before can still fail on that, and every call ends;
- pagination: a short result means there is no more; every vector once; a circle
  is found out, and found only where it is.

## How the code is modelled

- **A step from one await to the next is one action.** JavaScript does not
  interrupt it. Sending a request, its effect at the service and the handling of
  its answer are three steps, so an answer can be old when it is read.
- **A signal that fires ends a wait at once** (`raceAbort`), while what was waited
  for goes on. An aborted or unanswered DeleteIndex may still land later: that is
  one of the things `OtherDeletes` stands for.
- **Requests can fail after having been applied** (`RequestFails` in any state of a
  sent request), and the SDK repeats a request whose answer was lost (`AnswerLost`,
  `LookupAnswerLost`).
- **Data is reduced to what the properties tell apart.** The indexes built under
  a name are numbered (incarnations) and carry one of "agrees", "differs" and
  "unstated" for the whole configuration check. A request of a batched call is a
  number; a page is a number and how many vectors it holds.
- **History variables** (`seen`, `toldGone`, `log`, `arrived`, `read`, ...) are
  marked as such and never guard a step of the code.
- **`X_How` is a defective `X`**, one plausible bug in the code it stands for. The
  properties were each tried against one of these and violated; they are in no
  specification.

### IndexLifecycle (with ExistenceMemory, IndexClaims)

Variables `knownToExist`, `generation` and `memo` are the closure's; `lookup[w]` is
the async function in `memo` that the call `w` started, its phase being the request
it awaits: `describe` (GetIndex), `create` (CreateIndex), `redescribe` (GetIndex after a
lost creation race). `BeginWrite` and `ResumeWrite` are `ensureExists` up to and after its
wait; `Described`, `Created` and `Winner` are the three turns of the lookup, and
each ends in `Remembers`, `ResolvesUnremembered` or `Rejects`, which include the
`finally` that clears the memo (`Ends`). `NothingForgotten` is the comparison of
generations. `Forget` is `markAbsent`, called from `DataAnswered` (a 404 of a data request) and
from `DeleteAnswered` and `BucketAnswered` (`deleteIndex`, whose 404 first asks whether the bucket is
there). `ServiceDescribes`, `ServiceCreates`, `ServiceServes`, `ServiceDeletes` are S3 Vectors.

`ExistenceMemory` is what the bit of memory promises: it learns only of an index
nobody has called gone, and forgets for good. `IndexLifecycle` implements it
(`ImplementsMemory`).

`IndexClaims` adds the history two of the source's own statements need.

### RateLimiter

Time is counted in ticks, and a bucket is refilled by `refill` a tick. Both buckets
are refilled together in every turn of the loop, so one relative `elapsed` stands for
the code's two timestamps. `Arrive` is `acquire` up to its wait for the promise ahead;
`ReachFront` and `Wake` are the turns of its loop, each `Admit` or `Sleep`; `Abort` is the
raced signal, `Release` the `ahead.then(leave)` of the `finally`. The history `log` keeps of each
admission what it asked for, what all before it did, and its time, so that any stretch of
admissions is a difference of two entries (`Load`, `Ticks`).

### Store, StoreReports

The calls of one store together, each a write, a delete or a read of up to `MaxBatches`
requests, made over and over. `Launch` is `putBatch` (or a delete's or a read's action) up to
its place in the line; `LookupServed` and `LookupArrives` are the shared `ensureExists`; `Admit`
the limiter's line; `Answered` the service and the answer's arrival in one step; `Settle` the
end of the call with `#failed`, which forgets the index when the reported failure is
`NOT_FOUND`. What the lifecycle, the limiter and the window do in full is in their own
modules; here each is what another call sees of it. `createIndexIfNotExist` is on, and
the store's own `deleteIndex` is in `IndexLifecycle`.

`StoreReports` adds the history that a statement on recovery needs: as long as the index is
gone, whether a call has reported it gone (`told`), which writes began after that (`since`,
all of them), and which of these wait for, or waited for, a lookup that was pending at that
report and had by then been told that the index is there (`sighted`, `joined`). A report says
nothing of an index built later and deleted anew, so the history starts over with the index.
`Record` reads it off each step of `Store` and hinders none.

### Window, BatchedRun, EmbedPipeline (with PartialWrite, MCPartialWrites)

`Window` is `openWindow` with the requests of a batched call: launched (index and
limiter passed or not), sent, answered, their slot freed. The code frees the slot in a
`finally` after the failure is recorded, hence the separate `Finish`. `BatchedRun` is
`runBatches` with and without `serializeFirstBatch`; `EmbedPipeline` is `embedAndWrite`, whose batches
become one request or several (the result of `requestRuns`, chosen at the start).

`PartialWrite` is the contract of both: nothing starts once something failed, the call
returns only when nothing it started is under way, and the error is the first failure
with every confirmed request, in the caller's order. Both implement it (`IsPartialWrite`).

### PageTokens, Pagination (with MCReads)

`PageTokens` is the tracker (Brent's cycle detection) next to a service of pages
`1..length` whose last page has no token or leads back to any page. `Pagination` runs the
two loops over it: a search (`Answered`, `SearchTurns`) and the listing generator, which is
suspended at each vector until its consumer asks again or stops (`Yield`, `Resume`,
`ListingTurns`).

### Reads

`Reads` runs `fetchVectorsByIds` over `Window`: `Feed` is one turn of the loop over the batches,
`Answered` and `Refused` are a GetVectors (with no limiter in front: a launched read is
sent), `Puts` is what the answer adds to the map `found`, whose entries are keyed by what
the service said. `Begin`, `Slots` are `getByIds`; `Begin`, `Searched`, `Ranks` are `mmrSearch`, where
`picked` is what `maximalMarginalRelevance` selected, any selection. An answer holds
versions, so that a document can be compared with what was stored during the call
while `OtherChanges` writes and deletes. `ReadBounds` holds the ids and the bounds, which `MCReads`
needs besides.

### WriteRequests

What a write makes of its input. `Check` is everything before the first request;
`WriteVectors` is `addVectors`, which cuts all of it by `requestRuns`; `EmbedBatch` is a turn of
`addDocuments`, which cuts by `chunk`, embeds, checks what the model returned and cuts
again by bytes. The helpers `Chunk`, `Offset`, `RequestRuns` and `ResolveWriteIds` are the code's functions;
`Take` is one turn of the loop of `requestRuns`, and the loops that carry something from turn to turn are
recursive functions over the number of turns, so that they can be reasoned about.
A refusal changes nothing but `pc`. How these requests then interleave, fail and are
aborted is in `BatchedRun` and `EmbedPipeline`, which take their number as given.

### Errors, Programs, Calls (with MCCalls)

A public method is a sequence of stages: an argument's check, the signal, the empty
input, the model, and what it awaits. `Programs` lists them in the order of the code, each
with the operation its error names and the layers that failure passes: the method
(`#asOperation`), a factory (`attachInstance`, `attachOperation`), the retriever. A value is the kind
of JavaScript value the code tells apart. `Errors` translates `src/shared/errors/`: a thrown
value is the names along its chain of causes and the few things the code reads of
it; `Merge` is an object's spread. `Calls` runs a program: `Run` is a stage between two awaits,
`Answer` what the awaited model, service or function says, `PassLayer` the way out, one layer
at a time, `Reject` its end, `RaceAborts` the invocation's race, which ends while the search goes on.

### Objects, Filters, Flatten, Metadata, Config (with MCValues)

What is decided about values. `Objects` is a heap of the caller's plain objects and arrays:
they may be shared, contain themselves, and be changed once the call has begun.
`Filters` checks and copies a filter, then sends it after an await. `Flatten` is `flattenMetadata`
over any such graph. `Metadata` is a record's way into the index and back: limits, the
non-filterable keys, the copy of its arrays, `createDocument`. `Config` is what each option takes,
which unknown keys are taken for misspelt options, and the client built.
`Filters`, `Flatten` and `Config` recurse as the code does and so are outside the proofs.

## The checks

Every run is `tlc -config <cfg> <module>`.

| cfg | Module | Question | Bounds |
|---|---|---|---|
| IndexSafety | MCIndexLifecycle | `OneLookup`, `NeverRemembersGone`, `RememberedAgrees`, `NoResurrection`, `ImplementsMemory` | two writes, a read, a delete; `MaxDisturbances` = 2 |
| IndexLiveness | MCIndexLifecycle | `FiredSettles`, `BegunSettles` | two writes and a delete, two of the three with a signal; no disturbances |
| RateLimiter | MCRateLimiter | `RateHeld`, `WaitsAreFree`, `NoIdleBudget`, `NoOvertaking`, `EveryoneLeaves` | three requests of one or four vectors, one with a signal; buckets of two; `MaxElapsed` = 8 |
| PartialWrites | MCPartialWrites | `FirstAlone`, `EmbeddingPauses`, `AbortStopsWrite`, `IsPartialWrite`, `Ends` | `runBatches` of up to six batches, `embedAndWrite` of up to four batches of one or two requests; up to three slots |
| Reads | MCReads | `OwnSlot`, `RankedReturned`, `FoundComplete`, `ShortMeansExhausted`, `ListedOnce`, `NoFalseAlarm`, `CaughtSoon` | three ids in lists of up to three, batches of one or two, two slots, two changes by others; up to seven pages of at most one vector, `MaxQueryPages` = 6 |
| Values | MCValues | `PairedUp`, `NothingLost`, `RequestsFit`, `OneDimension`; `FilterAgrees`, `FlattenAgrees`, `RoundTrip`, `NoOptionIgnored` | up to three documents, batches of up to three, two dimensions and two record sizes; graphs of three objects (filters: five), depth limits of one and two; two metadata keys, budgets of 24 and 30 bytes; keys of up to five letters over two of them |
| Calls | MCCalls | `OneOrder`, `ErrorFaithful`, `RecoveryKept`, `VerdictsAgree`, `InvokeEnds` | every public method, any two arguments unusual in any way, every failure |
| Store | StoreReports | `Recovered`, `EveryCallEnds` | two calls of up to two batches, two slots, made over and over |
| StoreClaim | StoreReports | a statement of the source, violated | two calls of one batch |
| IndexClaim404 | IndexClaims | a statement of the source, violated | one write, one delete, one disturbance |
| IndexClaimEnsure | IndexClaims | a statement of the source, violated | two writes, one delete |
| KeysClaim | Metadata | a statement of the source, violated | two keys, one of them the page's |

`RateLimiter` also checks its `TypeOK`. The `TypeOK` of every module with a `...Proofs` module is
proved; for `Store`, `TypeOK` is stated there.

Why the bounds are enough. A stale answer needs a lookup, a step that makes it stale
and a write that uses it: two writes, a delete and a read give each of these,
with a second lookup to be confused with the first. Two disturbances make an index
vanish and come back between any two steps. In the limiter a request of four
vectors on a bucket of two leaves a debt that two further requests have to wait out;
eight ticks repay any debt three requests can make and fill both buckets, after
which time changes nothing. Three slots and six batches fill the window twice. Seven
pages cover every shape of tail and circle across the tracker's holds of one, two
and four tokens, and lie on both sides of the ceiling, which is 6 here and larger in
the code. A page of the run holds at most one vector: that a consumer's pause inside a page
lists nothing twice is shown by the theorem `EachListedOnce` alone.

Three ids fetched by requests of one or two give a repeated id, an absent one, a
batch answered out of order and a second batch that is answered first; two changes
take a candidate away and put another version in its place. Three documents give
runs closed by number and by bytes, three runs of which the first is handled apart,
and a batch after the one that set the dimension.

An order of checks shows as soon as two things are wrong at once, so `MCCalls` lets any two
arguments be unusual. Three objects give one shared by two others, one inside itself,
and a path reached in two ways; the depth limits (32 in the code) and the
100,000 objects of `MAX_NODES` are lowered to one, two and four, so that a graph can pass them. Two calls of two batches give `Store` a 404 behind another
call's lookup, a line with an aborted request in the middle, and a write begun between.
The keys of `Config` are shorter than the code's, as is the length below which a key is no
misspelling (three, not six); prefixes, one and two edits and capitals all occur.

The safety run of the lifecycle uses symmetry over calls of one kind without a
signal, and `MCReads` over ids. No liveness run does.

Calls are made at most once, so the systems come to rest: every cfg but `Store`
and `StoreClaim`, whose calls are made again, says `CHECK_DEADLOCK FALSE`, and the liveness properties say that
what rests has ended.

### Fairness

- `IndexLifecycle!StoreFairness`: the event loop runs each callback that is ready. It
  is all `FiredSettles` needs: the service may never answer.
- `IndexLifecycle!ServiceFairness`: each request is eventually answered or fails,
  which the SDK's timeouts see to. It is the hypothesis of `BegunSettles` and not part
  of the specification, so that one graph serves both.
- `RateLimiter!FairSpec`: ready callbacks run and time passes. Signals need not fire.
- `MCPartialWrites!AnySpec` (`BatchedRun!FairSpec` and `EmbedPipeline!FairSpec`): ready callbacks run, and a
  request that was launched is let through and answered or fails. The embedding
  model answers or fails.
- `Calls!Spec`: ready callbacks run. Neither the model nor the service need answer, which is
  what `InvokeEnds` is about.
- `Store!Fairness`: a lookup, the front of the line and each call go on: callbacks run, budgets
  refill, and the client's timeouts end what the service leaves unanswered. Signals
  need not fire, other processes need not act, and no call need be made.

### Where the source disagrees with its own words

- **A 404 of DeleteIndex does not always make the next write look again.**
  `index-lifecycle.ts:782` says it does. The 404 clears `knownToExist` without a new
  generation and then awaits the bucket check; a lookup answered before the 404
  sets the flag again in that time, and if the bucket check ends in an abort, or
  finds no bucket, nothing clears it (`NextWriteLooksAgain`).
- **A write can go ahead although the index never existed during its call.**
  `index-lifecycle.ts:384` guarantees otherwise. A write that begins after a
  delete resolved joins the lookup in `memo`, answered before the delete landed
  (`EnsuredIndexExisted`). `deleteIndex` waits for the lookup it finds, so the one in
  question was started while the delete was under way.
- **The next write after a reported 404 can fail on what the store already saw was
  missing.** The comment of `#failed` (`s3-vectors.ts:1502`) says that it looks the index up
  again instead. `markAbsent` (`index-lifecycle.ts:740`) forgets the index and outdates the
  pending lookup, but leaves it in `memo`: a write's `GetIndex` is answered "found", the
  index is deleted by another process, a search reports the 404, and the next write
  joins that lookup, goes on when it resolves, and its `PutVectors` is answered 404
  (`RecoveredAsStated`). It is confined to that one lookup: nothing it found is remembered,
  and a write that asks for itself, or begins once it has arrived, does recover
  (`Recovered`, proved).
- **The index can be created with other keys than the budgets are counted
  against.** `s3-vectors.ts:306` says they are the same set. The store copies
  `nonFilterableMetadataKeys` when it is constructed, for the budgets; the lookup reads the
  caller's own array each time it runs (`index-lifecycle.ts:599`), so a caller that changes it
  in between gets the two apart (`BudgetAsBuilt`).

Smaller ones, seen while modelling, with no run of their own:

- A circle of pages can take longer to notice than stated: `page-tokens.ts:13-14` gives m + 2n
  pages for a circle of n pages entered after m. The tracker keeps a token from before the
  circle until the next power of two; a page that points at itself after four others is
  noticed at the eighth page, not by the sixth. The bound the code has, checked and
  proved, is n + 2 max(m, n) - 1 (`CaughtSoon`).
- A batch answered 404 next to a sibling that failed first is not looked at:
  `#failed` sees the reported failure only, while its comment and the section on an
  index deleted outside the process in the package's README speak of any request.
  `Recovered` and `RecoveredAsStated` therefore speak of a 404 a call has reported.
- `PAGE_LIMIT_EXCEEDED` names the request when a token repeats and not at the ceiling
  (`query-pages.ts:212`, `:229`), while the README says no error without a failed request names one.
- An `S3VectorsError` thrown by a caller's model (a store used as a model behind a cache)
  passes as it is, with the request it names (`ForeignError`).
- The comment on `ParsedFilter` (`filter.ts:145`) says that the value is the caller's own
  filter object; `parseFilter` returns a copy, which `FilterAgrees` depends on (`CopyOf`).
- `flattenMetadata` joins the path of a value under an empty key without a dot (`Join`).

## The proofs

Checked by TLAPS for every value of the constants, from the named assumptions of the modules
alone, which say what the code's own checks ensure (a positive size, a positive rate), that
calls are of one kind each and finitely many, or that a bound of the model is wide enough.
Each theorem follows from an inductive invariant `IInv` by three facts: it holds initially,
every action keeps it, and it implies the property. There is a lemma per action; what an
action leaves alone is said once.

### IndexLifecycleProofs (`CallsAssumption`)

- `TypeCorrect`. One lemma per group of variables, one step per action.
- The inductive invariant is `TypeOK` with `LookupInv` (which lookups run, and who waits on
  them), `ReadInv` (what a lookup read is an incarnation that was built, of a configuration
  it compared), `GoneInv` (what a call's 404 proves gone is one that was built) and
  `FreshInv`: a lookup whose generation is still current read an incarnation later than
  anything the store was told is gone. `FreshInv` is what makes the memory safe: without it
  `Remembers` could learn a gone index.
- From it: `LookupIsShared`, `GoneIsForgotten`, `OnlyAgreeingRemembered`, and
  `MemoryImplemented`: initial states map to initial states, and each step to `Learn`,
  `Forget` or a stutter of `ExistenceMemory`.
- `NothingResurrected` needs `AwaitInv` besides: a delete that has passed its wait waited
  for a lookup that has ended.

### RateLimiterProofs (`LimiterAssumption`, `ElapsedAssumption`)

- `LimiterTypeCorrect`: no balance above a second's worth, no sleep beyond a slice.
- `FirstComeFirstServed`, for any number of requests and any of them giving up. `ChainInv`
  says that each request waits for the one that arrived just before it and that one is
  released only when all those in front are; `TurnInv` that whoever is past the line has
  nobody in front.
- `RateIsHeld`. `RateHeld` speaks of admissions of the past, the buckets hold only the
  present. `ReserveInv` ties the two: no bucket holds more than any past admission, and
  those after it, have left of a full one, with the refill of the time between. An admission
  then adds an entry that is within the rate against every earlier one, whatever their
  number.
- `WaitingIsFree`: however often a turn finds one budget short, the other has paid for
  admissions alone. `NoBudgetIdles` needs `SleepInv`: while a timer runs, what is missing is
  more than is refilled before its last tick.
- The last three speak of times the model tells apart, up to `MaxElapsed`: by
  `ElapsedAssumption`, long enough to repay the largest debt and to fill both buckets.

### StoreProofs (`StoreAssumption`)

- `RecoveredHolds`, about `StoreReports`, of which `RecoveryInv` is the invariant. `MemoryInv`:
  what was told gone, and is, is remembered by nobody, and no lookup that would say it is
  there is current. `SightInv`: a pending lookup that has been told the index is there was told
  so before the report, and is the one `sighted` stands for. `SinceInv`: a write that began
  after the report and did not join it is `Sound`, none of its requests is past the lookup. `Recovered`
  alone is not inductive, since a lookup already answered could still let a request
  through. `WhoIsRecorded` says what the history keeps of a write from step to step, so that
  each action is left with its own requests only.
- `NobodyIsForgotten`: the line lists exactly the requests that wait in it, each once,
  whoever was aborted in its middle (`LineExact`), and who waits for a lookup waits for one
  on its way (`NobodyStranded`). These are the safety half of `EveryCallEnds`.
- `WindowIsHeld`: no call exceeds its window.

### WriteRequestsProofs (`WriteAssumption`)

- `RunsInOrder` is the invariant, for any number of documents, any batch size, record sizes
  and budget. `SentInv`: the requests made are the documents so far, cut into runs (`Cut`
  names where each begins), so that no document is skipped, repeated or out of place. It is
  kept because `BatchInv` says that every batch before the last was full, and `DimensionInv`
  that what was embedded so far has the dimension the next batch is compared with.
- `RequestRunsCut` is the lemma about `requestRuns`: after each turn of its loop (`TakeNext`,
  `ClosedRun`) the runs closed, and then the one still open, are the records taken, none
  too large and none closed early (`Packed`), and the bytes counted are those of the open
  run. `OffsetIsStart` says of `offsetBatches` that a batch is put where it begins, whatever
  its length; `TheBatch` what `chunk` makes of the documents; `FlattenedCut` that runs put
  together are what was cut.
- From it: `RecordsArePaired`, `EveryRequestFits`, `NothingEverLost`, `AllOfOneDimension`.
  `PairedUp` and `RequestsFit` are conjuncts of the invariant; the others follow from it.
- The theorems are about `WriteRequests!Spec`. The run `values` takes its `Init` and `Next`
  as one of its modes, next to modules that could not be extended by one with a theorem.

### CallsProofs (`CallsAssumption`)

The run tries the calls that have up to two unusual arguments. The theorems are for any set of calls
with any number of them, on every public method. `CallsAssumption` says what a call is: a method and,
for a retriever, a type of search it could have been constructed with; a value for fields that
the method has, and not for what it works out itself; and an `invoke` whose
retriever passed its constructor, so that its fields have nothing left to refuse.

- Two facts about the programs, which are lists of up to twenty stages. `CodeInOrder`: those of
  every method are `Ordered`, what the arguments decide before a signal, that before an empty
  input, that before a missing model, and nothing spent before a signal was looked at.
  It is shown by parts: a list of checks may be put in front of an ordered one
  and keeps it so. `CodePlaced`: the last layer of every stage is the method called, and the
  store is attached where a factory adds documents and nowhere else.
- What a layer does, for any error (`LayerPassed`): the class, the cause and all but the
  operation and the store are as they were (`SameNews`), a store once attached is kept and
  stays hidden (`Shaped`), and a value that is no error of the package becomes one. What the
  action that failed adds (`Reported`) keeps the same and adds how far it came (`Grown`). So an
  error `Tells`, at each layer, what failed first.
- The inductive invariant is `CallInv`: the stages passed had nothing to refuse (`OnCourse`),
  something was spent only at a stage that spends (`Spends`), a failure under way tells what
  failed first and was met by a stage that refuses, or after something was spent (`Failing`),
  and what was answered is that failure, the end of the program or of the race (`Replied`).
  None of the properties is inductive: they speak of a call that is over and of all its
  stages, and nothing in them says where it stands before.
- `OneOrderDecides`: no stage before the one a call stopped at would have stopped it, so what
  stopped it is the first in the order; and whatever was spent came after a stage that looks
  at the signal (`SpentWell`, `EndedWell`, `StoppedInOrder`). `FailuresStayFaithful`,
  `RecoveryReachesTheCaller` and `VerdictsReachTheCaller` follow from `Failing` at the last layer.
- The failures are those `Calls` enumerates, of the service, the connection, the model and the
  caller's function; the lemmas about the layers are for any error.

### BatchedRunProofs, EmbedPipelineProofs (`WindowAssumption`, `PipelineAssumption`)

`BatchedRunProofs` begins with the lemmas the three callers of the window share; the proofs
of the others cite them through an instance, since the window is the same module in each.
`Fed(base, n)` is what each finds at every turn of its loop: the first `base` requests went
well, those from `n` on are new, the ones between hold the launch list, a slot is held by
whatever is under way, and no failure is unrecorded. `FedLaunches` and `FedMoves` keep it;
`InCallersOrder` concludes that the results are all that committed, in the order of the
input.

- `FirstIsAlone`, twice, and `FirstOfBothIsAlone` for the specification of the run:
  `FirstInv` says what was launched outside the window, `FirstWritten` that it went well.
- `SlotIsFree`, `AbortIsHeeded` for `embedAndWrite`.
- `KeepsPromise`, twice: the refinement of `PartialWrite`. Each action starts, confirms,
  fails, returns or stutters; `Settle` is the hard one, where what is reported has to be
  ascending and complete.

### PaginationProofs (`LengthAssumption`, `PaginationAssumption`)

- `OrderInv`: a read passes the pages in order and then, if it is led back, goes round.
- `NobodyAccused` and `CyclesAreCaught` rest on `TrackerInv` (the token held is the one seen
  at a power of two, and none seen since is the same) and `SpanInv`: it is held for longer
  only while that is shorter than the way to the circle or the circle. So at most
  `n + 2 max(m, n) - 1` pages are read, without assuming anything about m and n.
- `EachListedOnce`: `ListedInv` says that what was handed out and what is left of a page are
  what the pages read held. `ShortIsAll` is inductive with the order.

For reads by id (`WindowAssumption`, `ReadsByIdAssumption`), which `MCReads` has by the prefix `D!`:

- `ByIdTypeCorrect`, `OwnSlotHolds`, `RankedHolds`, `FoundIsComplete`. `AnswerInv` says that every
  answer holds, for each id of its batch that was there, one version stored during the call, and
  that an id it lacks was not there at some time; `FeedInv` and `CostInv` that requests that
  failed or are under way fit in one window.
- The lemmas `UniqueCovers`, `BatchesCover` and `BatchHolds` are what a repeated id and a
  short last batch could break: each id asked for is in some batch. `PresentIsAll` says that
  the candidates left are as many as the ids found, whatever was deleted.
- `EachInItsSlot`, `EachInItsRank` and `NothingFoundIsLost` state the same for the specification of
  the run, which makes reads of pages and by id. They need only that the two do not mix.

### What stands in for induction

An argument by induction is made by the smallest counterexample: a set of numbers with a
member has a smallest one (`Smallest`, from the well-foundedness of `<`; `Least`, for finite
sets). That a recursive function exists at all, with a record for its value, is `Iteration`,
and what it computes is again shown by the smallest number of turns after which it would be
wrong. The models are written for it: sums and loops are recursive functions (`Sum`,
`RequestRuns`, `Offset`), what a list keeps is told by rank (`Nth`, `Kept`), and the line of
the store is edited by places.

### Only model-checked

- Liveness, which is beyond the prover: `FiredSettles`, `BegunSettles`, `EveryoneLeaves`,
  `Ends`, `EveryCallEnds`, `InvokeEnds`.
- `Filters`, `Flatten` and `Config`, which recurse over the caller's data; `Metadata` (sums
  of bytes).

## Not modelled, and the plan

Not modelled: what is in a request or a document beyond what a property tells apart, error
wording and stacks, getters that throw (but for the options and filters of `Calls`), the
score formulas, what LangChain's core does inside `invoke`, a retriever whose fields are
changed after construction, the limiter when it is switched off, and
`src/shared/describe.ts`, `src/types.ts` and `src/index.ts`, which hold no state and decide
no order.

Every safety property of a run is a theorem, but for those of `Filters`, `Flatten`, `Metadata`
and `Config`. What is left is the sums of `Metadata`, which would have to be written as the sizes of
`WriteRequests` are, and a retriever whose fields are changed after construction.
