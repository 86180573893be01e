# Verification of memos-importer

TLA+ models of memos-importer, the server that imports Notion pages into a
Memos instance as background jobs, with the TLC runs that check them on small
instances and TLAPS proofs for instances of any size. Paths below are relative
to `src/`; line numbers refer to the commit in this repository.

Contents: 1 the system and its hazards; 2 the modules and the code; 3 the runs;
4 bounds; 5 fairness; 6 what is proved; 7 where code and documentation
disagree; 8 what is left out; 9 the plan.

## 1. The system

| Part | State it keeps | Operations | What makes it hard |
|---|---|---|---|
| Import engine (`internal/importer/importer.go`, `content.go`) | per run: channel of items, worker goroutines, failure count, context | `CreateJob`, `RunJob`, `RetryFailed`, `processItem`, `failItem`, `cancelItem` | dispatcher, workers and cancellation race; every item is a chain of remote requests and local statements that can fail between any two of them |
| Store (`internal/store`) | SQLite rows: `import_job`, `import_item`, `document_mapping`, `attachment_mapping` | single statements and two transactions (`CreateJob`, `ResetItems`) | all that survives a restart; statements take the run's context and are aborted with it |
| Runner registry and job API (`internal/api/router.go`, `job_handler.go`) | map from jobs to cancel functions, a mutex | create, resume, retry, cancel, list, `startRunner`, `cancelRunner` | requests race for a job's slot; a cancel function is called after the mutex is released |
| Event broker and stream (`internal/importer/events.go`, `internal/api/sse.go`) | subscriber channels (32 events) per job | `Subscribe`, `Publish`, cancel, `jobEvents` | channels are closed while workers publish; full channels drop events |
| Web console (`webapp/src/main.tsx`, `components/JobsPanel.tsx`) | the list of jobs it loaded last, one EventSource per job | import, cancel, resume, retry, refresh on events | decides by a list that may be stale; answers overtake each other |
| Memos client (`internal/memos`) | none | requests with up to two retries, version and limit checks | creating a memo is not idempotent; answers may be lost |
| Notion adapter and client (`internal/source/notion`) | none | listing, expansion of databases, fetching a page and its blocks | pages and blocks change between the answers for one list; hierarchy; refused cursors; retries |
| Block converter (`internal/source/notion/converter`) | none | a page's blocks to Markdown, warnings and attachments | nesting: which types have their children written, and how deep |
| Memos instance checks (`internal/memos/client.go`, `instance_metadata.go`) | a job's stored limit | version, content length limit over three endpoints | endpoints fail one by one; the limit is stored with the job |
| Attachments (`internal/importer/attachments.go`) | `attachment_mapping` | download, upload, mapping | check, slow upload, then write |
| Server process (`cmd/server/main.go`) | none | start, stop | a stop may come between any two steps; nothing at startup looks at the jobs |
| Configuration, session, previews, static files, redaction, traces, migrations | nothing that changes | | |

How they interact. A request creates rows for a job and its items (status
`pending`), and `startRunner` starts a goroutine that runs `RunJob`. That one
marks the job running, reads the items that are `pending` or `running`, starts
workers, hands them items over an unbuffered channel, waits, and writes the
job's final status. A worker fetches the document, uploads its attachments,
looks up the document's mapping, creates or updates a memo (or skips the
document), writes the mapping and then the item. Each of these writes is
followed by an event that the broker passes to the streams of that job; a
console that gets one loads the list of jobs again. Cancel cancels the run's
context, which every request and most statements of the run use. Resume runs
`RunJob` again over what is open; retry first turns failed items back to
pending. Jobs share nothing but the store's mappings, the Memos server and the
source, and two jobs may well contain the same document.

What each part has to get right:

* engine: an item is with one worker; a job is done only when its items are
  settled; completed items stay completed; what is recorded about memos is
  true; an unchanged document has its content in its memo; a document has one
  memo; every run ends;
* registry: one runner per job; a cancellation reaches the runner it was meant
  for; the mutex is always released;
* console with engine: however a run ends, the user can go on with what it left;
  a job that reads `running` is being run; every job started comes to an end;
* discovery: a listing misses nothing that stood still and shows the hierarchy;
  what is selected is expanded into exactly its pages;
* requests for jobs: nothing runs against a Memos that is too old; a job is what
  was selected; a job keeps its limit; a request ends;
* fetch and converter: a document is never older than the edit time it bears;
  every block is written in its place or warned of, as its type has it;
* attachments: a link leads to a whole file of its own; a canceled preparation
  stops;
* broker and stream: no send to a closed channel; a run never waits for a
  console; the final event is last and is acted upon; streams of clients that
  are gone are forgotten.

`PROJECT.json` lists every hazard behind these, each at its line, with the
properties that cover it.

## 2. The modules and the code

| Module | Models | Used by |
|---|---|---|
| `ImportEngine` | engine, store, job API (atomic), Memos, source, restarts | `MCImportEngine`, `Console`, `ImportEngineProofs`, `ItemsProofs` |
| `Console` | the console's job list and buttons, over `ImportEngine` | `MCConsole`, `ConsoleProofs` |
| `RunnerSlots` | abstract: a job's slot for one runner and its cancellation | refined by `ImportEngine` and `RunnerRegistry` |
| `RunnerRegistry` | the registry statement by statement under its mutex | `MCRunnerRegistry`, `RunnerRegistryProofs` |
| `EventStream` | broker, stream handler, EventSource and list requests | `MCEventStream`, `EventStreamProofs` |
| `NotionAnswers` | Notion's paginated answers (external) | `NotionDiscovery`, `PageContent` |
| `NotionDiscovery` | listing and expansion of databases, with Notion as they see it | `JobRequest`, `DocumentOrder` |
| `DocumentOrder` | the order by hierarchy in which a listing is shown | `MCNotionAdapter`, `RequestProofs` |
| `JobRequest` | the checks of Memos, the expansion and the store that come before a run; composes the actions of `NotionDiscovery` | `NotionAdapter`, `RequestProofs` |
| `PageContent` | the fetch of a page with its blocks, and retries | `Converter` |
| `Converter` | what is written of the blocks of a document | `NotionAdapter` |
| `NotionAdapter` | the adapter as it is used: it finds documents or fetches one; composes `JobRequest` and `PageContent` | `MCNotionAdapter`, `PageProofs` |
| `Attachments` | `prepareContent`: lookup, download, upload and mapping by several workers | `MCAttachments`, `AttachmentsProofs` |
| `*Proofs` | theorems and lemmas: `ImportEngineProofs`, `ItemsProofs` on top of it, `ConsoleProofs` on top of that one; `RunnerRegistryProofs`, `EventStreamProofs`, `AttachmentsProofs`; `RequestProofs` (with `DocumentOrder`), `PageProofs` (of `NotionAdapter`) on top of it | |
| `MC*` | sets for TLC, symmetry | the `.cfg` files |

Operators called `Mutant...` stand before the operator they are a buggy version
of. No specification uses them; with one in the place of its original the
property it is listed with in `PROJECT.json` fails.

### ImportEngine

Rows of the store are `jobStatus`, `strategy` (from the job's options), `item`
(status and memo id per job and document) and `docMap`. `memos` is the Memos
server: a sequence, a memo's name is its position. `src` is a document's
content and edit time; a time that the adapter cannot read is `NoTime`, with which
`documentUnchanged` goes by the content alone (`content.go:51`). `run[j]` is where the runner of job j is in `RunJob` or
`RetryFailed`, with its context's cancellation, the items it has yet to hand
out and its count of failures; `worker[j][w]` is where a worker is in
`processItem` and what it carries (`pc`, item, fetched document, memo name,
result, attempt). `creating` are `createJob` handlers between their commit and
`startRunner`.

One action is one store statement, one attempt of a remote request, one channel
operation or one API call. Between two of them any other goroutine may run and
the process may stop. Tests of `ctx.Err()` directly after an answer are in the
answer's action. The actions follow the code in its order:

| Actions | Code |
|---|---|
| `CreateJob`, `StartCreated`, `Resume`, `Retry`, `Cancel`, `StartRunner`, `Unregister` | `job_handler.go`, `router.go:113-143` |
| `ReadFailed`, `ResetFailed` | `importer.go:164-183` |
| `MarkRunning`, `LoadItems`, `Dispatch`, `StopDispatch`, `CloseQueue`, `Drain` | `importer.go:95-153` |
| `WriteLoadFailed`, `WriteCanceled`, `WriteFailed`, `WriteDone` | `importer.go:105-161` |
| `Begin`, `MarkItem`, `FetchDocument`, `PrepareContent`, `Lookup`, `CreateMemo`, `UpdateMemo`, `UpsertMapping`, `FinishItem`, `FailItem`, `CancelItem` | `importer.go:124-133, 185-315` |
| `Edit`, `Crash` | the source; `cmd/server/main.go` |

Statements. `Exec` gives the outcomes of a statement: with a canceled context
it reports an error, and may have been applied all the same (the driver
interrupts it at some point); without, it succeeds, or fails if
`StoreMayFail`. Transactions and queries have no half-way outcome (`Tx`). Which
context a write uses is in the model, because it matters: the final statuses
`failed` and `done`, and `failItem`, use the run's; `canceled`, a failed load
and `cancelItem` use a fresh one.

Requests. `MemosReply` are the ends of one attempt; whether the server applied
it and what the client hears can differ if `RepliesMayBeLost`. `AfterReply` is
the retry loop: up to `MaxAttempts` attempts, then an error.

### Console

`shown` is the list on display; buttons and the guard of an import look at it
and never at the truth. A list is read (`ReadList`) and displayed (`ShowList`) in
two steps, and answers overtake each other. A click makes a request
(`ClickCancel`, `ClickResume`, `ClickRetry`, `StartImport`), which reaches
`startRunner` or `cancelRunner` at any later time (`ResumeArrives` and so on), or
never: in between the handler reads the job and asks Memos for its version and
limit. Several clicks of one kind are one request that may arrive as often as
`MaxRuns` allows; `MaxRequests` bounds the requests on their way. That is the whole constraint the console puts on clients: the
API itself accepts resume and retry in any status, and `ImportEngine` alone lets
clients do that.

### RunnerSlots and RunnerRegistry

`RunnerRegistry` has one action per critical step: taking the mutex, reading
the map, deciding, writing, releasing, and the call of the cancel function
after the release. A call of `startRunner` names its context and its goroutine.
`RunnerSlots` has only start, cancel, end and stop as atomic steps. Both
`RunnerRegistry` and `ImportEngine` implement it, so that the engine's
atomic registry promises no more than the mutex provides: in particular the
late call of a cancel function (`router.go:141`) is either the cancellation of
the runner the job has, or no step at all.

### EventStream

A run is the set of its changes: one for each item's row, and last the job's
final status. `Write` and `Publish` are separate, since the code publishes
after the statement. The statement may fail, applied or not; the error of a final
status, of a failed and of a canceled item is ignored and the change published
all the same (`importer.go:155-160, 300, 312`), that of a completed item is not
(`importer.go:286`), so what is published may not be in the store. A stream's life is connect, subscribe, loop, cancel
(delete under the mutex), close. Events go through the channel (`queue`,
`Capacity`) and the network (`wire`, `WireRoom`); a client that does not read
fills both. The console's requests for the list are a set: each is answered
with what is written then and displayed when it arrives, in any order.

### NotionDiscovery, DocumentOrder and JobRequest

`source` is Notion: a forest of pages and databases with edit times, which
users edit, move, delete or take from the integration while requests are under way. One action is one request
with what the adapter does until the next one. At `phase = "listed"` the order
shown is an operator of what was found (`orderDocumentRefsByHierarchy` of
`DocumentOrder`, called in the last but one statement of `ListDocuments`). Its
recursive `appendTree` is a list of the calls that are to come: the first one
adds its document, unless that was added before, and puts the calls for the
children in front of the others. `appendTrees` makes as many of them as there
can be. Notion's side is external: answers
are of any size up to the one asked for, a cursor names the next result, search
results come in order of the last edit, results of a database keep their order,
what is gone is in no answer, and a cursor whose result is gone or has left the
database is refused. To look up a database that is gone gives the 404 that the
adapter takes for "this is a page" (`isNotDatabaseResponse`), so its id is stored
as an item.

`JobRequest` is the life of a job before and between its runs: the console
lists documents (`Find`), the user selects some of them (`SubmitJob`), the
handler checks the version (`VerifyMinVersion`), looks up the limit unless the
request has one (`ContentLengthLimit`, one endpoint per step), expands the
selection (`Find` again) and stores the job (`CreateJob`). `ResumeJob` stands
for resume and retry, which go through the same checks with the stored options.
`version` and `heard` are what Memos answered, kept until they are used, so that
properties can speak of them. `StartRun` ends the part modelled here:
`ImportEngine.StartCreated` and `Resume` go on from it.

Ids are numbers because the order shown breaks ties by id.

### PageContent

One action of `PageContent` is one attempt of a request, one result looked at,
or the return of one recursive call; `frames` is the stack of
`fetchChildrenRecursive`. Between two requests users insert, move and delete
blocks. A cursor names a block; if that has left its list, Notion refuses it and
the fetch fails. What the calls return, and in the end the document, is a list
of the blocks in preorder, each with the path of blocks it was found under: the
tree of the code, written so that it can be reasoned about without recursion.
The path, and not the place in Notion, is what counts, since a block that moves
during the fetch may be found twice.

### Converter and NotionAdapter

`Convert` is the converter as an operator of a document and the types of its
blocks; of a line it keeps the block, the depth and whether it closes a toggle.
A list of blocks is named by its first, so that `renderBlocks` is a function
of a position and a depth whose value comes from those at later positions: the
first block inside (`firstChild`) and the next one of the list (`next`).

`NotionAdapter` puts `JobRequest` and `Converter` side by side, for the run
`Adapter`, which adds `DocumentOrder`, and the theorems about it.

### Attachments

A worker holds the list of a document's attachments and the links it has so
far. `Lookup`, `Open`, `Read`, `CreateAttachment` and `Record` are the steps for
one attachment; `Open` and `CreateAttachment` are single attempts, with `Delay`
(the timer) or `Abandon` (the context) between two of them. An upload may have
been made although the client hears of an error. Workers share the table and
Memos's files, and nothing else; whether they belong to one run or to several
makes no difference here. In `ImportEngine` all of it is the step
`PrepareContent`, which succeeds or fails.

## 3. The runs

Every run with `expect: pass` explores its whole state space.

| Run | Module | Properties | Shows |
|---|---|---|---|
| `EngineWorkers` | `MCImportEngine` | `TypeOK`, `OneWorkerPerItem`, `FailedRunNamesItsItems`, `EndedRunsCanBeContinued`, `DoneOnlyWhenSettled`, `CompletedItemsStayCompleted`, `RunnersTakeSlots` | dispatch, settlement, the end of a run and slots with two workers, cancellation, resume, retry and a crash anywhere |
| `EngineContent` | `MCImportEngine` | `RecordedMemosExist`, `UnchangedMemosAreCurrent` | the records about memos through edits, overwriting, lost replies, unreadable times, store faults, a crash |
| `ConsoleJobs` | `MCConsole` | `CreatedJobsFinish`, `EveryRunEnds` | with requests and lists that are late: jobs that nobody cancels finish, and nothing hangs when a run is canceled |
| `Registry` | `MCRunnerRegistry` | `RegistryInv`, `OneRunPerJob`, `ImplementsSlots`, `EveryCallReturns` | the registry at the level of its mutex |
| `Stream` | `MCEventStream` | `StreamTypeOK`, `OpenChannelsOnly`, `NothingAfterTheEnd`, `EveryChangeIsPublished`, `LeaversAreForgotten`, `FinalEventIsShown` | the broker, two streams and a browser that may sleep, and changes whose write failed |
| `Adapter` | `MCNotionAdapter` | `AdapterTypeOK` (of the listing, the requests and the fetch); `ListingIsComplete`, `ShownByHierarchy`, `ExpandedExactly`, `DiscoveryEnds`; `MemosChecksDecide` (`OnlySupportedMemos` and `LimitIsTheFirstOffered`), `JobKeepsItsLimit`, `JobIsWhatWasSelected`, `RequestEnds`; `DocumentIsNotOlderThanItsTime`, `ContentIsWrittenInOrder`, `FetchEnds` | finding pages and making jobs of them while users edit, move and delete them; the checks before each run; fetching and converting a page while its blocks move |
| `Attachments` | `MCAttachments` | `AttachmentsTypeOK`, `RecordedFilesExist`, `BodiesAreComplete`, `UploadsAreWhole`, `PreparationsEnd` (`CanceledPreparationsEnd` and `EveryPreparationEnds`) | two workers with shared attachments, failures, cancellation and a crash anywhere |
| `ConsoleRestart`, `ConsoleRetry`, `ConsoleDuplicate`, `StreamStale`, `AdapterUnsupported` | | one each | counterexamples, section 7 |

The runs divide the properties by what they need. `EngineWorkers` lets clients ask
for anything in any status, more than the console does, so what it shows holds of
the console however late its requests and lists are. `ConsoleJobs` needs the
console: to a client that retries a job between its commit and its start the
engine promises no end (section 7). `UnchangedMemosAreCurrent` fails with two jobs
that have a document in work at once and holds with one; it is about mappings that
have a time. `EndedRunsCanBeContinued` is about the last write of a run, and says
what is left of "an unfinished job can be continued", which the violation runs
refute: whoever asked for it, a run that ends by its own has left `failed`,
`canceled`, or nothing to do. No passing run has `NoDuplicateMemo` and
`RunningJobsAreLive`: a cancellation, a crash or a store fault breaks either, a lost
reply or another job at work on the document the first (`ConsoleDuplicate`, section
7). That nothing else does is proved (section 6).

`Adapter` is one run of two models side by side: a behaviour either makes and
runs jobs or fetches a page (`AdapterInit`); the two share the adapter's code
and no state.

## 4. Bounds, and why they are enough

* One job of two documents with two workers is the least in which a worker can
  take an item while another fails one, and the dispatcher can wait with an
  item in hand. No run of the engine has two jobs, which are too many states;
  all of the engine's safety properties are proved for every number of them
  (section 6), among them those of jobs that meet in a document or in the
  registry.
* `ConsoleJobs` has one worker for two items, so that the dispatcher waits with an
  item while the worker has the other when the cancellation comes.
* `MaxRuns` (2 or 3 runners of a job, the one that creation starts included): a
  second run is the least to meet the first one's rows, a third follows a run
  that was itself a retry.
* `MaxLists` = 1 list read and not yet displayed, which may be as old as it likes.
  `MaxRequests` = 1 in `ConsoleJobs`: with two runs only one resume or retry can
  follow the creation, and a run that is canceled is canceled alike whichever click
  the request came from. It is 2 in the runs with counterexamples.
* `MaxEdits` = 2: an edit between two runs, and one between fetch and mapping.
* `MaxCrashes` = 1: a restart leaves only the rows, so a second one starts from
  a state that one crash could have left.
* `MaxAttempts` is 3 in the code; 1 and 2 differ in whether an attempt follows
  another, and a lost reply is repeated by a later run as well.
* `Capacity` 1 (3 in `StreamStale`, where nothing may be dropped) in the place of
  32 and `WireRoom` 1: three changes then overfill a stream that is not read. `MaxStreams` = 2: one reconnection.
* `Adapter`, jobs: three ids in every hierarchy, once with one and once with two
  databases; limits below and above their number, `PageSize` 2 (100 in the
  code), so that a listing takes two to three requests and more after edits;
  two edits, moves or removals, the least that make a cycle among what was listed (one
  is enough for a page of results with nothing new, or for a database that is gone). Versions on both sides of
  0.29.1 with one, two and three parts; limits of a request and of Memos with
  and without a value. Two more runs of a stored job, the least in which its
  limit could differ between two runs. They start from jobs that exist
  (`StoredInit`), with a single item, because what happens to a stored job no
  longer depends on how it was found.
* `Adapter`, pages: every page of up to three blocks in any nesting, answers of
  one or two results, two edits: a list is read in two answers with a change in
  between, and a block moves from one list to another that is read later.
  `ContentIsWrittenInOrder` tries each of nine types for each block of the
  pages that nobody edits; those have every shape there is, and edited pages
  would only repeat them. Three blocks make one table with a row in a list, or
  two levels below a third. `MaxTries` 2 (3 in the code).
* `Attachments`: two preparations by two workers, of documents with none, one,
  two attachments and one block twice; a file at the limit, one byte over, and
  one far over it; two attempts of a request; one crash.
* `AllowCancel`, `StoreMayFail`, `RepliesMayBeLost` and `TimesMayBeUnreadable`
  switch parts of the environment off; they are part of what a run assumes. Only
  `EngineContent` has times that cannot be read: nothing else depends on them. `EngineWorkers` has no
  spontaneous store faults: with them a lost item write makes
  `FailedRunNamesItsItems` fail, as it must.
* Symmetry is used in the runs that check safety only.

Deadlock checking is off everywhere: bounded clients, finite numbers of calls
and closed streams let each of the models come to rest. That nothing hangs is
stated by the liveness properties instead.

## 5. Fairness

Weak fairness of each runner, worker, registry call and stream handler: Go
schedules goroutines that can run, SQLite statements return, and every remote
request ends by its timeout (`requestTimeout`), which in the model is an answer
or an error. A wait for a mutex is the only place where another goroutine can
be preferred for ever; Go's mutexes hand over to a starving waiter after a
millisecond, and in `RunnerRegistry` the calls are finite, so that weak
fairness suffices. The adapter with the handler that called it is one such process
(`AdapterGoesOn`): its requests are answered or refused, and nothing relies on
their failing. Edits are finite, and so are attempts. In `Attachments` the run
assumes of a worker only that it goes on once it is canceled (`StopStep`), and
not even then that a delay ends: `Retry-After` may be as long as Notion likes.
`EveryPreparationEnds` has the fairness of all steps as its antecedent. Clients,
edits, crashes, reconnections and the browser are not fair. `FinalEventIsShown` has the browser's fairness as its antecedent, and
only `AwakeSpec` (run `StreamStale`) assumes it.

## 6. What is proved

TLAPS proves these for every value of the constants, from the assumptions
`ConstantsAssumption` and `NoneAssumption` (`ImportEngine`), `ConsoleAssumption`
(`Console`), `CallsAssumption`
(`RunnerRegistry`), `StreamAssumption` (`EventStream`),
`AttachmentsAssumption` (`Attachments`), `DiscoveryAssumption`,
`RequestAssumption` and `PageAssumption` (`NotionDiscovery`, `JobRequest`,
`PageContent`), which TLC evaluates in the runs. Where a theorem has a further condition it is in its statement, and below.

* `TypeCorrect` (`Spec => []TypeOK`). `TypeOK` contains `WorkerOK`: which
  position a worker has determines what it carries (an item while it holds
  one, the document once fetched, a result once there is one). That part is
  needed: without it a step that reads `doc` or `item` could leave the types.
  The lemmas go from assignments (`SetRunType`, `UpdateItemType`) to handlers
  to `NextType`, one case per action.
* `RecordedMemosAlwaysExist` (`Spec => []RecordedMemosExist`). Not inductive
  alone: that an item may be recorded depends on what its worker carries. The
  strengthening `RecordedInv` adds that a worker at `update`, `map` or `finish`
  carries a memo of its document, and that the mapping is there at `finish`.
  It survives other jobs' steps because memos are only added (`MemosKept`) and
  mappings are replaced but never removed (`MappingStep`), which is also why it
  survives a crash between the two statements.
* `EngineImplementsSlots` (`Spec => RunnersTakeSlots`). Every step leaves the
  slots alone or is a start, cancel, end or stop of one (`StepRuns`); the
  auxiliary invariant is that a job without runner keeps no cancellation.
* `ItemsHaveOneWorker`, `CompletedItemsAlwaysStay`, `DoneJobsAreSettled`
  (`ItemsProofs`, which extends `ImportEngineProofs`), all from `ItemsInv`, a
  conjunction over the jobs. An item that a worker holds is open, no longer to
  be handed out and nobody else's (`HeldOK`); what the runner has still to hand
  out is open, what a retry is about to reset has failed (`TodoOK`); while no
  error is counted and nobody cancels, every open item is still to be handed out
  or in work, so none is left when the verdict is done (`SettledOK`); a job
  without a row has neither runner nor items (`FreshOK`). `OneWorkerPerItem` is
  part of `HeldOK`. It also gives the second: a worker writes no row but that
  of the item it holds, and that is not a completed one. The steps of a worker
  are first shown to be one of three (`WorkerDoes`: it goes on with its item,
  gives it up because its run is canceled, or is done with it), and the
  invariant is shown for these; a step of another job leaves all that `JobOK`
  reads alone (`Untouched`).
* `FailedRunsAlwaysNameItems` (`ItemsProofs`), if `StoreMayFail` is off. While
  the run is not canceled, no failure is counted without an item recorded as
  failed, and every open item is still to be handed out or with a worker
  (`OutcomeOK`): `failItem` uses the run's context, and with a context that is
  not canceled no statement is lost. A run that is canceled before the end does
  not get to the verdict `failed`, since the context is tested first
  (`importer.go:149`); one that is canceled after the test has its items
  recorded. With the store failing by itself TLC finds the record lost.
* `UnchangedMemosAlwaysCurrent` (`ItemsProofs`): `Spec /\ []ShareNoDocument`
  implies `[]UnchangedMemosAreCurrent`. `ShareNoDocument`, that no two jobs have
  workers on one document at once, is a condition on the users: the engine sees
  to it within a job and not between jobs, and two overwriting jobs do break the
  property (section 7). It is weaker than having one job: any number may import a
  document one after the other, or after a crash. The invariant `MemoInv` says
  that a mapping is of a version its document has had, and its memo has that content
  if it is of the present one (`MappingOK`); that what a worker fetched is such a
  version or has no time, and has the present content if the present version is
  mapped (`MappedNow`); that a memo is updated only if its mapping is not of the
  present version, so that no update spoils a mapping that is; and that at `map` the
  memo it wrote has what it fetched (`CarriesOK`). A document fetched without a time
  and skipped writes nothing. A mapping without a time is left out of the property
  (section 7). It needs neither that
  requests succeed nor that answers arrive: an update whose answer is lost leaves
  a memo with newer content than its mapping, which then is not of the present
  version.
* `DocumentsHaveOneMemo` (`ItemsProofs`): `NoDuplicateMemo` under the same
  condition and with `AllowCancel`, `StoreMayFail`, `RepliesMayBeLost` off and no
  crash. Every memo is then mapped or carried by the worker that is about to map
  it (`NamedInv`), so a worker that finds no mapping creates the first memo. TLC
  finds a second memo as soon as any one of the five conditions is dropped.
* `RunningJobsAreAlwaysLive` (`ConsoleProofs`), with cancellation, store faults
  and crashes off: the runner that wrote `running` ends only through a final
  status. It is proved of `Spec`, whose clients may call the API in any order,
  and so of the console.
* `EndedRunsCanAlwaysBeContinued` (`ConsoleProofs`), if `StoreMayFail` is off, with
  cancellations and crashes. The last part of `OutcomeOK` is what it needs: a run
  whose verdict is `failed` or `done` has left nothing open, so a cancellation that
  takes that write away leaves nothing to continue; `canceled` and a failed load
  are written with a context of their own (`VerdictContinues`). The rest is that
  only the runner itself comes from these positions to its return
  (`EndedRunsStep`). It is proved of `Spec`, for any client, and holds of the console
  by `ConsoleIsEngine`: the console asks for nothing the API does not have.
* `ChecksAlwaysDecide` and `JobsAlwaysKeepTheirLimit` (`RequestProofs`), both from
  `RequestInv`: what was heard goes with where the request is (`CheckingOK`), a
  request has a job exactly when it is past the store (`ExpandingOK`), and a job
  with a limit is run with nothing else (`LimitOK`). The lemma
  `ComparesVersions` is about `compareVersion` itself: the first part that differs
  decides as the property says in its own words.
* `ListingsAreAlwaysComplete` (`RequestProofs`). The invariant `ListingOK` says of
  a listing under way that what nobody edited and is not listed yet comes in the
  search at the cursor or after it. An answer is what stands between two
  positions of the search's results (`AnswerIsAPart`), so it lists what is
  there and hands the rest to the next cursor; an edit moves a page to the
  front and leaves the order of the others, the one at the cursor included, as
  it was with respect to those not edited.
* `ExpansionsAreAlwaysExact` (`RequestProofs`). `ExpansionOK` states the property
  for the part of the selection that has been looked at (`LookedAt`), and for the
  database that is being queried that its pages up to the cursor have been read. A
  database among what is expanded was gone when it was looked up, and stays so;
  what is gone was touched (`GoneOK`), so that the answers, which leave it out, still
  have everything that stood still.
  `JobsAreAlwaysWhatWasSelected` adds `StoredOK`, that a job has the items that
  were expanded for it, with `ExpandingOK`, that nothing is expanded once there
  is a job.
* `RequestTypesAlwaysHold` (`RequestProofs`). That a stored job has items is not
  inductive as stated: a resumed job must keep them while it is checked again
  (`ItemsOK`).
* The four about pages need what the folds of `NotionDiscovery` do to sequences of any
  length (`AddUnseenResult`, `AddRefsResult`, `AddPagesResult`). The induction is
  one over sets: a set of numbers has a least one (`LeastNumber`, from
  `NatLessThanWellFounded` and `WFMin`), so a set that has 0 and what follows each
  of its members has all (`UpTo`). `FoldLeft` is a recursive function over sets of
  positions, chosen by `CHOOSE`; `FoldExists` shows that there is one, and the
  `...Steps` lemmas unfold it position by position. `SearchResults` and
  `DatabaseResults` are stated as the sequences that are in order, not by a sort,
  so that the order is all that the proofs know of them.
* `ListingsAreShownByHierarchy` (`RequestProofs`). The proof is about the line of
  what is shown followed by the calls that are to come, of which it keeps
  `TreesOK`: a child is after its parent with nothing in between that is not
  beneath the parent as well, and what is side by side is sorted. A call that
  shows a document puts its sorted children right after it (`NextCallGrowsTrees`); a
  document that is beneath a root has one parent, so no call for it is there
  yet. `EnoughCalls` is enough because every call either adds a document or is
  one call less (`AppendTreesAppends`). The second pass, over what no root
  leads to, leaves the line as it is and adds the rest (`ShownOnce`). `sortGroup` is
  the sequence that is in order; that there is one for every group, `Before` being
  a total order, is `GroupsAreSorted`.
* `DocumentsAreNeverOlder` (`PageProofs`). The invariant `PageInv` says of the calls
  on the stack, and of the document, what they have of a list that is *old*:
  neither it nor a list it is in was changed since the edit time was read. A
  call has the first blocks of such a list, up to the one under way, the results
  not yet looked at, and the cursor, in this order (`HasRead`), and all that it
  has below is complete (`IsFull`). An answer continues it (`AnsweredCall`, from
  `AnswerIsAPart`); a return puts a block and a complete list between what the
  caller has and what it will read (`JoinedIsTrees`, `JoinedIsFull`); an edit makes
  lists old no longer and leaves the others (`OlderStack`). The edit time is read
  first: with the time read last, a list that was edited after it was read would
  count as old, and TLC finds the counterexample (`MutantReturn`).
* `ContentIsAlwaysWrittenInOrder` (`PageProofs`), which has the property of every
  document, those of pages that were edited meanwhile included. The proof shows
  more than the property asks: exactly the blocks in lists, quotes and toggles, and
  rows of tables there, are written (`ConvertWrites`). From `PageInv`
  only the preorder is needed (`HasLevels`). The rest is about `Convert`: what is
  from a position on in its list is the block, what is inside it, and what comes
  after (`ListFromIs`), and what is written of the three together is what is written
  of each, in this order (`ThenWrites`, `BlockWrites`). The recursive functions
  have values because these depend on later positions only (`LaterFirst`), and
  `Rendered` and `RenderWrites` go from the last position to the first
  (`FromTheLast`).
* `AdapterTypesAlwaysHold` (`PageProofs`): `AdapterTypeOK` of `AdapterSpec`, from
  `PageInv` and the invariants of `RequestProofs`.
* `RegistryInvariant`, `RunsExcludeEachOther`, `RegistryImplementsSlots`
  (`RunnerRegistryProofs`). The inductive invariant is `RegistryInv`: positions
  inside the critical sections hold the mutex, so the entry a call read is
  still the map's when it decides, so the map holds exactly the live runs.
  `OneRunPerJob` follows from the last. For the refinement, a cancel function
  read from the map belongs to a run of that job that is live or gone, so
  calling it is `Cancel` or a stutter.
* `ChannelsStayOpen` (`EventStreamProofs`): a channel that is closed belongs to
  a handler that is past its `Unsubscribe`, and only that one closes it.
* `StreamTypeCorrect` and `NothingEverAfterTheEnd` (`EventStreamProofs`). The
  property speaks of what is on the way to a browser; the strengthening
  `OrderInv` splits it into an order within the network, one within the channel
  and one between them, and adds why the next event fits at the end: whatever is
  in either was published, a change is published once, and the statement of the
  final status is tried only after those of all items were, and their events
  published. None of it asks whether a statement succeeded. The types say that every
  list on its way, and the one shown, is of what the store has.
* `AttachmentsTypeCorrect` (`AttachmentsProofs`). `AttachmentsTypeOK` says at
  which positions a worker has a current attachment and a name to record.
* `RecordedFilesAlwaysExist` and `BodiesAreAlwaysComplete`
  (`AttachmentsProofs`), both from `LinksInv`: every link a worker has is of its
  own block's file, so is the file it is about to record, and the blocks dealt
  with differ. It is inductive because files are only added (`FilesKept`), and
  survives other workers because a mapping, once good, is replaced only by a
  good one. That no attachment is linked twice follows from the blocks: two
  blocks cannot have one file.
* `UploadsAreAlwaysWhole` (`AttachmentsProofs`), from `SizesInv`: a worker at
  `create` or in the delay before it has read all of its file. The lemma about
  `readBounded` is where the one byte past the limit is needed.

Only model-checked are the liveness properties (`EveryRunEnds`,
`CreatedJobsFinish`, `EveryCallReturns`, `EveryChangeIsPublished`,
`LeaversAreForgotten`, `FinalEventIsShown`, `PreparationsEnd`, `DiscoveryEnds`,
`RequestEnds`, `FetchEnds`): fairness and `ENABLED` are beyond TLAPS here. Every
safety property that a passing run checks is proved.

## 7. Where code and documentation disagree

Each is a run that TLC ends with a counterexample (`findings` in
`PROJECT.json` quotes the documentation).

* `ConsoleRestart`: after a restart an interrupted job still reads `running` (or
  `pending`); the console offers no resume for it, and a job that reads
  `running` keeps every other import from starting.
* `ConsoleRetry`: resume of a failed job with failed items runs over nothing and
  marks the job done; the items can no longer be retried.
* `ConsoleDuplicate`: a cancellation between the creation of a memo and its
  mapping; the resumed item is created again.
* `StreamStale`: requests for the list of jobs overtake one another, and the
  console, which has closed its stream on the final event, keeps showing the
  job as unfinished. A final event that was published before the stream was
  subscribed leaves the list as stale.
* `AdapterUnsupported`: the children of paragraphs and headings are fetched and not
  written (`converter.go:70-77`); an unsupported block among them has neither warning
  nor placeholder, and a hosted file there is not uploaded.

Seen in the models and not given a run: a cancellation between the last test of
the context (`importer.go:149`) and the write of `done` or `failed` loses that
write, whose error is ignored; `job_done` or `job_failed` is published all the same,
the console closes its stream on it, and the list reads `running` for ever, as
after a restart. `FinalEventIsShown` therefore promises what the store has, and
`EndedRunsCanBeContinued` that nothing is then left to import. A cancellation while
`running` is being written (`importer.go:100`) ends the run, and the job reads
`running` or what it read before. That may be `done`, with no button to go on: a
retry takes its time between the click and `startRunner` (`job_handler.go:188-214`), a
resume clicked after it runs over nothing and marks the job done, the retry turns
the failed item back to pending, and a cancel, asked for when the list still read
`running`, arrives before its run has written `running`. No crash and no store fault
is needed, only three requests and two lists on their way; `EndedRunsCanBeContinued`
therefore speaks of runs that come to their last write. An edit time that cannot be read is stored as
zero, after which equal hashes alone decide (`content.go:51`): if an update reached
Memos but not the mapping, and the old content comes back, the document counts as
unchanged although its memo has the other content. A database that was deleted or
unshared after it was listed becomes an item, whose fetch then fails
(`adapter.go:315`). Two overwriting jobs on one document update the memo in one
order and the mapping in the other (`importer.go:251, 270`), so that the document
counts as unchanged although its memo is out of date. `failItem` canceled between
the test and its write leaves an item `running` in a canceled job (the next resume
takes it); a cancellation between the status `running` and the query of the items
marks the job `failed`, not `canceled`; a second import started while the list
shows the first as `pending` creates documents twice; a retry sent to the API
(not by the console) between the commit of a new job and its start takes the
slot, finds nothing and leaves the job `pending`. Two workers with one
attachment that neither finds in the table upload it twice, and both links are
good; a file that is replaced in its block is not uploaded again, because the
mapping is kept by block (`attachments.go:33`). A list of blocks that changes between
two of its answers may be read with a block missing or twice; the next import
repairs it, since the content has another hash then. Documents that were moved
during a listing may read as each other's parents, and what hangs below such a
cycle is shown after all others but not always under its parent
(`adapter.go:195-204`), which is why `ShownByHierarchy` speaks of the order below
the roots.

## 8. What is left out

* `optionsErr` (`importer.go:48, 96, 165`): the handlers refuse such options
  before they make an engine. A nil document (`importer.go:199`): the adapter
  returns none. An empty name in the answer to a creation.
* In `ImportEngine`, `prepareContent` and the fetch of a document are one step
  each, which succeeds or fails; `Attachments` and `PageContent` have their
  steps. A fetched document there is one state of its page: as
  `DocumentIsNotOlderThanItsTime` shows, the adapter reads the edit time first
  (`adapter.go:209`), so an edit in between gives at worst new content with an
  old time. The hash of the content is compared before the time (`content.go:48`):
  the content fetched next, if it differs from what was recorded, is written
  whatever the times are.
* Files do not change in `Attachments`, and a download is of the file the block
  has. Names and types of files.
* Notion answers whole: an answer of more than 1 MiB, which is cut
  (`client.go:176`) and then refused, is one of the errors of `Abort`; that it
  repeats a cursor for ever, or answers with nothing at all, is excluded.
* How `findContentLengthLimit` searches an answer; how long a delay is.
* A request that Memos receives after the client has given it up: an attempt is
  applied, if at all, in the step in which it ends.
* Requests that are refused (validation, version, unknown job): they change
  nothing. Requests for one job's detail, and requests of the console that
  fail: the list then stays as it was, which a stale list covers.
* Titles, warnings, error texts, times of a job; the rendering of blocks; the
  texts of statements and migrations; configuration, session, static files.
* The components with status `not_modelled` in `PROJECT.json`, each with its
  reason.

## 9. The plan

In this order, each with its runs and, where they are within reach, proofs:

1. done: `ImportEngine`, `Console`, `RunnerSlots`, `RunnerRegistry`,
   `EventStream`, `NotionDiscovery`, `DocumentOrder`, `JobRequest`, `PageContent`,
   `Converter`, `NotionAdapter`, `Attachments`, with their runs; the theorems of section 6.
2. Proofs: that `PrepareContent` of the engine is what `Attachments` does to one
   document, and which of the events of a job reach a stream that is never full.
3. A transport of its own for both clients, with requests that are served after
   the client has given them up, refining `MemosReply`.

To check a run: `tlc -config EngineWorkers.cfg MCImportEngine.tla`. To check a
proof: `tlapm ImportEngineProofs.tla` (some minutes).
