---------------------------- MODULE ImportEngine ----------------------------
(***************************************************************************)
(* The import engine (internal/importer/importer.go) at work for several   *)
(* jobs, over the SQLite store, the Notion source and the Memos server.    *)
(*                                                                         *)
(* One action is one statement against the store, one request to a remote  *)
(* service, one channel operation, or one API call: those are the points   *)
(* at which goroutines interleave and at which the process can stop.  A    *)
(* test of ctx.Err() that directly follows the answer of a remote service  *)
(* belongs to the step of that answer.                                     *)
(*                                                                         *)
(* Attachment upload (prepareContent) is one step here: what it writes,    *)
(* attachment mappings, is read by nothing else in this module.            *)
(*                                                                         *)
(* Operators named Mutant... are versions of the operator after them with  *)
(* a bug that a change of the code could bring; no specification uses them. *)
(* Putting one in the place of its original violates a property.           *)
(***************************************************************************)
EXTENDS Naturals, Sequences

CONSTANTS
  Jobs,          \* job identifiers that may be created
  Docs,          \* source documents; an item of a job is one of them
  Workers,       \* the worker goroutines of a run (options.WorkerCount)
  Contents,      \* rendered contents (with attachments), told apart by hash
  None,          \* absence: a nil mapping, an idle worker's item
  MaxEdits,      \* bound: times a document is edited at the source
  MaxRuns,       \* bound: resume and retry start no runner from this many on
  MaxCrashes,    \* bound: times the process stops and is started again
  MaxAttempts,   \* attempts of one Memos request (maxRetries + 1)
  AllowCancel,   \* whether clients cancel
  StoreMayFail,  \* whether a store statement may fail by itself (disk, lock)
  RepliesMayBeLost, \* whether Memos may apply a request and not say so
  TimesMayBeUnreadable \* whether Notion may send edit times that do not parse

ASSUME ConstantsAssumption ==
  /\ Workers # {}
  /\ {MaxEdits, MaxRuns, MaxCrashes} \subseteq Nat
  /\ MaxAttempts \in Nat \ {0}
  /\ {AllowCancel, StoreMayFail, RepliesMayBeLost, TimesMayBeUnreadable} \subseteq BOOLEAN

VARIABLES
  \* Durable: the SQLite store.
  jobStatus,     \* import_job.status, "none" before the row exists
  strategy,      \* the strategy in import_job.options
  item,          \* import_item: status and memo_id, per job and document
  docMap,        \* document_mapping, None when there is no row
  \* External: the Memos server and the source.
  memos,         \* memos created so far; a memo's name is its position
  src,           \* current content and last edit time of each document
  \* Volatile: the server process.
  creating,      \* jobs whose createJob handler has yet to start the runner
  run,           \* the run of each job: its position in RunJob/RetryFailed
  worker,        \* the worker goroutines of each run: position in processItem
  \* Bounds.
  runs,          \* runners started per job
  crashes        \* restarts so far

durable == <<jobStatus, strategy, item, docMap>>
external == <<memos, src>>
bounds == <<runs, crashes>>
vars == <<durable, external, creating, run, worker, bounds>>

-----------------------------------------------------------------------------

JobStatuses == {"none", "pending", "running", "done", "failed", "canceled"}
Completed == {"imported", "overwritten", "skipped"}
Open == {"pending", "running"}
ItemStatuses == Completed \cup Open \cup {"none", "failed"}
Strategies == {"skip", "overwrite"}

\* The zero time: of a document whose edit time could not be read.
NoTime == 0

\* A document at the source and as fetched, a memo, a row of document_mapping, a
\* row of import_item.
Source == [content : Contents, at : Nat \ {NoTime}]
Document == [content : Contents, at : Nat]
Memo == [doc : Docs, content : Contents]
Mapping == [memo : Nat, content : Contents, at : Nat]
Item == [status : ItemStatuses, memo : Nat]

ASSUME NoneAssumption == None \notin Docs /\ None \notin Document /\ None \notin Mapping

\* The empty memo name.
NoMemo == 0

\* Positions in RunJob and RetryFailed; "none" when no runner is registered.
Phases == {"none", "failedItems", "reset", "init", "load", "loadFailed",
           "dispatch", "drain", "drainCanceled", "writeCanceled",
           "writeFailed", "writeDone", "return"}
Run == [phase : Phases, canceled : BOOLEAN, todo : SUBSET Docs, failures : Nat]
NoRun == [phase |-> "none", canceled |-> FALSE, todo |-> {}, failures |-> 0]

\* Positions in processItem.  From "prepare" on the document is fetched.
Fetched == {"prepare", "lookup", "create", "update", "map", "finish"}
Holding == Fetched \cup {"taken", "mark", "fetch", "fail", "cancel"}
WorkerPCs == Holding \cup {"idle", "exited"}
Worker == [pc : WorkerPCs, item : Docs \cup {None}, doc : Document \cup {None},
           memo : Nat, result : ItemStatuses, attempt : Nat]
IdleWorker == [pc |-> "idle", item |-> None, doc |-> None, memo |-> NoMemo,
               result |-> "none", attempt |-> 1]

-----------------------------------------------------------------------------

\* What one store statement does when its context is, or is not, canceled.
\* A statement whose context is canceled while it executes reports the
\* cancellation although it may have been applied.
Exec(canceled) ==
  IF canceled THEN {"aborted", "appliedAborted"}
  ELSE {"ok"} \cup (IF StoreMayFail THEN {"aborted"} ELSE {})

\* A transaction and a query either succeed or leave everything as it was.
Tx(canceled) == Exec(canceled) \ {"appliedAborted"}

Applied(outcome) == outcome \in {"ok", "appliedAborted"}

\* How one attempt of a Memos request ends: whether the server applied it
\* and what the client is told.  "retryable" is a status 429 or 5xx.
MemosReply ==
  {r \in [applied : BOOLEAN, result : {"ok", "retryable", "error"}] :
     IF r.result = "ok" THEN r.applied ELSE r.applied => RepliesMayBeLost}

\* content.go:51-54 left out: the hash alone decides.
MutantDocumentUnchanged(mapping, doc) == mapping.content = doc.content

\* The mapping says that the document, as fetched, was imported already: by the
\* times as well, if both are known.
documentUnchanged(mapping, doc) ==
  /\ mapping.content = doc.content
  /\ NoTime \in {doc.at, mapping.at} \/ ~(doc.at > mapping.at)

\* A query that excludes failed items rather than selecting open ones.
MutantOpenItems(j) == {d \in Docs : item[j][d].status \notin {"none", "failed"}}

OpenItems(j) == {d \in Docs : item[j][d].status \in Open}
FailedItems(j) == {d \in Docs : item[j][d].status = "failed"}

Canceled(j) == run[j].canceled

SetRun(j, r) == run' = [run EXCEPT ![j] = r]
SetPhase(j, phase) == SetRun(j, [run[j] EXCEPT !.phase = phase])
SetWorker(j, w, r) == worker' = [worker EXCEPT ![j][w] = r]
GoTo(j, w, pc) == SetWorker(j, w, [worker[j][w] EXCEPT !.pc = pc])
ResetWorkers(j) == worker' = [worker EXCEPT ![j] = [w \in Workers |-> IdleWorker]]

\* The statements that write a row of import_item and a job's status.
UpdateItem(j, d, outcome, row) ==
  item' = IF Applied(outcome) THEN [item EXCEPT ![j][d] = row] ELSE item
UpdateJobStatus(j, outcome, status) ==
  jobStatus' = IF Applied(outcome) THEN [jobStatus EXCEPT ![j] = status] ELSE jobStatus

\* After a remote error the worker tests ctx.Err().
ErrorPC(j) == IF Canceled(j) THEN "cancel" ELSE "fail"

-----------------------------------------------------------------------------

Init ==
  /\ jobStatus = [j \in Jobs |-> "none"]
  /\ strategy \in [Jobs -> Strategies]
  /\ item = [j \in Jobs |-> [d \in Docs |-> [status |-> "none", memo |-> NoMemo]]]
  /\ docMap = [d \in Docs |-> None]
  /\ memos = << >>
  /\ src \in [Docs -> [content : Contents, at : {1}]]
  /\ creating = {}
  /\ run = [j \in Jobs |-> NoRun]
  /\ worker = [j \in Jobs |-> [w \in Workers |-> IdleWorker]]
  /\ runs = [j \in Jobs |-> 0]
  /\ crashes = 0

-----------------------------------------------------------------------------
(* Clients of the API.                                                     *)

\* POST /api/jobs: the job and its items are inserted in one transaction ...
CreateJob(j, ds) ==
  /\ jobStatus[j] = "none"
  /\ ds # {}
  /\ jobStatus' = [jobStatus EXCEPT ![j] = "pending"]
  /\ item' = [item EXCEPT ![j] = [d \in Docs |->
       [status |-> IF d \in ds THEN "pending" ELSE "none", memo |-> NoMemo]]]
  /\ creating' = creating \cup {j}
  /\ UNCHANGED <<strategy, docMap, external, run, worker, bounds>>

\* router.go:116-120 left out.
MutantStartRunner(j, phase) ==
  /\ SetRun(j, [NoRun EXCEPT !.phase = phase])
  /\ runs' = [runs EXCEPT ![j] = @ + 1]
  /\ UNCHANGED <<durable, external, worker, crashes>>

\* startRunner: registers the runner unless the job has one.
StartRunner(j, phase) ==
  /\ run[j].phase = "none"
  /\ SetRun(j, [NoRun EXCEPT !.phase = phase])
  /\ runs' = [runs EXCEPT ![j] = @ + 1]
  /\ UNCHANGED <<durable, external, worker, crashes>>

\* ... and then the handler starts the runner, or answers 409 when another
\* request has started one in between.
StartCreated(j) ==
  /\ j \in creating
  /\ creating' = creating \ {j}
  /\ \/ StartRunner(j, "init")
     \/ /\ run[j].phase # "none"
        /\ UNCHANGED <<durable, external, run, worker, bounds>>

\* POST /api/jobs/{id}/resume, accepted whatever the status of the job.
Resume(j) ==
  /\ jobStatus[j] # "none"
  /\ runs[j] < MaxRuns
  /\ StartRunner(j, "init")
  /\ UNCHANGED creating

\* POST /api/jobs/{id}/retry, accepted whatever the status of the job.
Retry(j) ==
  /\ jobStatus[j] # "none"
  /\ runs[j] < MaxRuns
  /\ StartRunner(j, "failedItems")
  /\ UNCHANGED creating

\* POST /api/jobs/{id}/cancel cancels the context of the registered runner.
Cancel(j) ==
  /\ AllowCancel
  /\ run[j].phase # "none"
  /\ SetRun(j, [run[j] EXCEPT !.canceled = TRUE])
  /\ UNCHANGED <<durable, external, creating, worker, bounds>>

-----------------------------------------------------------------------------
(* The runner: RetryFailed and RunJob.                                     *)

ReadFailed(j) ==
  /\ run[j].phase = "failedItems"
  /\ \E outcome \in Tx(Canceled(j)) :
       IF outcome = "ok" /\ FailedItems(j) # {}
       THEN SetRun(j, [run[j] EXCEPT !.phase = "reset", !.todo = FailedItems(j)])
       ELSE SetPhase(j, "return")
  /\ UNCHANGED <<durable, external, creating, worker, bounds>>

ResetFailed(j) ==
  /\ run[j].phase = "reset"
  /\ \E outcome \in Tx(Canceled(j)) :
       IF outcome = "ok"
       THEN /\ item' = [item EXCEPT ![j] = [d \in Docs |->
                 IF d \in run[j].todo THEN [item[j][d] EXCEPT !.status = "pending"]
                 ELSE item[j][d]]]
            /\ SetRun(j, [run[j] EXCEPT !.phase = "init", !.todo = {}])
       ELSE /\ SetPhase(j, "return")
            /\ UNCHANGED item
  /\ UNCHANGED <<jobStatus, strategy, docMap, external, creating, worker, bounds>>

MarkRunning(j) ==
  /\ run[j].phase = "init"
  /\ \E outcome \in Exec(Canceled(j)) :
       /\ UpdateJobStatus(j, outcome, "running")
       /\ SetPhase(j, IF outcome = "ok" THEN "load" ELSE "return")
  /\ UNCHANGED <<strategy, item, docMap, external, creating, worker, bounds>>

\* PendingItems, then the workers are started.
LoadItems(j) ==
  /\ run[j].phase = "load"
  /\ \E outcome \in Tx(Canceled(j)) :
       IF outcome = "ok"
       THEN /\ SetRun(j, [run[j] EXCEPT !.phase = "dispatch", !.todo = OpenItems(j)])
            /\ ResetWorkers(j)
       ELSE /\ SetPhase(j, "loadFailed")
            /\ UNCHANGED worker
  /\ UNCHANGED <<durable, external, creating, bounds>>

\* The dispatcher sends without advancing.
MutantDispatch(j, w, d) ==
  /\ run[j].phase = "dispatch"
  /\ d \in run[j].todo
  /\ worker[j][w].pc = "idle"
  /\ SetRun(j, run[j])
  /\ SetWorker(j, w, [IdleWorker EXCEPT !.pc = "taken", !.item = d])
  /\ UNCHANGED <<durable, external, creating, bounds>>

\* The unbuffered send: the item goes to a worker that is receiving.
Dispatch(j, w, d) ==
  /\ run[j].phase = "dispatch"
  /\ d \in run[j].todo
  /\ worker[j][w].pc = "idle"
  /\ SetRun(j, [run[j] EXCEPT !.todo = @ \ {d}])
  /\ SetWorker(j, w, [IdleWorker EXCEPT !.pc = "taken", !.item = d])
  /\ UNCHANGED <<durable, external, creating, bounds>>

\* A plain send in the place of the select.
MutantStopDispatch(j) == FALSE

\* The select of the dispatcher sees ctx.Done(): the channel is closed early.
StopDispatch(j) ==
  /\ run[j].phase = "dispatch"
  /\ run[j].todo # {}
  /\ Canceled(j)
  /\ SetPhase(j, "drainCanceled")
  /\ UNCHANGED <<durable, external, creating, worker, bounds>>

\* No close(jobs): the workers go on receiving and wg.Wait() never returns.
MutantCloseQueue(j) == FALSE

\* The channel is closed: a worker that is receiving returns.
CloseQueue(j) ==
  /\ run[j].phase = "dispatch"
  /\ run[j].todo = {}
  /\ SetPhase(j, "drain")
  /\ UNCHANGED <<durable, external, creating, worker, bounds>>

\* No wg.Wait().
MutantDrained(j) == TRUE

\* wg.Wait() returns; then the run's outcome is decided.
Drained(j) == \A w \in Workers : worker[j][w].pc \in {"idle", "exited"}

\* importer.go:149-153 left out.
MutantVerdict(j) ==
  IF run[j].phase = "drainCanceled" THEN "writeCanceled"
  ELSE IF run[j].failures > 0 THEN "writeFailed" ELSE "writeDone"

Verdict(j) ==
  IF run[j].phase = "drainCanceled" \/ Canceled(j) THEN "writeCanceled"
  ELSE IF run[j].failures > 0 THEN "writeFailed" ELSE "writeDone"

Drain(j) ==
  /\ run[j].phase \in {"drain", "drainCanceled"}
  /\ Drained(j)
  /\ SetPhase(j, Verdict(j))
  /\ UNCHANGED <<durable, external, creating, worker, bounds>>

\* The last write of a run: canceled (and a failed load) with a fresh
\* context, failed and done with the run's.  Its error is ignored.
WriteVerdict(j, phase, status, canceled) ==
  /\ run[j].phase = phase
  /\ \E outcome \in Exec(canceled) : UpdateJobStatus(j, outcome, status)
  /\ SetPhase(j, "return")
  /\ UNCHANGED <<strategy, item, docMap, external, creating, worker, bounds>>

\* The run's context in the place of context.Background().
MutantWriteCanceled(j) == WriteVerdict(j, "writeCanceled", "canceled", Canceled(j))

WriteLoadFailed(j) == WriteVerdict(j, "loadFailed", "failed", FALSE)
WriteCanceled(j) == WriteVerdict(j, "writeCanceled", "canceled", FALSE)
WriteFailed(j) == WriteVerdict(j, "writeFailed", "failed", Canceled(j))
WriteDone(j) == WriteVerdict(j, "writeDone", "done", Canceled(j))

\* The deferred delete of startRunner's goroutine.
Unregister(j) ==
  /\ run[j].phase = "return"
  /\ SetRun(j, NoRun)
  /\ ResetWorkers(j)
  /\ UNCHANGED <<durable, external, creating, bounds>>

-----------------------------------------------------------------------------
(* The workers: processItem.                                               *)

\* A worker that finds the context canceled returns and leaves its item be.
Begin(j, w) ==
  /\ worker[j][w].pc = "taken"
  /\ SetWorker(j, w, IF Canceled(j) THEN [IdleWorker EXCEPT !.pc = "exited"]
                     ELSE [worker[j][w] EXCEPT !.pc = "mark"])
  /\ UNCHANGED <<durable, external, creating, run, bounds>>

\* An item keeps its memo_id while it is not completed.
WriteStatus(j, w, outcome, status) ==
  LET d == worker[j][w].item
  IN  UpdateItem(j, d, outcome, [item[j][d] EXCEPT !.status = status])

\* The error of this write is ignored.
MarkItem(j, w) ==
  /\ worker[j][w].pc = "mark"
  /\ \E outcome \in Exec(Canceled(j)) : WriteStatus(j, w, outcome, "running")
  /\ GoTo(j, w, "fetch")
  /\ UNCHANGED <<jobStatus, strategy, docMap, external, creating, run, bounds>>

\* The error of FetchDocument is not returned.
MutantFetchDocument(j, w) ==
  /\ worker[j][w].pc = "fetch"
  /\ \/ GoTo(j, w, "prepare")
     \/ SetWorker(j, w, [worker[j][w] EXCEPT !.pc = "prepare",
                                             !.doc = src[worker[j][w].item]])
  /\ UNCHANGED <<durable, external, creating, run, bounds>>

\* A time of last edit that cannot be parsed is no error (adapter.go:219-222).
FetchDocument(j, w) ==
  LET doc == src[worker[j][w].item] IN
  /\ worker[j][w].pc = "fetch"
  /\ \/ GoTo(j, w, ErrorPC(j))
     \/ /\ ~Canceled(j)
        /\ \E at \in {doc.at} \cup (IF TimesMayBeUnreadable THEN {NoTime} ELSE {}) :
             SetWorker(j, w, [worker[j][w] EXCEPT !.pc = "prepare",
                                                  !.doc = [doc EXCEPT !.at = at]])
  /\ UNCHANGED <<durable, external, creating, run, bounds>>

\* prepareContent and the length limit; both may refuse the document.
PrepareContent(j, w) ==
  /\ worker[j][w].pc = "prepare"
  /\ \/ GoTo(j, w, ErrorPC(j))
     \/ /\ ~Canceled(j)
        /\ GoTo(j, w, "lookup")
  /\ UNCHANGED <<durable, external, creating, run, bounds>>

\* GetDocumentMapping and the choice it leads to.  An error of the query, a
\* canceled context included, fails the item.
Lookup(j, w) ==
  LET r == worker[j][w]
      mapping == docMap[r.item]
      Skip == [r EXCEPT !.pc = "finish", !.result = "skipped", !.memo = mapping.memo]
  IN
  /\ r.pc = "lookup"
  /\ \E outcome \in Tx(Canceled(j)) :
       \/ /\ outcome # "ok"
          /\ GoTo(j, w, "fail")
       \/ /\ outcome = "ok"
          /\ mapping = None
          /\ GoTo(j, w, "create")
       \/ /\ outcome = "ok"
          /\ mapping # None
          /\ documentUnchanged(mapping, r.doc) \/ strategy[j] = "skip"
          /\ SetWorker(j, w, Skip)
       \/ /\ outcome = "ok"
          /\ mapping # None
          /\ ~documentUnchanged(mapping, r.doc)
          /\ strategy[j] = "overwrite"
          /\ SetWorker(j, w, [r EXCEPT !.pc = "update", !.memo = mapping.memo])
  /\ UNCHANGED <<durable, external, creating, run, bounds>>

\* An error that is not retried is taken for an answer.
MutantAfterReply(j, w, reply, success) ==
  SetWorker(j, w,
    IF reply.result = "retryable" /\ worker[j][w].attempt < MaxAttempts
    THEN [worker[j][w] EXCEPT !.attempt = @ + 1] ELSE success)

\* What the worker does with the answer to one attempt of a Memos request.
AfterReply(j, w, reply, success) ==
  SetWorker(j, w,
    CASE reply.result = "ok" -> success
      [] reply.result = "retryable" /\ ~Canceled(j) /\ worker[j][w].attempt < MaxAttempts
           -> [worker[j][w] EXCEPT !.attempt = @ + 1]
      [] OTHER -> [worker[j][w] EXCEPT !.pc = ErrorPC(j)])

\* Every attempt the server applies creates one more memo.
CreateMemo(j, w) ==
  LET r == worker[j][w] IN
  /\ r.pc = "create"
  /\ \E reply \in MemosReply :
       /\ memos' = IF reply.applied
                   THEN Append(memos, [doc |-> r.item, content |-> r.doc.content])
                   ELSE memos
       /\ AfterReply(j, w, reply, [r EXCEPT !.pc = "map", !.result = "imported",
                                            !.memo = Len(memos) + 1])
  /\ UNCHANGED <<durable, src, creating, run, bounds>>

\* The answer may leave the memo's name out; the mapping's is used then.
UpdateMemo(j, w) ==
  LET r == worker[j][w] IN
  /\ r.pc = "update"
  /\ \E reply \in MemosReply :
       /\ memos' = IF reply.applied
                   THEN [memos EXCEPT ![r.memo] = [@ EXCEPT !.content = r.doc.content]]
                   ELSE memos
       /\ AfterReply(j, w, reply, [r EXCEPT !.pc = "map", !.result = "overwritten"])
  /\ UNCHANGED <<durable, src, creating, run, bounds>>

UpsertMapping(j, w) ==
  LET r == worker[j][w] IN
  /\ r.pc = "map"
  /\ \E outcome \in Exec(Canceled(j)) :
       /\ docMap' = IF Applied(outcome)
                    THEN [docMap EXCEPT ![r.item] = [memo |-> r.memo,
                            content |-> r.doc.content, at |-> r.doc.at]]
                    ELSE docMap
       /\ GoTo(j, w, IF outcome = "ok" THEN "finish" ELSE "fail")
  /\ UNCHANGED <<jobStatus, strategy, item, external, creating, run, bounds>>

\* The worker is done with its item: it counts an error and takes the next.
Release(j, w, failed) ==
  /\ SetWorker(j, w, IdleWorker)
  /\ SetRun(j, IF failed THEN [run[j] EXCEPT !.failures = @ + 1] ELSE run[j])

FinishItem(j, w) ==
  LET r == worker[j][w] IN
  /\ r.pc = "finish"
  /\ \E outcome \in Exec(Canceled(j)) :
       /\ UpdateItem(j, r.item, outcome, [status |-> r.result, memo |-> r.memo])
       /\ Release(j, w, outcome # "ok")
  /\ UNCHANGED <<jobStatus, strategy, docMap, external, creating, bounds>>

\* failItem writes with the run's context, cancelItem with a fresh one.
ReturnItem(j, w, pc, status, canceled) ==
  /\ worker[j][w].pc = pc
  /\ \E outcome \in Exec(canceled) : WriteStatus(j, w, outcome, status)
  /\ Release(j, w, TRUE)
  /\ UNCHANGED <<jobStatus, strategy, docMap, external, creating, bounds>>

FailItem(j, w) == ReturnItem(j, w, "fail", "failed", Canceled(j))
CancelItem(j, w) == ReturnItem(j, w, "cancel", "pending", FALSE)

-----------------------------------------------------------------------------
(* The environment.                                                        *)

\* A user edits the document at the source.
Edit(d) ==
  /\ src[d].at <= MaxEdits
  /\ \E c \in Contents : src' = [src EXCEPT ![d] = [content |-> c, at |-> src[d].at + 1]]
  /\ UNCHANGED <<durable, memos, creating, run, worker, bounds>>

\* The process stops and is started again: nothing but the store survives,
\* and nothing at startup looks at the jobs.
Crash ==
  /\ crashes < MaxCrashes
  /\ crashes' = crashes + 1
  /\ creating' = {}
  /\ run' = [j \in Jobs |-> NoRun]
  /\ worker' = [j \in Jobs |-> [w \in Workers |-> IdleWorker]]
  /\ UNCHANGED <<durable, external, runs>>

-----------------------------------------------------------------------------

ClientStep(j) ==
  \/ \E ds \in SUBSET Docs : CreateJob(j, ds)
  \/ Resume(j)
  \/ Retry(j)
  \/ Cancel(j)

RunnerStep(j) ==
  \/ StartCreated(j)
  \/ ReadFailed(j)
  \/ ResetFailed(j)
  \/ MarkRunning(j)
  \/ LoadItems(j)
  \/ \E w \in Workers, d \in Docs : Dispatch(j, w, d)
  \/ StopDispatch(j)
  \/ CloseQueue(j)
  \/ Drain(j)
  \/ WriteLoadFailed(j)
  \/ WriteCanceled(j)
  \/ WriteFailed(j)
  \/ WriteDone(j)
  \/ Unregister(j)

WorkerStep(j, w) ==
  \/ Begin(j, w)
  \/ MarkItem(j, w)
  \/ FetchDocument(j, w)
  \/ PrepareContent(j, w)
  \/ Lookup(j, w)
  \/ CreateMemo(j, w)
  \/ UpdateMemo(j, w)
  \/ UpsertMapping(j, w)
  \/ FinishItem(j, w)
  \/ FailItem(j, w)
  \/ CancelItem(j, w)

Next ==
  \/ \E j \in Jobs : ClientStep(j)
  \/ \E j \in Jobs : RunnerStep(j)
  \/ \E j \in Jobs, w \in Workers : WorkerStep(j, w)
  \/ \E d \in Docs : Edit(d)
  \/ Crash

Spec == Init /\ [][Next]_vars

\* Goroutines are scheduled; a remote request ends by its timeout at the
\* latest.  Clients, edits and crashes are not fair.
Fairness ==
  /\ \A j \in Jobs : WF_vars(RunnerStep(j))
  /\ \A j \in Jobs, w \in Workers : WF_vars(WorkerStep(j, w))

FairSpec == Spec /\ Fairness

-----------------------------------------------------------------------------
(* Properties.                                                             *)

\* Where a worker stands determines what it carries.
WorkerOK(r) ==
  /\ r \in Worker
  /\ r.pc \in Holding => r.item \in Docs
  /\ r.pc \in Fetched => r.doc \in Document
  /\ r.pc \in {"map", "finish"} => r.result \in Completed

\* The type invariant.
TypeOK ==
  /\ jobStatus \in [Jobs -> JobStatuses]
  /\ strategy \in [Jobs -> Strategies]
  /\ item \in [Jobs -> [Docs -> Item]]
  /\ docMap \in [Docs -> Mapping \cup {None}]
  /\ memos \in Seq(Memo)
  /\ src \in [Docs -> Source]
  /\ creating \subseteq Jobs
  /\ run \in [Jobs -> Run]
  /\ worker \in [Jobs -> [Workers -> Worker]]
  /\ \A j \in Jobs, w \in Workers : WorkerOK(worker[j][w])
  /\ runs \in [Jobs -> Nat]
  /\ crashes \in Nat

\* m names a memo that was created for document d.
IsMemoOf(m, d) == m \in 1..Len(memos) /\ memos[m].doc = d

\* What the store records about memos is never made up: a mapping points at a
\* memo of its own document, and an item recorded as imported, overwritten or
\* skipped has such a memo and a mapping that lets the next import find one.
\* Mapping and item are written in two statements, between which a run may be
\* canceled or die and another job may map the same document
\* (importer.go:269-288).
RecordedMemosExist ==
  \A d \in Docs :
    /\ docMap[d] # None => IsMemoOf(docMap[d].memo, d)
    /\ \A j \in Jobs : item[j][d].status \in Completed =>
         docMap[d] # None /\ IsMemoOf(item[j][d].memo, d)

\* Why that is so: a worker that is about to record a memo has one of its
\* document's, and the mapping is there before the item is finished.
RecordedInv ==
  /\ RecordedMemosExist
  /\ \A j \in Jobs, w \in Workers :
       LET r == worker[j][w] IN
       /\ r.pc \in {"update", "map", "finish"} => IsMemoOf(r.memo, r.item)
       /\ r.pc = "finish" => docMap[r.item] # None

\* No two workers of a run ever have the same item, and none has one that is
\* still to be handed out (importer.go:120-146).
OneWorkerPerItem ==
  \A j \in Jobs, w \in Workers : worker[j][w].pc \in Holding =>
    /\ worker[j][w].item \notin run[j].todo
    /\ \A v \in Workers \ {w} : worker[j][v].pc \in Holding =>
         worker[j][v].item # worker[j][w].item

\* A job is only marked done when every one of its items is settled: imported,
\* overwritten, skipped, or failed in an earlier run.  No worker error,
\* cancellation or lost write in between may go unnoticed
\* (importer.go:124-161).
DoneOnlyWhenSettled ==
  [][\A j \in Jobs : jobStatus'[j] = "done" /\ jobStatus[j] # "done" => OpenItems(j) = {}]_vars

\* A run that ends with failures leaves an item recorded as failed, so that
\* retry has something to work on: no error is counted whose record was lost
\* to a cancellation (importer.go:149-156, 293-303).
FailedRunNamesItsItems ==
  \A j \in Jobs : run[j].phase = "writeFailed" => FailedItems(j) # {}

\* A run that comes to its last write leaves the job in a status under which the
\* console continues it (JobsPanel.tsx:41-42), or nothing of it open.  The write of
\* a verdict may be lost to a cancellation that comes after the verdict, but then
\* nothing is open; that of a canceled run is not lost (importer.go:104-161).
EndedRunsCanBeContinued ==
  [][\A j \in Jobs :
       /\ run[j].phase \in {"loadFailed", "writeCanceled", "writeFailed", "writeDone"}
       /\ run'[j].phase = "return"
       => OpenItems(j)' = {} \/ jobStatus'[j] \in {"failed", "canceled"}]_vars

\* An item that was completed is never reopened, failed or given another memo,
\* by no later run, retry, cancellation or restart: no worker outlives the
\* run whose items it holds (importer.go:147-162, item_store.go:71-107).
CompletedItemsStayCompleted ==
  [][\A j \in Jobs, d \in Docs :
       item[j][d].status \in Completed => item'[j][d] = item[j][d]]_vars

\* Re-import skips an unchanged document because its memo has its content.
\* So whenever nothing is running and a mapping with an edit time calls the
\* source's document unchanged, the mapped memo holds that content, whatever was
\* canceled, lost or retried before, and whichever other times could not be read
\* (content.go:47-55, importer.go:250-280).  A mapping without a time promises
\* less, and so does an import that reads no time: an edit and an edit back look
\* like none to the hash alone.
UnchangedMemosAreCurrent ==
  (\A j \in Jobs : run[j].phase = "none") =>
    \A d \in Docs :
      /\ docMap[d] # None
      /\ docMap[d].at # NoTime
      /\ documentUnchanged(docMap[d], src[d])
      => memos[docMap[d].memo].content = src[d].content

\* No document ever has two memos.
NoDuplicateMemo ==
  \A m, n \in 1..Len(memos) : memos[m].doc = memos[n].doc => m = n

\* Runners come, are canceled and go as RunnerSlots says: none is started over
\* another, and a cancellation is forgotten only with the runner it was for.
\* RunnerRegistry implements the same, with the mutex (router.go:113-143).
Slots == INSTANCE RunnerSlots WITH
  busy <- {j \in Jobs : run[j].phase # "none"},
  canceled <- {j \in Jobs : run[j].canceled}

RunnersTakeSlots == Slots!Spec

\* Every runner ends and frees its job for the next one: the dispatcher and
\* the workers never wait for each other for ever, whether a cancellation
\* stops the workers or the dispatcher first (importer.go:124-148).
EveryRunEnds ==
  \A j \in Jobs : run[j].phase # "none" ~> run[j].phase = "none"

=============================================================================
