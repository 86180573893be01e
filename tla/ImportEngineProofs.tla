------------------------- MODULE ImportEngineProofs -------------------------
(* Theorems about ImportEngine, for every value of its constants. *)
EXTENDS ImportEngine, SequenceTheorems, TLAPS

-----------------------------------------------------------------------------
(* What the operators that assign a part of the state return.              *)

\* An idle worker carries nothing, which its position allows.
LEMMA IdleWorkerOK == IdleWorker \in Worker /\ WorkerOK(IdleWorker)
  BY DEF IdleWorker, Worker, WorkerOK, WorkerPCs, Holding, Fetched, ItemStatuses,
         NoMemo

\* The absent run is a run.
LEMMA NoRunOK == NoRun \in Run
  BY DEF NoRun, Run, Phases

\* The runner's assignments stay within the runs.
LEMMA RunUpdates ==
  ASSUME NEW r \in Run, NEW phase \in Phases, NEW todo \in SUBSET Docs
  PROVE  /\ [r EXCEPT !.phase = phase] \in Run
         /\ [r EXCEPT !.todo = todo] \in Run
         /\ [r EXCEPT !.phase = phase, !.todo = todo] \in Run
         /\ [r EXCEPT !.canceled = TRUE] \in Run
         /\ [r EXCEPT !.failures = @ + 1] \in Run
  <1>1. [r EXCEPT !.phase = phase] \in Run
    BY DEF Run
  <1>2. [r EXCEPT !.todo = todo] \in Run
    BY DEF Run
  <1>3. [r EXCEPT !.phase = phase, !.todo = todo] \in Run
    BY DEF Run
  <1>4. [r EXCEPT !.canceled = TRUE] \in Run
    BY DEF Run
  <1>5. [r EXCEPT !.failures = @ + 1] \in Run
    BY DEF Run
  <1> QED
    BY <1>1, <1>2, <1>3, <1>4, <1>5

\* Replacing a run by a run keeps the type of run.
LEMMA SetRunType ==
  ASSUME TypeOK, NEW j \in Jobs, NEW r \in Run, SetRun(j, r)
  PROVE  run' \in [Jobs -> Run]
  BY DEF TypeOK, SetRun

\* So does moving it to another position.
LEMMA SetPhaseType ==
  ASSUME TypeOK, NEW j \in Jobs, NEW phase \in Phases, SetPhase(j, phase)
  PROVE  run' \in [Jobs -> Run]
  <1>1. run[j] \in Run
    BY DEF TypeOK
  <1>2. [run[j] EXCEPT !.phase = phase] \in Run
    BY <1>1, RunUpdates
  <1> QED
    BY <1>2, SetRunType DEF SetPhase

\* Giving one worker an acceptable state keeps the workers acceptable.
LEMMA SetWorkerType ==
  ASSUME TypeOK, NEW j \in Jobs, NEW w \in Workers, NEW r, WorkerOK(r),
         SetWorker(j, w, r)
  PROVE  /\ worker' \in [Jobs -> [Workers -> Worker]]
         /\ \A k \in Jobs, v \in Workers : WorkerOK(worker'[k][v])
  BY DEF TypeOK, SetWorker, WorkerOK

\* A worker may move to any position it carries enough for.
LEMMA GoToType ==
  ASSUME TypeOK, NEW j \in Jobs, NEW w \in Workers, NEW pc,
         WorkerOK([worker[j][w] EXCEPT !.pc = pc]), GoTo(j, w, pc)
  PROVE  /\ worker' \in [Jobs -> [Workers -> Worker]]
         /\ \A k \in Jobs, v \in Workers : WorkerOK(worker'[k][v])
  BY SetWorkerType DEF GoTo

\* New workers, and those of an ended run, are idle.
LEMMA ResetWorkersType ==
  ASSUME TypeOK, NEW j \in Jobs, ResetWorkers(j)
  PROVE  /\ worker' \in [Jobs -> [Workers -> Worker]]
         /\ \A k \in Jobs, v \in Workers : WorkerOK(worker'[k][v])
  <1>1. [w \in Workers |-> IdleWorker] \in [Workers -> Worker]
    BY IdleWorkerOK
  <1>2. worker' \in [Jobs -> [Workers -> Worker]]
    BY <1>1 DEF TypeOK, ResetWorkers
  <1>3. ASSUME NEW k \in Jobs, NEW v \in Workers
        PROVE  WorkerOK(worker'[k][v])
    BY IdleWorkerOK DEF TypeOK, ResetWorkers
  <1> QED
    BY <1>2, <1>3

\* The rows that the writes of an item produce are rows.
LEMMA ItemUpdates ==
  ASSUME NEW row \in Item, NEW s \in ItemStatuses
  PROVE  [row EXCEPT !.status = s] \in Item
  BY DEF Item

\* Writing a row, applied or not, keeps the type of the rows.
LEMMA UpdateItemType ==
  ASSUME TypeOK, NEW j \in Jobs, NEW d \in Docs, NEW outcome, NEW row \in Item,
         UpdateItem(j, d, outcome, row)
  PROVE  item' \in [Jobs -> [Docs -> Item]]
  BY DEF TypeOK, UpdateItem

\* Writing a status, applied or not, keeps the type of the statuses.
LEMMA UpdateJobStatusType ==
  ASSUME TypeOK, NEW j \in Jobs, NEW outcome, NEW status \in JobStatuses,
         UpdateJobStatus(j, outcome, status)
  PROVE  jobStatus' \in [Jobs -> JobStatuses]
  BY DEF TypeOK, UpdateJobStatus

-----------------------------------------------------------------------------
(* Type correctness.                                                       *)

\* The initial states have the types.
LEMMA InitType == Init => TypeOK
  <1> SUFFICES ASSUME Init PROVE TypeOK
    OBVIOUS
  <1>1. worker \in [Jobs -> [Workers -> Worker]]
        /\ \A j \in Jobs, w \in Workers : WorkerOK(worker[j][w])
    BY IdleWorkerOK DEF Init
  <1>2. run \in [Jobs -> Run]
    BY NoRunOK DEF Init
  <1>3. memos \in Seq(Memo)
    BY EmptySeq DEF Init
  <1>4. src \in [Docs -> Source]
    BY DEF Init, Source, NoTime
  <1> QED
    BY <1>1, <1>2, <1>3, <1>4
    DEF Init, TypeOK, JobStatuses, Item, ItemStatuses, NoMemo

\* startRunner, in any of the handlers.
LEMMA StartRunnerType ==
  ASSUME TypeOK, NEW j \in Jobs, NEW phase \in Phases, StartRunner(j, phase),
         creating' \subseteq Jobs
  PROVE  TypeOK'
  <1>1. run' \in [Jobs -> Run]
    BY NoRunOK, RunUpdates, SetRunType DEF StartRunner
  <1>2. runs' \in [Jobs -> Nat]
    BY DEF StartRunner, TypeOK
  <1> QED
    BY <1>1, <1>2 DEF StartRunner, TypeOK, durable, external

\* Requests of clients keep the types.
LEMMA ClientStepType ==
  ASSUME TypeOK, NEW j \in Jobs, ClientStep(j)
  PROVE  TypeOK'
  <1>1. ASSUME NEW ds \in SUBSET Docs, CreateJob(j, ds)
        PROVE  TypeOK'
    <2>1. item' \in [Jobs -> [Docs -> Item]]
      BY <1>1 DEF CreateJob, TypeOK, Item, ItemStatuses, Open, NoMemo
    <2> QED
      BY <1>1, <2>1 DEF CreateJob, TypeOK, JobStatuses, external, bounds
  <1>2. ASSUME Resume(j) PROVE TypeOK'
    BY <1>2, StartRunnerType DEF Resume, Phases, TypeOK
  <1>3. ASSUME Retry(j) PROVE TypeOK'
    BY <1>3, StartRunnerType DEF Retry, Phases, TypeOK
  <1>4. ASSUME Cancel(j) PROVE TypeOK'
    <2>1. [run[j] EXCEPT !.canceled = TRUE] \in Run
      BY DEF TypeOK, Run
    <2>2. run' \in [Jobs -> Run]
      BY <1>4, <2>1, SetRunType DEF Cancel
    <2> QED
      BY <1>4, <2>2 DEF Cancel, TypeOK, durable, external, bounds
  <1> QED
    BY <1>1, <1>2, <1>3, <1>4 DEF ClientStep

\* A step that writes the job's status, if anything, and moves the runner.
LEMMA PhaseStepType ==
  ASSUME TypeOK, NEW j \in Jobs, NEW phase \in Phases, SetPhase(j, phase),
         jobStatus' \in [Jobs -> JobStatuses],
         UNCHANGED <<strategy, item, docMap, external, creating, worker, bounds>>
  PROVE  TypeOK'
  BY SetPhaseType DEF TypeOK, external, bounds

\* The last write of a run keeps the types.
LEMMA WriteVerdictType ==
  ASSUME TypeOK, NEW j \in Jobs, NEW phase, NEW status \in JobStatuses, NEW canceled,
         WriteVerdict(j, phase, status, canceled)
  PROVE  TypeOK'
  BY UpdateJobStatusType, PhaseStepType DEF WriteVerdict, Phases

\* Every step of a runner keeps the types.
LEMMA RunnerStepType ==
  ASSUME TypeOK, NEW j \in Jobs, RunnerStep(j)
  PROVE  TypeOK'
  <1> USE DEF durable, external, bounds
  <1>0. run[j] \in Run /\ FailedItems(j) \in SUBSET Docs /\ OpenItems(j) \in SUBSET Docs
    BY DEF TypeOK, FailedItems, OpenItems
  <1>1. ASSUME StartCreated(j) PROVE TypeOK'
    <2>1. CASE StartRunner(j, "init")
      BY <1>1, <2>1, StartRunnerType DEF StartCreated, TypeOK, Phases
    <2>2. CASE UNCHANGED <<durable, external, run, worker, bounds>>
      BY <1>1, <2>2 DEF StartCreated, TypeOK
    <2> QED
      BY <1>1, <2>1, <2>2 DEF StartCreated
  <1>2. ASSUME ReadFailed(j) PROVE TypeOK'
    <2>1. [run[j] EXCEPT !.phase = "reset", !.todo = FailedItems(j)] \in Run
      BY <1>0, RunUpdates DEF Phases
    <2>2. run' \in [Jobs -> Run]
      BY <1>2, <2>1, SetRunType, SetPhaseType DEF ReadFailed, Phases
    <2> QED
      BY <1>2, <2>2 DEF ReadFailed, TypeOK
  <1>3. ASSUME ResetFailed(j) PROVE TypeOK'
    <2>1. [run[j] EXCEPT !.phase = "init", !.todo = {}] \in Run
      BY <1>0, RunUpdates DEF Phases
    <2>2. run' \in [Jobs -> Run]
      BY <1>3, <2>1, SetRunType, SetPhaseType DEF ResetFailed, Phases
    <2>3. [d \in Docs |-> IF d \in run[j].todo THEN [item[j][d] EXCEPT !.status = "pending"]
                          ELSE item[j][d]] \in [Docs -> Item]
      <3>1. ASSUME NEW d \in Docs
            PROVE  item[j][d] \in Item /\ [item[j][d] EXCEPT !.status = "pending"] \in Item
        <4>1. item[j][d] \in Item
          BY DEF TypeOK
        <4> QED
          BY <4>1, ItemUpdates DEF ItemStatuses, Open
      <3> QED
        BY <3>1
    <2>4. item' \in [Jobs -> [Docs -> Item]]
      BY <1>3, <2>3 DEF ResetFailed, TypeOK
    <2> QED
      BY <1>3, <2>2, <2>4 DEF ResetFailed, TypeOK
  <1>4. ASSUME MarkRunning(j) PROVE TypeOK'
    BY <1>4, UpdateJobStatusType, PhaseStepType DEF MarkRunning, Phases, JobStatuses
  <1>5. ASSUME LoadItems(j) PROVE TypeOK'
    <2>1. [run[j] EXCEPT !.phase = "dispatch", !.todo = OpenItems(j)] \in Run
      BY <1>0, RunUpdates DEF Phases
    <2>2. run' \in [Jobs -> Run]
      BY <1>5, <2>1, SetRunType, SetPhaseType DEF LoadItems, Phases
    <2>3. /\ worker' \in [Jobs -> [Workers -> Worker]]
          /\ \A k \in Jobs, v \in Workers : WorkerOK(worker'[k][v])
      <3>1. CASE ResetWorkers(j)
        BY <3>1, ResetWorkersType
      <3>2. CASE UNCHANGED worker
        BY <3>2 DEF TypeOK
      <3> QED
        BY <1>5, <3>1, <3>2 DEF LoadItems
    <2> QED
      BY <1>5, <2>2, <2>3 DEF LoadItems, TypeOK
  <1>6. ASSUME NEW w \in Workers, NEW d \in Docs, Dispatch(j, w, d) PROVE TypeOK'
    <2>1. [run[j] EXCEPT !.todo = @ \ {d}] \in Run
      BY <1>0 DEF Run
    <2>2. run' \in [Jobs -> Run]
      BY <1>6, <2>1, SetRunType DEF Dispatch
    <2>3. WorkerOK([IdleWorker EXCEPT !.pc = "taken", !.item = d])
      BY DEF WorkerOK, IdleWorker, Worker, WorkerPCs, Holding, Fetched, ItemStatuses, NoMemo
    <2>4. /\ worker' \in [Jobs -> [Workers -> Worker]]
          /\ \A k \in Jobs, v \in Workers : WorkerOK(worker'[k][v])
      BY <1>6, <2>3, SetWorkerType DEF Dispatch
    <2> QED
      BY <1>6, <2>2, <2>4 DEF Dispatch, TypeOK
  <1>7. ASSUME StopDispatch(j) \/ CloseQueue(j) PROVE TypeOK'
    BY <1>7, PhaseStepType DEF StopDispatch, CloseQueue, TypeOK, Phases
  <1>8. ASSUME Drain(j) PROVE TypeOK'
    BY <1>8, PhaseStepType DEF Drain, Verdict, TypeOK, Phases
  <1>9. ASSUME WriteLoadFailed(j) \/ WriteCanceled(j) \/ WriteFailed(j) \/ WriteDone(j)
        PROVE  TypeOK'
    BY <1>9, WriteVerdictType
    DEF WriteLoadFailed, WriteCanceled, WriteFailed, WriteDone, JobStatuses
  <1>10. ASSUME Unregister(j) PROVE TypeOK'
    <2>1. run' \in [Jobs -> Run]
      BY <1>10, NoRunOK, SetRunType DEF Unregister
    <2>2. /\ worker' \in [Jobs -> [Workers -> Worker]]
          /\ \A k \in Jobs, v \in Workers : WorkerOK(worker'[k][v])
      BY <1>10, ResetWorkersType DEF Unregister
    <2> QED
      BY <1>10, <2>1, <2>2 DEF Unregister, TypeOK
  <1> QED
    BY <1>1, <1>2, <1>3, <1>4, <1>5, <1>6, <1>7, <1>8, <1>9, <1>10 DEF RunnerStep

\* A worker may go on to any position it carries enough for.
LEMMA WorkerMoves ==
  ASSUME NEW r, WorkerOK(r), NEW pc \in WorkerPCs,
         pc \in Holding => r.pc \in Holding,
         pc \in Fetched => r.pc \in Fetched,
         pc \in {"map", "finish"} => r.pc \in {"map", "finish"}
  PROVE  WorkerOK([r EXCEPT !.pc = pc])
  BY DEF WorkerOK, Worker

\* A step of a worker that changes nothing but the worker.
LEMMA WorkerOnlyType ==
  ASSUME TypeOK, NEW j \in Jobs, NEW w \in Workers, NEW r, WorkerOK(r),
         SetWorker(j, w, r), UNCHANGED <<durable, external, creating, run, bounds>>
  PROVE  TypeOK'
  BY SetWorkerType DEF TypeOK, durable, external, bounds

\* Releasing the item.
LEMMA ReleaseType ==
  ASSUME TypeOK, NEW j \in Jobs, NEW w \in Workers, NEW failed, Release(j, w, failed)
  PROVE  /\ run' \in [Jobs -> Run]
         /\ worker' \in [Jobs -> [Workers -> Worker]]
         /\ \A k \in Jobs, v \in Workers : WorkerOK(worker'[k][v])
  <1>1. run[j] \in Run
    BY DEF TypeOK
  <1>2. (IF failed THEN [run[j] EXCEPT !.failures = @ + 1] ELSE run[j]) \in Run
    <2>1. [run[j] EXCEPT !.failures = @ + 1] \in Run
      BY <1>1 DEF Run
    <2> QED
      BY <1>1, <2>1
  <1>3. run' \in [Jobs -> Run]
    BY <1>2, SetRunType DEF Release
  <1> QED
    BY <1>3, IdleWorkerOK, SetWorkerType DEF Release

\* Writing the status of a worker's item keeps the type of the rows.
LEMMA WriteStatusType ==
  ASSUME TypeOK, NEW j \in Jobs, NEW w \in Workers, worker[j][w].pc \in Holding,
         NEW outcome, NEW s \in ItemStatuses, WriteStatus(j, w, outcome, s)
  PROVE  item' \in [Jobs -> [Docs -> Item]]
  <1>1. worker[j][w].item \in Docs
    BY DEF TypeOK, WorkerOK
  <1>2. [item[j][worker[j][w].item] EXCEPT !.status = s] \in Item
    BY <1>1, ItemUpdates DEF TypeOK
  <1> QED
    BY <1>1, <1>2, UpdateItemType DEF WriteStatus

\* failItem and cancelItem keep the types.
LEMMA ReturnItemType ==
  ASSUME TypeOK, NEW j \in Jobs, NEW w \in Workers, NEW pc \in Holding,
         NEW s \in ItemStatuses, NEW canceled, ReturnItem(j, w, pc, s, canceled)
  PROVE  TypeOK'
  <1>1. item' \in [Jobs -> [Docs -> Item]]
    BY WriteStatusType DEF ReturnItem
  <1> QED
    BY <1>1, ReleaseType DEF ReturnItem, TypeOK, external, bounds

\* After a Memos request the worker is where the answer sends it.
LEMMA AfterReplyOK ==
  ASSUME TypeOK, NEW j \in Jobs, NEW w \in Workers, worker[j][w].pc \in Fetched,
         NEW reply, NEW success, WorkerOK(success), AfterReply(j, w, reply, success)
  PROVE  \E r : WorkerOK(r) /\ SetWorker(j, w, r)
  <1> DEFINE r == worker[j][w]
  <1>1. WorkerOK(r)
    BY DEF TypeOK
  <1>2. WorkerOK([r EXCEPT !.attempt = @ + 1])
    BY <1>1 DEF WorkerOK, Worker
  <1>3. WorkerOK([r EXCEPT !.pc = ErrorPC(j)])
    BY <1>1, WorkerMoves DEF ErrorPC, WorkerPCs, Holding, Fetched
  <1> QED
    BY <1>2, <1>3 DEF AfterReply

\* A worker that fetches gives up, or goes on with what the source has, at the time
\* it was edited or at none.
LEMMA FetchDocumentDoes ==
  ASSUME TypeOK, NEW j \in Jobs, NEW w \in Workers, FetchDocument(j, w)
  PROVE  /\ worker[j][w].pc = "fetch"
         /\ worker[j][w].item \in Docs
         /\ \/ GoTo(j, w, ErrorPC(j))
            \/ \E doc \in Document :
                 /\ doc.content = src[worker[j][w].item].content
                 /\ doc.at \in {src[worker[j][w].item].at, NoTime}
                 /\ SetWorker(j, w, [worker[j][w] EXCEPT !.pc = "prepare", !.doc = doc])
  <1> DEFINE d == worker[j][w].item
  <1>1. worker[j][w].pc = "fetch" /\ d \in Docs
    BY DEF FetchDocument, TypeOK, WorkerOK, Holding
  <1>2. src[d] \in Source
    BY <1>1 DEF TypeOK
  <1>3. \A at \in Nat : /\ [src[d] EXCEPT !.at = at] \in Document
                       /\ [src[d] EXCEPT !.at = at].content = src[d].content
                       /\ [src[d] EXCEPT !.at = at].at = at
    BY <1>2 DEF Source, Document
  <1>4. src[d].at \in Nat /\ NoTime \in Nat
    BY <1>2 DEF Source, NoTime
  <1>5. \/ GoTo(j, w, ErrorPC(j))
        \/ \E at \in {src[d].at, NoTime} :
             SetWorker(j, w, [worker[j][w] EXCEPT !.pc = "prepare",
                                                  !.doc = [src[d] EXCEPT !.at = at]])
    BY DEF FetchDocument
  <1> QED
    BY <1>1, <1>3, <1>4, <1>5

\* Every step of a worker keeps the types.
LEMMA WorkerStepType ==
  ASSUME TypeOK, NEW j \in Jobs, NEW w \in Workers, WorkerStep(j, w)
  PROVE  TypeOK'
  <1> DEFINE r == worker[j][w]
  <1> USE DEF external, bounds
  <1>0. WorkerOK(r) /\ r \in Worker
    BY DEF TypeOK, WorkerOK
  <1>a. ASSUME NEW pc \in WorkerPCs, WorkerOK([r EXCEPT !.pc = pc]), GoTo(j, w, pc),
               UNCHANGED <<durable, external, creating, run, bounds>>
        PROVE  TypeOK'
    BY <1>a, WorkerOnlyType DEF GoTo
  <1>b. ErrorPC(j) \in WorkerPCs /\ (r.pc \in Holding => WorkerOK([r EXCEPT !.pc = ErrorPC(j)]))
    BY <1>0, WorkerMoves DEF ErrorPC, WorkerPCs, Holding, Fetched
  <1>1. ASSUME Begin(j, w) PROVE TypeOK'
    <2>1. WorkerOK([IdleWorker EXCEPT !.pc = "exited"])
      BY DEF WorkerOK, IdleWorker, Worker, WorkerPCs, Holding, Fetched, ItemStatuses, NoMemo
    <2>2. WorkerOK([r EXCEPT !.pc = "mark"])
      BY <1>0, <1>1, WorkerMoves DEF Begin, WorkerPCs, Holding, Fetched
    <2> QED
      BY <1>1, <2>1, <2>2, WorkerOnlyType DEF Begin
  <1>2. ASSUME MarkItem(j, w) PROVE TypeOK'
    <2>1. item' \in [Jobs -> [Docs -> Item]]
      BY <1>2, WriteStatusType DEF MarkItem, Holding, ItemStatuses, Open
    <2>2. WorkerOK([r EXCEPT !.pc = "fetch"])
      BY <1>0, <1>2, WorkerMoves DEF MarkItem, WorkerPCs, Holding, Fetched
    <2> QED
      BY <1>2, <2>1, <2>2, GoToType DEF MarkItem, TypeOK
  <1>3. ASSUME FetchDocument(j, w) PROVE TypeOK'
    <2>1. r.pc \in Holding /\ r.item \in Docs
      BY <1>3, FetchDocumentDoes DEF Holding
    <2>2. \A doc \in Document : WorkerOK([r EXCEPT !.pc = "prepare", !.doc = doc])
      BY <1>0, <2>1 DEF WorkerOK, Worker, WorkerPCs, Holding, Fetched
    <2>3. UNCHANGED <<durable, external, creating, run, bounds>>
      BY <1>3 DEF FetchDocument
    <2>4. CASE GoTo(j, w, ErrorPC(j))
      BY <1>a, <1>b, <2>1, <2>3, <2>4
    <2> QED
      BY <1>3, <2>2, <2>3, <2>4, FetchDocumentDoes, WorkerOnlyType
  <1>4. ASSUME PrepareContent(j, w) PROVE TypeOK'
    <2>1. r.pc \in Holding
      BY <1>4 DEF PrepareContent, Holding, Fetched
    <2>2. WorkerOK([r EXCEPT !.pc = "lookup"])
      BY <1>0, <1>4, WorkerMoves DEF PrepareContent, WorkerPCs, Holding, Fetched
    <2> QED
      BY <1>4, <1>a, <1>b, <2>1, <2>2 DEF PrepareContent, WorkerPCs, Holding, Fetched
  <1>5. ASSUME Lookup(j, w) PROVE TypeOK'
    <2>1. r.pc = "lookup" /\ r.item \in Docs /\ r.doc \in Document
      BY <1>0, <1>5 DEF Lookup, WorkerOK, Holding, Fetched
    <2>2. WorkerOK([r EXCEPT !.pc = "fail"]) /\ WorkerOK([r EXCEPT !.pc = "create"])
      BY <1>0, <2>1, WorkerMoves DEF WorkerPCs, Holding, Fetched
    <2>3. ASSUME docMap[r.item] # None
          PROVE  /\ WorkerOK([r EXCEPT !.pc = "finish", !.result = "skipped",
                                       !.memo = docMap[r.item].memo])
                 /\ WorkerOK([r EXCEPT !.pc = "update", !.memo = docMap[r.item].memo])
      <3>1. docMap[r.item].memo \in Nat
        BY <2>1, <2>3 DEF TypeOK, Mapping
      <3> QED
        BY <1>0, <2>1, <3>1
        DEF WorkerOK, Worker, WorkerPCs, Holding, Fetched, ItemStatuses, Completed
    <2> QED
      BY <1>5, <2>2, <2>3, WorkerOnlyType DEF Lookup, GoTo
  <1>6. ASSUME CreateMemo(j, w) PROVE TypeOK'
    <2>1. r.pc = "create" /\ r.item \in Docs /\ r.doc \in Document
      BY <1>0, <1>6 DEF CreateMemo, WorkerOK, Holding, Fetched
    <2>2. [doc |-> r.item, content |-> r.doc.content] \in Memo
      BY <2>1 DEF Memo, Document
    <2>3. memos' \in Seq(Memo) /\ Len(memos) \in Nat
      BY <1>6, <2>2, AppendProperties, LenProperties DEF CreateMemo, TypeOK
    <2>a. \A m \in Nat : WorkerOK([r EXCEPT
                       !.pc = "map", !.result = "imported", !.memo = m])
      BY <1>0, <2>1
      DEF WorkerOK, Worker, WorkerPCs, Holding, Fetched, ItemStatuses, Completed
    <2>4. WorkerOK([r EXCEPT !.pc = "map", !.result = "imported", !.memo = Len(memos) + 1])
      <3>1. Len(memos) + 1 \in Nat
        BY <2>3
      <3> HIDE DEF r
      <3> QED
        BY <2>a, <3>1, Zenon
    <2>5. \E q : WorkerOK(q) /\ SetWorker(j, w, q)
      BY <1>6, <2>1, <2>4, AfterReplyOK DEF CreateMemo, Fetched
    <2> QED
      BY <1>6, <2>3, <2>5, SetWorkerType DEF CreateMemo, TypeOK, durable
  <1>7. ASSUME UpdateMemo(j, w) PROVE TypeOK'
    <2>1. r.pc = "update" /\ r.item \in Docs /\ r.doc \in Document /\ r.memo \in Nat
      BY <1>0, <1>7 DEF UpdateMemo, WorkerOK, Worker, Holding, Fetched
    <2>2. [memos EXCEPT ![r.memo] = [@ EXCEPT !.content = r.doc.content]] \in Seq(Memo)
      <3>1. CASE r.memo \in 1..Len(memos)
        <4>1. [memos[r.memo] EXCEPT !.content = r.doc.content] \in Memo
          <5>1. memos[r.memo] \in Memo
            BY <3>1, ElementOfSeq DEF TypeOK
          <5> QED
            BY <2>1, <5>1 DEF Memo, Document
        <4> QED
          BY <3>1, <4>1, ExceptSeq DEF TypeOK
      <3>2. CASE r.memo \notin 1..Len(memos)
        <4>1. [memos EXCEPT ![r.memo] = [@ EXCEPT !.content = r.doc.content]] = memos
          BY <3>2, LenProperties DEF TypeOK
        <4> QED
          BY <4>1 DEF TypeOK
      <3> QED
        BY <3>1, <3>2
    <2>3. WorkerOK([r EXCEPT !.pc = "map", !.result = "overwritten"])
      BY <1>0, <2>1 DEF WorkerOK, Worker, WorkerPCs, Holding, Fetched, ItemStatuses, Completed
    <2>4. memos' \in Seq(Memo)
      BY <1>7, <2>2 DEF UpdateMemo, TypeOK
    <2>5. \E q : WorkerOK(q) /\ SetWorker(j, w, q)
      BY <1>7, <2>1, <2>3, AfterReplyOK DEF UpdateMemo, Fetched
    <2> QED
      BY <1>7, <2>4, <2>5, SetWorkerType DEF UpdateMemo, TypeOK, durable
  <1>8. ASSUME UpsertMapping(j, w) PROVE TypeOK'
    <2>1. r.pc = "map" /\ r.item \in Docs /\ r.doc \in Document /\ r.memo \in Nat
      BY <1>0, <1>8 DEF UpsertMapping, WorkerOK, Worker, Holding, Fetched
    <2>2. [memo |-> r.memo, content |-> r.doc.content, at |-> r.doc.at] \in Mapping
      BY <2>1 DEF Mapping, Document
    <2>3. docMap' \in [Docs -> Mapping \cup {None}]
      BY <1>8, <2>1, <2>2 DEF UpsertMapping, TypeOK
    <2>4. WorkerOK([r EXCEPT !.pc = "finish"]) /\ WorkerOK([r EXCEPT !.pc = "fail"])
      BY <1>0, <2>1, WorkerMoves DEF WorkerPCs, Holding, Fetched
    <2>5. \E pc : WorkerOK([r EXCEPT !.pc = pc]) /\ GoTo(j, w, pc)
      BY <1>8, <2>4 DEF UpsertMapping
    <2> QED
      BY <1>8, <2>3, <2>5, GoToType DEF UpsertMapping, TypeOK
  <1>9. ASSUME FinishItem(j, w) PROVE TypeOK'
    <2>1. r.pc = "finish" /\ r.item \in Docs /\ r.memo \in Nat /\ r.result \in ItemStatuses
      BY <1>0, <1>9 DEF FinishItem, WorkerOK, Worker, Holding, Fetched
    <2>2. [status |-> r.result, memo |-> r.memo] \in Item
      BY <2>1 DEF Item
    <2>3. item' \in [Jobs -> [Docs -> Item]]
      BY <1>9, <2>1, <2>2, UpdateItemType DEF FinishItem
    <2> QED
      BY <1>9, <2>3, ReleaseType DEF FinishItem, TypeOK
  <1>10. ASSUME FailItem(j, w) \/ CancelItem(j, w) PROVE TypeOK'
    BY <1>10, ReturnItemType DEF FailItem, CancelItem, Holding, ItemStatuses, Open
  <1> QED
    BY <1>1, <1>2, <1>3, <1>4, <1>5, <1>6, <1>7, <1>8, <1>9, <1>10 DEF WorkerStep

\* Edits and restarts keep the types.
LEMMA EnvironmentType ==
  ASSUME TypeOK, Crash \/ \E d \in Docs : Edit(d)
  PROVE  TypeOK'
  <1>1. ASSUME Crash PROVE TypeOK'
    BY <1>1, NoRunOK, IdleWorkerOK DEF Crash, TypeOK, durable, external
  <1>2. ASSUME NEW d \in Docs, Edit(d) PROVE TypeOK'
    <2>1. src' \in [Docs -> Source]
      BY <1>2 DEF Edit, TypeOK, Source, NoTime
    <2> QED
      BY <1>2, <2>1 DEF Edit, TypeOK, durable, bounds
  <1> QED
    BY <1>1, <1>2

\* Every step keeps the types.
LEMMA NextType == TypeOK /\ [Next]_vars => TypeOK'
  <1> SUFFICES ASSUME TypeOK, [Next]_vars PROVE TypeOK'
    OBVIOUS
  <1>1. CASE UNCHANGED vars
    BY <1>1 DEF TypeOK, vars, durable, external, bounds
  <1>2. CASE Next
    BY <1>2, ClientStepType, RunnerStepType, WorkerStepType, EnvironmentType DEF Next
  <1> QED
    BY <1>1, <1>2

\* In every reachable state the variables have their types, and every worker
\* carries what its position in processItem needs.
THEOREM TypeCorrect == Spec => []TypeOK
  BY InitType, NextType, PTL DEF Spec

-----------------------------------------------------------------------------
(* Recorded memos exist.                                                   *)

\* Memos are never taken away and never change their document.
LEMMA MemosKept ==
  ASSUME TypeOK, [Next]_vars, NEW m, NEW d, IsMemoOf(m, d)
  PROVE  IsMemoOf(m, d)'
  <1>1. ASSUME memos' = memos PROVE IsMemoOf(m, d)'
    BY <1>1 DEF IsMemoOf
  <1>2. ASSUME NEW x \in Memo, memos' = Append(memos, x) PROVE IsMemoOf(m, d)'
    BY <1>2, AppendProperties, LenProperties DEF IsMemoOf, TypeOK
  <1>3. ASSUME NEW n, NEW c, memos' = [memos EXCEPT ![n] = [@ EXCEPT !.content = c]]
        PROVE  IsMemoOf(m, d)'
    <2>1. memos[m] \in Memo /\ m \in DOMAIN memos /\ DOMAIN memos = 1..Len(memos)
      BY ElementOfSeq, LenProperties DEF IsMemoOf, TypeOK
    <2>2. memos'[m].doc = memos[m].doc
      BY <1>3, <2>1 DEF Memo
    <2>3. DOMAIN memos' = DOMAIN memos
      BY <1>3
    <2>4. Len(memos') = Len(memos)
      <3>1. memos' \in Seq(Memo)
        BY NextType DEF TypeOK
      <3> QED
        BY <2>1, <2>3, <3>1, LenProperties DEF TypeOK
    <2> QED
      BY <2>2, <2>4 DEF IsMemoOf
  <1>4. ASSUME NEW j \in Jobs, NEW w \in Workers, CreateMemo(j, w) PROVE IsMemoOf(m, d)'
    <2>1. WorkerOK(worker[j][w])
      BY DEF TypeOK
    <2>2. [doc |-> worker[j][w].item, content |-> worker[j][w].doc.content] \in Memo
      BY <1>4, <2>1 DEF CreateMemo, WorkerOK, Holding, Fetched, Memo, Document
    <2> QED
      BY <1>1, <1>2, <1>4, <2>2 DEF CreateMemo
  <1>5. ASSUME NEW j \in Jobs, NEW w \in Workers, UpdateMemo(j, w) PROVE IsMemoOf(m, d)'
    BY <1>1, <1>3, <1>5 DEF UpdateMemo
  <1>6. ASSUME NEW j \in Jobs, ClientStep(j) PROVE memos' = memos
    BY <1>6 DEF ClientStep, CreateJob, Resume, Retry, Cancel, StartRunner, external
  <1>7. ASSUME NEW j \in Jobs, RunnerStep(j) PROVE memos' = memos
    BY <1>7 DEF RunnerStep, StartCreated, StartRunner, ReadFailed, ResetFailed, MarkRunning,
                LoadItems, Dispatch, StopDispatch, CloseQueue, Drain, WriteLoadFailed,
                WriteCanceled, WriteFailed, WriteDone, WriteVerdict, Unregister, external
  <1>8. ASSUME NEW j \in Jobs, NEW w \in Workers, WorkerStep(j, w),
               ~CreateMemo(j, w), ~UpdateMemo(j, w)
        PROVE  memos' = memos
    BY <1>8 DEF WorkerStep, Begin, MarkItem, FetchDocument, PrepareContent, Lookup,
                UpsertMapping, FinishItem, FailItem, CancelItem, ReturnItem, external
  <1>9. ASSUME Crash \/ (\E e \in Docs : Edit(e)) \/ UNCHANGED vars PROVE memos' = memos
    BY <1>9 DEF Crash, Edit, vars, external
  <1> QED
    BY <1>1, <1>4, <1>5, <1>6, <1>7, <1>8, <1>9 DEF Next

\* A row of document_mapping is only written by a worker that stands before
\* UpsertDocumentMapping, and never deleted.
LEMMA MappingStep ==
  ASSUME TypeOK, [Next]_vars, NEW d \in Docs, docMap'[d] # docMap[d]
  PROVE  /\ docMap'[d] # None
         /\ \E j \in Jobs, w \in Workers :
              /\ worker[j][w].pc = "map"
              /\ worker[j][w].item = d
              /\ docMap'[d].memo = worker[j][w].memo
  <1>1. ASSUME NEW j \in Jobs, NEW w \in Workers, UpsertMapping(j, w)
        PROVE  /\ worker[j][w].pc = "map"
               /\ worker[j][w].item = d
               /\ docMap'[d].memo = worker[j][w].memo
               /\ docMap'[d] # None
    <2> DEFINE r == worker[j][w]
    <2>1. r.pc = "map" /\ r.item \in Docs /\ r.doc \in Document /\ r.memo \in Nat
      BY <1>1 DEF UpsertMapping, TypeOK, WorkerOK, Worker, Holding, Fetched
    <2>2. [memo |-> r.memo, content |-> r.doc.content, at |-> r.doc.at] \in Mapping
      BY <2>1 DEF Mapping, Document
    <2>3. docMap' = [docMap EXCEPT ![r.item] = [memo |-> r.memo, content |-> r.doc.content,
                                               at |-> r.doc.at]]
      BY <1>1 DEF UpsertMapping
    <2>4. d = r.item
      BY <2>3 DEF TypeOK
    <2>5. docMap'[d] = [memo |-> r.memo, content |-> r.doc.content, at |-> r.doc.at]
      BY <2>3, <2>4 DEF TypeOK
    <2> QED
      BY <2>1, <2>2, <2>4, <2>5, NoneAssumption
  <1>2. ASSUME NEW j \in Jobs, ClientStep(j) PROVE docMap' = docMap
    BY <1>2 DEF ClientStep, CreateJob, Resume, Retry, Cancel, StartRunner, durable
  <1>3. ASSUME NEW j \in Jobs, RunnerStep(j) PROVE docMap' = docMap
    BY <1>3 DEF RunnerStep, StartCreated, StartRunner, ReadFailed, ResetFailed, MarkRunning,
                LoadItems, Dispatch, StopDispatch, CloseQueue, Drain, WriteLoadFailed,
                WriteCanceled, WriteFailed, WriteDone, WriteVerdict, Unregister, durable
  <1>4. ASSUME NEW j \in Jobs, NEW w \in Workers, WorkerStep(j, w), ~UpsertMapping(j, w)
        PROVE  docMap' = docMap
    BY <1>4 DEF WorkerStep, Begin, MarkItem, FetchDocument, PrepareContent, Lookup,
                CreateMemo, UpdateMemo, FinishItem, FailItem, CancelItem, ReturnItem, durable
  <1>5. ASSUME Crash \/ (\E e \in Docs : Edit(e)) \/ UNCHANGED vars PROVE docMap' = docMap
    BY <1>5 DEF Crash, Edit, vars, durable
  <1> QED
    BY <1>1, <1>2, <1>3, <1>4, <1>5 DEF Next

\* The row of an item after one write of a worker.
LEMMA UpdateItemRow ==
  ASSUME TypeOK, NEW j \in Jobs, NEW d \in Docs, NEW outcome, NEW row,
         UpdateItem(j, d, outcome, row), NEW k \in Jobs, NEW e \in Docs
  PROVE  item'[k][e] = item[k][e] \/ (k = j /\ e = d /\ item'[k][e] = row)
  BY DEF TypeOK, UpdateItem

\* Writing a status changes the row of the worker's item, to that status, or none.
LEMMA WriteStatusRow ==
  ASSUME TypeOK, NEW j \in Jobs, NEW w \in Workers, worker[j][w].pc \in Holding,
         NEW outcome, NEW s, WriteStatus(j, w, outcome, s), NEW k \in Jobs, NEW e \in Docs
  PROVE  \/ item'[k][e] = item[k][e]
         \/ /\ k = j
            /\ e = worker[j][w].item
            /\ item'[k][e].status = s
  <1>1. worker[j][w].item \in Docs
    BY DEF TypeOK, WorkerOK
  <1>2. item[j][worker[j][w].item] \in Item
    BY <1>1 DEF TypeOK
  <1>3. [item[j][worker[j][w].item] EXCEPT !.status = s].status = s
    BY <1>2 DEF Item
  <1>4. UpdateItem(j, worker[j][w].item, outcome,
                   [item[j][worker[j][w].item] EXCEPT !.status = s])
    BY DEF WriteStatus
  <1>5. item'[k][e] = item[k][e]
        \/ /\ k = j /\ e = worker[j][w].item
           /\ item'[k][e] = [item[j][worker[j][w].item] EXCEPT !.status = s]
    BY <1>1, <1>4, UpdateItemRow
  <1> QED
    BY <1>3, <1>5

\* An item only becomes completed by the last write of processItem.
LEMMA ItemStep ==
  ASSUME TypeOK, [Next]_vars, NEW j \in Jobs, NEW d \in Docs,
         item'[j][d] # item[j][d], item'[j][d].status \in Completed
  PROVE  \E w \in Workers :
           /\ worker[j][w].pc = "finish"
           /\ worker[j][w].item = d
           /\ item'[j][d].memo = worker[j][w].memo
  <1>1. ASSUME NEW k \in Jobs, NEW ds \in SUBSET Docs, CreateJob(k, ds) PROVE FALSE
    <2>1. item'[j][d] = item[j][d] \/ item'[j][d].status \in {"pending", "none"}
      BY <1>1 DEF CreateJob, TypeOK
    <2> QED
      BY <2>1 DEF Completed
  <1>2. ASSUME NEW k \in Jobs, ResetFailed(k) PROVE FALSE
    <2>1. item[j][d] \in Item /\ [item[j][d] EXCEPT !.status = "pending"].status = "pending"
      BY DEF TypeOK, Item
    <2>2. item'[j][d] = item[j][d] \/ item'[j][d] = [item[j][d] EXCEPT !.status = "pending"]
      <3>1. CASE item' = item
        BY <3>1
      <3>2. CASE item' = [item EXCEPT ![k] = [e \in Docs |->
                   IF e \in run[k].todo THEN [item[k][e] EXCEPT !.status = "pending"]
                   ELSE item[k][e]]]
        <4>1. CASE j = k
          BY <3>2, <4>1 DEF TypeOK
        <4>2. CASE j # k
          BY <3>2, <4>2 DEF TypeOK
        <4> QED
          BY <4>1, <4>2
      <3> QED
        BY <1>2, <3>1, <3>2 DEF ResetFailed
    <2> QED
      BY <2>1, <2>2 DEF Completed
  <1>3. ASSUME NEW k \in Jobs, NEW w \in Workers, NEW outcome, worker[k][w].pc \in Holding,
               NEW s, s \notin Completed, WriteStatus(k, w, outcome, s)
        PROVE  FALSE
    BY <1>3, WriteStatusRow
  <1>4. ASSUME NEW k \in Jobs, NEW w \in Workers,
               MarkItem(k, w) \/ FailItem(k, w) \/ CancelItem(k, w)
        PROVE  FALSE
    BY <1>3, <1>4 DEF MarkItem, FailItem, CancelItem, ReturnItem, Holding, Completed
  <1>5. ASSUME NEW k \in Jobs, NEW w \in Workers, FinishItem(k, w)
        PROVE  /\ k = j
               /\ worker[k][w].pc = "finish"
               /\ worker[k][w].item = d
               /\ item'[j][d].memo = worker[k][w].memo
    <2>1. worker[k][w].item \in Docs /\ worker[k][w].pc = "finish"
      BY <1>5 DEF FinishItem, TypeOK, WorkerOK, Holding, Fetched
    <2> QED
      BY <1>5, <2>1, UpdateItemRow DEF FinishItem
  <1>6. ASSUME NEW k \in Jobs, ClientStep(k), ~\E ds \in SUBSET Docs : CreateJob(k, ds)
        PROVE  FALSE
    BY <1>6 DEF ClientStep, Resume, Retry, Cancel, StartRunner, durable
  <1>7. ASSUME NEW k \in Jobs, RunnerStep(k), ~ResetFailed(k) PROVE FALSE
    BY <1>7 DEF RunnerStep, StartCreated, StartRunner, ReadFailed, MarkRunning,
                LoadItems, Dispatch, StopDispatch, CloseQueue, Drain, WriteLoadFailed,
                WriteCanceled, WriteFailed, WriteDone, WriteVerdict, Unregister, durable
  <1>8. ASSUME NEW k \in Jobs, NEW w \in Workers, WorkerStep(k, w), ~FinishItem(k, w)
        PROVE  FALSE
    BY <1>4, <1>8 DEF WorkerStep, Begin, FetchDocument, PrepareContent, Lookup,
                CreateMemo, UpdateMemo, UpsertMapping, durable
  <1>9. ASSUME Crash \/ (\E e \in Docs : Edit(e)) \/ UNCHANGED vars PROVE FALSE
    BY <1>9 DEF Crash, Edit, vars, durable
  <1> QED
    BY <1>1, <1>2, <1>5, <1>6, <1>7, <1>8, <1>9 DEF Next

\* m will name a memo of d after the step.
IsMemoOfNext(m, d) == m \in 1..Len(memos') /\ memos'[m].doc = d

\* What a worker carries stays true.
LEMMA WorkerRecorded ==
  ASSUME TypeOK, RecordedInv, [Next]_vars, NEW j \in Jobs, NEW w \in Workers
  PROVE  /\ worker'[j][w].pc \in {"update", "map", "finish"} =>
              IsMemoOfNext(worker'[j][w].memo, worker'[j][w].item)
         /\ worker'[j][w].pc = "finish" => docMap'[worker'[j][w].item] # None
  <1> DEFINE r == worker[j][w]
             q == worker'[j][w]
             Good == /\ q.pc \in {"update", "map", "finish"} => IsMemoOfNext(q.memo, q.item)
                     /\ q.pc = "finish" => docMap'[q.item] # None
  <1> SUFFICES Good
    OBVIOUS
  <1>0. WorkerOK(r) /\ r \in Worker
    BY DEF TypeOK, WorkerOK
  <1>1. ASSUME q.pc \notin {"update", "map", "finish"} PROVE Good
    BY <1>1
  <1>2. \A d \in Docs : docMap[d] # None => docMap'[d] # None
    BY MappingStep
  <1>3. ASSUME NEW m, NEW d, IsMemoOf(m, d) PROVE IsMemoOfNext(m, d)
    BY <1>3, MemosKept DEF IsMemoOf, IsMemoOfNext
  <1>4. ASSUME q = r PROVE Good
    <2>1. CASE r.pc \in {"update", "map", "finish"}
      <3>1. r.item \in Docs
        BY <1>0, <2>1 DEF WorkerOK, Holding, Fetched
      <3>2. IsMemoOf(r.memo, r.item) /\ (r.pc = "finish" => docMap[r.item] # None)
        BY <2>1 DEF RecordedInv
      <3> QED
        BY <1>2, <1>3, <1>4, <3>1, <3>2
    <2> QED
      BY <1>1, <1>4, <2>1
  <1>5. ASSUME NEW k \in Jobs, NEW v \in Workers, NEW x, SetWorker(k, v, x)
        PROVE  q = r \/ (k = j /\ v = w /\ q = x)
    BY <1>5 DEF SetWorker, TypeOK
  <1>6. ASSUME NEW k \in Jobs, NEW v \in Workers, NEW pc, GoTo(k, v, pc),
               pc \notin {"update", "map", "finish"}
        PROVE  Good
    <2>1. worker[k][v] \in Worker
      BY DEF TypeOK
    <2>2. [worker[k][v] EXCEPT !.pc = pc].pc = pc
      BY <2>1 DEF Worker
    <2> QED
      BY <1>1, <1>4, <1>5, <1>6, <2>2 DEF GoTo
  <1>7. ASSUME NEW k \in Jobs, ResetWorkers(k) PROVE Good
    <2>1. q = r \/ q = IdleWorker
      BY <1>7 DEF ResetWorkers, TypeOK
    <2> QED
      BY <1>1, <1>4, <2>1 DEF IdleWorker
  <1>8. ErrorPC(j) \notin {"update", "map", "finish"}
    BY DEF ErrorPC
  <1>9. ASSUME NEW v \in Workers, NEW reply, NEW success, NEW k \in Jobs,
               AfterReply(k, v, reply, success), worker[k][v].pc \in Fetched
        PROVE  \/ Good
               \/ k = j /\ v = w /\ q = success
               \/ k = j /\ v = w /\ q = [r EXCEPT !.attempt = @ + 1]
    <2>1. CASE SetWorker(k, v, success)
      BY <1>4, <1>5, <2>1
    <2>2. CASE SetWorker(k, v, [worker[k][v] EXCEPT !.attempt = @ + 1])
      BY <1>4, <1>5, <2>2
    <2>3. CASE SetWorker(k, v, [worker[k][v] EXCEPT !.pc = ErrorPC(k)])
      <3> DEFINE pc == ErrorPC(k)
      <3>1. GoTo(k, v, pc)
        BY <2>3 DEF GoTo
      <3>2. pc \notin {"update", "map", "finish"}
        BY DEF ErrorPC
      <3> HIDE DEF pc, Good
      <3>3. Good
        BY <1>6, <3>1, <3>2
      <3> QED
        BY <3>3
    <2>4. \/ SetWorker(k, v, success)
          \/ SetWorker(k, v, [worker[k][v] EXCEPT !.attempt = @ + 1])
          \/ SetWorker(k, v, [worker[k][v] EXCEPT !.pc = ErrorPC(k)])
      BY <1>9 DEF AfterReply
    <2> HIDE DEF Good, q, r
    <2> QED
      BY <2>1, <2>2, <2>3, <2>4
  <1>10. ASSUME NEW k \in Jobs, NEW v \in Workers,
                Begin(k, v) \/ MarkItem(k, v) \/ FetchDocument(k, v) \/ PrepareContent(k, v)
         PROVE  Good
    <2>1. CASE Begin(k, v)
      <3>1. CASE SetWorker(k, v, [IdleWorker EXCEPT !.pc = "exited"])
        BY <1>1, <1>4, <1>5, <3>1 DEF IdleWorker
      <3>2. CASE GoTo(k, v, "mark")
        BY <1>6, <3>2
      <3> QED
        BY <2>1, <3>1, <3>2 DEF Begin, GoTo
    <2>2. CASE MarkItem(k, v)
      BY <1>6, <2>2 DEF MarkItem
    <2>3. CASE FetchDocument(k, v)
      <3>1. CASE GoTo(k, v, ErrorPC(k))
        BY <1>6, <3>1 DEF ErrorPC
      <3>2. ASSUME NEW doc, SetWorker(k, v, [worker[k][v] EXCEPT !.pc = "prepare", !.doc = doc])
            PROVE  Good
        <4>1. q = r \/ q.pc = "prepare"
          <5>1. worker[k][v] \in Worker
            BY DEF TypeOK
          <5>2. [worker[k][v] EXCEPT !.pc = "prepare", !.doc = doc].pc = "prepare"
            BY <5>1 DEF Worker
          <5> QED
            BY <1>5, <3>2, <5>2
        <4> QED
          BY <1>1, <1>4, <4>1
      <3> QED
        BY <2>3, <3>1, <3>2, FetchDocumentDoes
    <2>4. CASE PrepareContent(k, v)
      BY <1>6, <2>4 DEF PrepareContent, ErrorPC
    <2> QED
      BY <1>10, <2>1, <2>2, <2>3, <2>4
  <1>11. ASSUME NEW k \in Jobs, NEW v \in Workers, Lookup(k, v) PROVE Good
    <2> DEFINE p == worker[k][v]
    <2>1. p.pc = "lookup" /\ p.item \in Docs /\ p \in Worker
      BY <1>11 DEF Lookup, TypeOK, WorkerOK, Holding, Fetched
    <2>2. CASE GoTo(k, v, "fail") \/ GoTo(k, v, "create")
      BY <1>6, <2>2
    <2>3. ASSUME docMap[p.item] # None, NEW x, SetWorker(k, v, x), x.item = p.item,
                 x.memo = docMap[p.item].memo
          PROVE  Good
      <3>1. IsMemoOf(x.memo, x.item) /\ docMap[x.item] # None /\ x.item \in Docs
        BY <2>1, <2>3 DEF RecordedInv, RecordedMemosExist
      <3> QED
        BY <1>2, <1>3, <1>4, <1>5, <2>3, <3>1
    <2>4. /\ [p EXCEPT !.pc = "finish", !.result = "skipped",
                       !.memo = docMap[p.item].memo].item = p.item
          /\ [p EXCEPT !.pc = "finish", !.result = "skipped",
                       !.memo = docMap[p.item].memo].memo = docMap[p.item].memo
          /\ [p EXCEPT !.pc = "update", !.memo = docMap[p.item].memo].item = p.item
          /\ [p EXCEPT !.pc = "update", !.memo = docMap[p.item].memo].memo
               = docMap[p.item].memo
      BY <2>1 DEF Worker
    <2> QED
      BY <1>11, <2>2, <2>3, <2>4 DEF Lookup
  <1>12. ASSUME NEW k \in Jobs, NEW v \in Workers, CreateMemo(k, v) PROVE Good
    <2> DEFINE p == worker[k][v]
               success == [p EXCEPT !.pc = "map", !.result = "imported", !.memo = Len(memos) + 1]
    <2>1. p.pc = "create" /\ p.item \in Docs /\ p.doc \in Document /\ p \in Worker
      BY <1>12 DEF CreateMemo, TypeOK, WorkerOK, Holding, Fetched
    <2>2. PICK reply \in MemosReply :
            /\ memos' = IF reply.applied
                        THEN Append(memos, [doc |-> p.item, content |-> p.doc.content])
                        ELSE memos
            /\ AfterReply(k, v, reply, success)
      BY <1>12 DEF CreateMemo
    <2>3. success.item = p.item /\ success.pc = "map" /\ success.memo = Len(memos) + 1
      BY <2>1 DEF Worker
    <2>4. [p EXCEPT !.attempt = @ + 1].pc = "create"
      BY <2>1 DEF Worker
    <2>5. ASSUME reply.applied PROVE IsMemoOfNext(Len(memos) + 1, p.item)
      <3>1. [doc |-> p.item, content |-> p.doc.content] \in Memo
        BY <2>1 DEF Memo, Document
      <3> QED
        BY <2>2, <2>5, <3>1, AppendProperties, LenProperties DEF IsMemoOfNext, TypeOK
    <2>6. CASE reply.result = "ok"
      <3>1. reply.applied /\ SetWorker(k, v, success)
        BY <2>2, <2>6 DEF MemosReply, AfterReply
      <3> HIDE DEF success
      <3> QED
        BY <1>4, <1>5, <2>3, <2>5, <3>1
    <2>7. CASE reply.result # "ok"
      <3>1. \/ SetWorker(k, v, [p EXCEPT !.attempt = @ + 1])
            \/ GoTo(k, v, ErrorPC(k))
        BY <2>2, <2>7 DEF AfterReply, GoTo
      <3>2. CASE SetWorker(k, v, [p EXCEPT !.attempt = @ + 1])
        BY <1>1, <1>4, <1>5, <2>4, <3>2
      <3>3. CASE GoTo(k, v, ErrorPC(k))
        BY <1>6, <3>3 DEF ErrorPC
      <3> QED
        BY <3>1, <3>2, <3>3
    <2> QED
      BY <2>6, <2>7
  <1>13. ASSUME NEW k \in Jobs, NEW v \in Workers, UpdateMemo(k, v) PROVE Good
    <2> DEFINE p == worker[k][v]
               success == [p EXCEPT !.pc = "map", !.result = "overwritten"]
               again == [p EXCEPT !.attempt = @ + 1]
    <2>1. p.pc = "update" /\ p \in Worker /\ IsMemoOf(p.memo, p.item)
      BY <1>13 DEF UpdateMemo, TypeOK, RecordedInv
    <2>2. /\ success.item = p.item /\ success.pc = "map" /\ success.memo = p.memo
          /\ again.item = p.item /\ again.pc = "update" /\ again.memo = p.memo
      BY <2>1 DEF Worker
    <2>3. SetWorker(k, v, success) \/ SetWorker(k, v, again) \/ GoTo(k, v, ErrorPC(k))
      BY <1>13 DEF UpdateMemo, AfterReply, GoTo
    <2>4. ASSUME NEW x, SetWorker(k, v, x), x.item = p.item, x.memo = p.memo, x.pc # "finish"
          PROVE  Good
      BY <1>3, <1>4, <1>5, <2>1, <2>4
    <2>5. CASE GoTo(k, v, ErrorPC(k))
      BY <1>6, <2>5 DEF ErrorPC
    <2> HIDE DEF success, again
    <2> QED
      BY <2>2, <2>3, <2>4, <2>5
  <1>14. ASSUME NEW k \in Jobs, NEW v \in Workers, UpsertMapping(k, v) PROVE Good
    <2> DEFINE p == worker[k][v]
    <2>1. p.pc = "map" /\ p.item \in Docs /\ p.doc \in Document /\ p.memo \in Nat
          /\ p \in Worker /\ IsMemoOf(p.memo, p.item)
      BY <1>14 DEF UpsertMapping, TypeOK, WorkerOK, Worker, Holding, Fetched, RecordedInv
    <2>2. PICK outcome \in Exec(Canceled(k)) :
            /\ docMap' = IF Applied(outcome)
                         THEN [docMap EXCEPT ![p.item] = [memo |-> p.memo,
                                 content |-> p.doc.content, at |-> p.doc.at]]
                         ELSE docMap
            /\ GoTo(k, v, IF outcome = "ok" THEN "finish" ELSE "fail")
      BY <1>14 DEF UpsertMapping
    <2>3. CASE outcome = "ok"
      <3>1. [memo |-> p.memo, content |-> p.doc.content, at |-> p.doc.at] \in Mapping
        BY <2>1 DEF Mapping, Document
      <3>2. docMap'[p.item] # None
        BY <2>1, <2>2, <2>3, <3>1, NoneAssumption DEF Applied, TypeOK
      <3>3. /\ [p EXCEPT !.pc = "finish"].item = p.item
            /\ [p EXCEPT !.pc = "finish"].memo = p.memo
        BY <2>1 DEF Worker
      <3>4. SetWorker(k, v, [p EXCEPT !.pc = "finish"])
        BY <2>2, <2>3 DEF GoTo
      <3>5. IsMemoOfNext(p.memo, p.item)
        BY <1>3, <2>1
      <3> QED
        BY <1>4, <1>5, <3>2, <3>3, <3>4, <3>5
    <2>4. CASE outcome # "ok"
      BY <1>6, <2>2, <2>4
    <2> QED
      BY <2>3, <2>4
  <1>15. ASSUME NEW k \in Jobs, NEW v \in Workers,
                FinishItem(k, v) \/ FailItem(k, v) \/ CancelItem(k, v)
         PROVE  Good
    <2>1. SetWorker(k, v, IdleWorker)
      BY <1>15 DEF FinishItem, FailItem, CancelItem, ReturnItem, Release
    <2> QED
      BY <1>1, <1>4, <1>5, <2>1 DEF IdleWorker
  <1>16. ASSUME NEW k \in Jobs, ClientStep(k) PROVE worker' = worker
    BY <1>16 DEF ClientStep, CreateJob, Resume, Retry, Cancel, StartRunner
  <1>17. ASSUME NEW k \in Jobs, RunnerStep(k) PROVE Good
    <2>1. ASSUME NEW v \in Workers, NEW d \in Docs, Dispatch(k, v, d) PROVE Good
      <3>1. [IdleWorker EXCEPT !.pc = "taken", !.item = d].pc = "taken"
        BY DEF IdleWorker
      <3> QED
        BY <1>1, <1>4, <1>5, <2>1, <3>1 DEF Dispatch
    <2>2. ASSUME LoadItems(k) \/ Unregister(k) PROVE Good
      BY <1>4, <1>7, <2>2 DEF LoadItems, Unregister
    <2>3. ASSUME RunnerStep(k), ~LoadItems(k), ~Unregister(k),
                 ~\E v \in Workers, d \in Docs : Dispatch(k, v, d)
          PROVE  worker' = worker
      BY <2>3 DEF RunnerStep, StartCreated, StartRunner, ReadFailed, ResetFailed, MarkRunning,
                  StopDispatch, CloseQueue, Drain, WriteLoadFailed, WriteCanceled,
                  WriteFailed, WriteDone, WriteVerdict
    <2> QED
      BY <1>4, <1>17, <2>1, <2>2, <2>3
  <1>18. ASSUME Crash PROVE Good
    BY <1>1, <1>18 DEF Crash, IdleWorker
  <1>19. ASSUME (\E d \in Docs : Edit(d)) \/ UNCHANGED vars PROVE worker' = worker
    BY <1>19 DEF Edit, vars
  <1>20. ASSUME NEW k \in Jobs, NEW v \in Workers, WorkerStep(k, v) PROVE Good
    BY <1>10, <1>11, <1>12, <1>13, <1>14, <1>15, <1>20 DEF WorkerStep
  <1> QED
    BY <1>4, <1>16, <1>17, <1>18, <1>19, <1>20 DEF Next

\* Every step keeps what is recorded true.
LEMMA RecordedStep == TypeOK /\ RecordedInv /\ [Next]_vars => RecordedInv'
  <1> SUFFICES ASSUME TypeOK, RecordedInv, [Next]_vars PROVE RecordedInv'
    OBVIOUS
  <1>0. ASSUME NEW m, NEW d, IsMemoOf(m, d) PROVE IsMemoOfNext(m, d)
    BY <1>0, MemosKept DEF IsMemoOf, IsMemoOfNext
  <1>1. ASSUME NEW d \in Docs, docMap'[d] # None
        PROVE  IsMemoOfNext(docMap'[d].memo, d)
    <2>1. CASE docMap'[d] = docMap[d]
      BY <1>0, <1>1, <2>1 DEF RecordedInv, RecordedMemosExist
    <2>2. CASE docMap'[d] # docMap[d]
      BY <1>0, <2>2, MappingStep DEF RecordedInv
    <2> QED
      BY <2>1, <2>2
  <1>2. ASSUME NEW d \in Docs, NEW j \in Jobs, item'[j][d].status \in Completed
        PROVE  docMap'[d] # None /\ IsMemoOfNext(item'[j][d].memo, d)
    <2>1. docMap[d] # None => docMap'[d] # None
      BY MappingStep
    <2>2. CASE item'[j][d] = item[j][d]
      BY <1>0, <1>2, <2>1, <2>2 DEF RecordedInv, RecordedMemosExist
    <2>3. CASE item'[j][d] # item[j][d]
      BY <1>0, <1>2, <2>1, <2>3, ItemStep DEF RecordedInv
    <2> QED
      BY <2>2, <2>3
  <1> QED
    BY <1>1, <1>2, WorkerRecorded
    DEF RecordedInv, RecordedMemosExist, IsMemoOf, IsMemoOfNext

\* Nothing is recorded at first.
LEMMA RecordedInit == Init => RecordedInv
  BY DEF Init, RecordedInv, RecordedMemosExist, IdleWorker, Completed

\* Whatever is canceled, fails, races or crashes: every mapping points at a memo
\* that was created for its document, and every completed item has one and is
\* mapped (importer.go:269-288).
THEOREM RecordedMemosAlwaysExist == Spec => []RecordedMemosExist
  <1>1. RecordedInv => RecordedMemosExist
    BY DEF RecordedInv
  <1> QED
    BY <1>1, RecordedInit, RecordedStep, TypeCorrect, PTL DEF Spec

-----------------------------------------------------------------------------
(* Runners take the slots of RunnerSlots.                                  *)

\* What a step may do to the run of job j, by itself.
OnlyRun(j) == \A k \in Jobs \ {j} : run'[k] = run[k]
Keeps(j) ==
  /\ OnlyRun(j)
  /\ run'[j].phase = "none" <=> run[j].phase = "none"
  /\ run'[j].canceled = run[j].canceled
Starts(j) ==
  /\ OnlyRun(j)
  /\ run[j].phase = "none"
  /\ run'[j].phase # "none" /\ ~run'[j].canceled
Cancels(j) ==
  /\ OnlyRun(j)
  /\ run[j].phase # "none"
  /\ run'[j].phase # "none" /\ run'[j].canceled
Ends(j) ==
  /\ OnlyRun(j)
  /\ run[j].phase # "none"
  /\ run'[j].phase = "none" /\ ~run'[j].canceled

\* A run that moves to another position keeps its slot.
LEMMA PhaseKeeps ==
  ASSUME TypeOK, NEW j \in Jobs, run[j].phase # "none", NEW phase \in Phases \ {"none"},
         SetPhase(j, phase)
  PROVE  Keeps(j)
  <1>1. run[j] \in Run
    BY DEF TypeOK
  <1> QED
    BY <1>1 DEF SetPhase, SetRun, Keeps, OnlyRun, TypeOK, Run

\* startRunner takes a free slot.
LEMMA StartRunnerStarts ==
  ASSUME TypeOK, NEW j \in Jobs, NEW phase \in Phases \ {"none"}, StartRunner(j, phase)
  PROVE  Starts(j)
  BY DEF StartRunner, SetRun, NoRun, Starts, OnlyRun, TypeOK, Run

\* What the clients do to runs.
LEMMA ClientStepRuns ==
  ASSUME TypeOK, NEW j \in Jobs, ClientStep(j)
  PROVE  Keeps(j) \/ Starts(j) \/ Cancels(j)
  <1>1. CASE \E ds \in SUBSET Docs : CreateJob(j, ds)
    BY <1>1 DEF CreateJob, Keeps, OnlyRun
  <1>2. CASE Resume(j)
    BY <1>2, StartRunnerStarts DEF Resume, Phases
  <1>3. CASE Retry(j)
    BY <1>3, StartRunnerStarts DEF Retry, Phases
  <1>4. CASE Cancel(j)
    <2>1. run[j] \in Run
      BY DEF TypeOK
    <2> QED
      BY <1>4, <2>1 DEF Cancel, SetRun, Cancels, OnlyRun, TypeOK, Run
  <1> QED
    BY <1>1, <1>2, <1>3, <1>4 DEF ClientStep

\* What a runner does to its run.
LEMMA RunnerStepRuns ==
  ASSUME TypeOK, NEW j \in Jobs, RunnerStep(j)
  PROVE  Keeps(j) \/ Starts(j) \/ Ends(j)
  <1>0. run[j] \in Run
    BY DEF TypeOK
  <1>1. CASE StartCreated(j)
    <2>1. CASE StartRunner(j, "init")
      BY <2>1, StartRunnerStarts DEF Phases
    <2>2. CASE UNCHANGED run
      BY <2>2 DEF Keeps, OnlyRun
    <2> QED
      BY <1>1, <2>1, <2>2 DEF StartCreated
  <1>2. CASE ReadFailed(j)
    <2>1. CASE SetRun(j, [run[j] EXCEPT !.phase = "reset", !.todo = FailedItems(j)])
      BY <1>0, <1>2, <2>1 DEF ReadFailed, SetRun, Keeps, OnlyRun, TypeOK, Run
    <2>2. CASE SetPhase(j, "return")
      BY <1>2, <2>2, PhaseKeeps DEF ReadFailed, Phases
    <2> QED
      BY <1>2, <2>1, <2>2 DEF ReadFailed
  <1>3. CASE ResetFailed(j)
    <2>1. CASE SetRun(j, [run[j] EXCEPT !.phase = "init", !.todo = {}])
      BY <1>0, <1>3, <2>1 DEF ResetFailed, SetRun, Keeps, OnlyRun, TypeOK, Run
    <2>2. CASE SetPhase(j, "return")
      BY <1>3, <2>2, PhaseKeeps DEF ResetFailed, Phases
    <2> QED
      BY <1>3, <2>1, <2>2 DEF ResetFailed
  <1>4. CASE MarkRunning(j)
    BY <1>4, PhaseKeeps DEF MarkRunning, Phases
  <1>5. CASE LoadItems(j)
    <2>1. CASE SetRun(j, [run[j] EXCEPT !.phase = "dispatch", !.todo = OpenItems(j)])
      BY <1>0, <1>5, <2>1 DEF LoadItems, SetRun, Keeps, OnlyRun, TypeOK, Run
    <2>2. CASE SetPhase(j, "loadFailed")
      BY <1>5, <2>2, PhaseKeeps DEF LoadItems, Phases
    <2> QED
      BY <1>5, <2>1, <2>2 DEF LoadItems
  <1>6. CASE \E w \in Workers, d \in Docs : Dispatch(j, w, d)
    BY <1>0, <1>6 DEF Dispatch, SetRun, Keeps, OnlyRun, TypeOK, Run
  <1>7. CASE StopDispatch(j) \/ CloseQueue(j)
    BY <1>7, PhaseKeeps DEF StopDispatch, CloseQueue, Phases
  <1>8. CASE Drain(j)
    BY <1>8, PhaseKeeps DEF Drain, Verdict, Phases
  <1>9. CASE WriteLoadFailed(j) \/ WriteCanceled(j) \/ WriteFailed(j) \/ WriteDone(j)
    BY <1>9, PhaseKeeps
    DEF WriteLoadFailed, WriteCanceled, WriteFailed, WriteDone, WriteVerdict, Phases
  <1>10. CASE Unregister(j)
    BY <1>10 DEF Unregister, SetRun, NoRun, Ends, OnlyRun, TypeOK
  <1> QED
    BY <1>1, <1>2, <1>3, <1>4, <1>5, <1>6, <1>7, <1>8, <1>9, <1>10 DEF RunnerStep

\* A worker may count an error in its run and does nothing else to it.
LEMMA WorkerStepRuns ==
  ASSUME TypeOK, NEW j \in Jobs, NEW w \in Workers, WorkerStep(j, w)
  PROVE  Keeps(j)
  <1>0. run[j] \in Run
    BY DEF TypeOK
  <1>1. CASE UNCHANGED run
    BY <1>1 DEF Keeps, OnlyRun
  <1>2. ASSUME NEW failed, Release(j, w, failed) PROVE Keeps(j)
    BY <1>0, <1>2 DEF Release, SetRun, Keeps, OnlyRun, TypeOK, Run
  <1>3. CASE FinishItem(j, w)
    BY <1>2, <1>3 DEF FinishItem
  <1>4. CASE FailItem(j, w) \/ CancelItem(j, w)
    BY <1>2, <1>4 DEF FailItem, CancelItem, ReturnItem
  <1>5. CASE Begin(j, w) \/ MarkItem(j, w) \/ FetchDocument(j, w) \/ PrepareContent(j, w)
    BY <1>1, <1>5 DEF Begin, MarkItem, FetchDocument, PrepareContent
  <1>6. CASE Lookup(j, w) \/ CreateMemo(j, w) \/ UpdateMemo(j, w) \/ UpsertMapping(j, w)
    BY <1>1, <1>6 DEF Lookup, CreateMemo, UpdateMemo, UpsertMapping
  <1> QED
    BY <1>3, <1>4, <1>5, <1>6 DEF WorkerStep

\* Taken together: a step concerns the run of one job, or stops them all.
LEMMA StepRuns ==
  ASSUME TypeOK, Next
  PROVE  \/ UNCHANGED run
         \/ \A j \in Jobs : run'[j] = NoRun
         \/ \E j \in Jobs : Keeps(j) \/ Starts(j) \/ Cancels(j) \/ Ends(j)
  <1>1. CASE \E d \in Docs : Edit(d)
    BY <1>1 DEF Edit
  <1>2. CASE Crash
    BY <1>2 DEF Crash
  <1> QED
    BY <1>1, <1>2, ClientStepRuns, RunnerStepRuns, WorkerStepRuns DEF Next

\* A job without a runner keeps no cancellation.
FreeSlots == \A j \in Jobs : run[j].phase = "none" => ~run[j].canceled

\* A cancellation goes with the runner.
LEMMA FreeSlotsKept == TypeOK /\ FreeSlots /\ [Next]_vars => FreeSlots'
  <1> SUFFICES ASSUME TypeOK, FreeSlots, [Next]_vars PROVE FreeSlots'
    OBVIOUS
  <1>1. CASE UNCHANGED run
    BY <1>1 DEF FreeSlots
  <1>2. CASE \A j \in Jobs : run'[j] = NoRun
    BY <1>2 DEF FreeSlots, NoRun
  <1>3. CASE \E j \in Jobs : Keeps(j) \/ Starts(j) \/ Cancels(j) \/ Ends(j)
    BY <1>3 DEF FreeSlots, Keeps, Starts, Cancels, Ends, OnlyRun
  <1> QED
    BY <1>1, <1>2, <1>3, StepRuns DEF vars

\* At first no job has a runner.
LEMMA SlotsInit == Init => Slots!Init /\ FreeSlots
  BY DEF Init, Slots!Init, NoRun, FreeSlots

\* Every step of the engine is a step of the slots, or none.
LEMMA SlotsStep ==
  ASSUME TypeOK, FreeSlots, [Next]_vars
  PROVE  [Slots!Next]_(Slots!slots)
  <1>1. CASE UNCHANGED run
    BY <1>1 DEF Slots!slots
  <1>2. CASE \A j \in Jobs : run'[j] = NoRun
    BY <1>2 DEF Slots!Next, Slots!Stop, NoRun
  <1>3. ASSUME NEW j \in Jobs, Keeps(j) PROVE UNCHANGED Slots!slots
    BY <1>3 DEF Slots!slots, Keeps, OnlyRun
  <1>4. ASSUME NEW j \in Jobs, Starts(j) PROVE Slots!Start(j)
    BY <1>4 DEF Slots!Start, Starts, OnlyRun, FreeSlots
  <1>5. ASSUME NEW j \in Jobs, Cancels(j) PROVE Slots!Cancel(j)
    BY <1>5 DEF Slots!Cancel, Cancels, OnlyRun
  <1>6. ASSUME NEW j \in Jobs, Ends(j) PROVE Slots!End(j)
    BY <1>6 DEF Slots!End, Ends, OnlyRun
  <1>7. CASE \E j \in Jobs : Keeps(j) \/ Starts(j) \/ Cancels(j) \/ Ends(j)
    BY <1>3, <1>4, <1>5, <1>6, <1>7 DEF Slots!Next
  <1> QED
    BY <1>1, <1>2, <1>7, StepRuns DEF vars

\* The engine implements RunnerSlots: a runner is never started over another
\* and a cancellation never reaches the runner after the one it was for, with
\* any number of jobs, clients, cancellations and crashes (router.go:113-143).
THEOREM EngineImplementsSlots == Spec => RunnersTakeSlots
  <1>1. Init /\ [][Next]_vars => [](TypeOK /\ FreeSlots)
    BY InitType, NextType, SlotsInit, FreeSlotsKept, PTL
  <1> QED
    BY <1>1, SlotsInit, SlotsStep, PTL DEF Spec, RunnersTakeSlots, Slots!Spec
=============================================================================
