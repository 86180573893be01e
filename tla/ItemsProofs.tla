----------------------------- MODULE ItemsProofs -----------------------------
(* What happens to the items of a job, for every value of the constants of    *)
(* ImportEngine: no item is with two workers, completed items stay completed, *)
(* a job is done only when its items are settled, and one that is to fail has *)
(* an item recorded as failed.  Then what is at Memos and what                *)
(* document_mapping says of it, as long as no two jobs have the same document *)
(* in work at once: the mapped memo of an unchanged document has its content, *)
(* and, when nothing fails halfway, no document has two memos.                *)
EXTENDS ImportEngineProofs

-----------------------------------------------------------------------------
(* The invariant.                                                          *)

Holds(j, w) == worker[j][w].pc \in Holding
HoldsItem(j, w, d) == Holds(j, w) /\ worker[j][w].item = d

\* While there are workers.
Serving == {"dispatch", "drain", "drainCanceled"}

\* A job is not run before it is stored.
FreshOK(j) ==
  jobStatus[j] = "none" =>
    /\ run[j].phase = "none"
    /\ j \notin creating
    /\ \A d \in Docs : item[j][d].status = "none"

\* An item that a worker holds is open, no longer to be handed out, and no other
\* worker's; workers hold items only while the run waits for them.
HeldOK(j) ==
  \A w \in Workers : Holds(j, w) =>
    /\ run[j].phase \in Serving
    /\ worker[j][w].item \in OpenItems(j)
    /\ worker[j][w].item \notin run[j].todo
    /\ \A v \in Workers \ {w} : ~HoldsItem(j, v, worker[j][w].item)

\* What the runner means to hand out is open, what it means to reset has failed.
TodoOK(j) ==
  /\ run[j].phase \in Serving => run[j].todo \subseteq OpenItems(j)
  /\ run[j].phase = "drain" => run[j].todo = {}
  /\ run[j].phase = "reset" => run[j].todo \subseteq FailedItems(j)

\* As long as no error is counted and nobody cancels, what is open is still to be
\* handed out or in work; so it is settled when the verdict is done.
SettledOK(j) ==
  /\ (run[j].phase \in {"dispatch", "drain"} /\ run[j].failures = 0 /\ ~run[j].canceled) =>
       \A d \in OpenItems(j) : d \in run[j].todo \/ \E w \in Workers : HoldsItem(j, w, d)
  /\ run[j].phase = "writeDone" => OpenItems(j) = {}

JobOK(j) == FreshOK(j) /\ HeldOK(j) /\ TodoOK(j) /\ SettledOK(j)

ItemsInv == \A j \in Jobs : JobOK(j)

\* Before anything is stored there is nothing to say.
LEMMA ItemsInit == Init => ItemsInv
  <1> SUFFICES ASSUME Init, NEW j \in Jobs PROVE JobOK(j)
    BY DEF ItemsInv
  <1>1. run[j].phase = "none" /\ j \notin creating /\ \A d \in Docs : item[j][d].status = "none"
    BY DEF Init, NoRun
  <1>2. \A w \in Workers : worker[j][w].pc \notin Holding
    BY DEF Init, IdleWorker, Holding, Fetched
  <1> QED
    BY <1>1, <1>2 DEF JobOK, FreshOK, HeldOK, TodoOK, SettledOK, Holds, HoldsItem, Serving

\* The invariant speaks of a job's own state only.
LEMMA OtherJobsKept ==
  ASSUME NEW j \in Jobs, JobOK(j),
         jobStatus'[j] = jobStatus[j], item'[j] = item[j], run'[j] = run[j],
         worker'[j] = worker[j], j \in creating' => j \in creating
  PROVE  JobOK(j)'
  BY DEF JobOK, FreshOK, HeldOK, TodoOK, SettledOK, Holds, HoldsItem, OpenItems, FailedItems

-----------------------------------------------------------------------------
(* Clients and the environment.                                            *)

\* A step in which no worker holds anything before or after, and which leaves
\* the items alone.
LEMMA IdleJobKept ==
  ASSUME NEW j \in Jobs, item'[j] = item[j],
         jobStatus'[j] # "none",
         run'[j].phase \notin Serving \cup {"reset", "writeDone"},
         \A w \in Workers : worker'[j][w].pc \notin Holding
  PROVE  JobOK(j)'
  BY DEF JobOK, FreshOK, HeldOK, TodoOK, SettledOK, Holds, HoldsItem, Serving

\* Outside of Serving no worker holds an item.
LEMMA NobodyHolds ==
  ASSUME NEW j \in Jobs, JobOK(j), run[j].phase \notin Serving
  PROVE  \A w \in Workers : worker[j][w].pc \notin Holding
  BY DEF JobOK, HeldOK, Holds

\* A job that is run is stored.
LEMMA RunnersJobIsStored ==
  ASSUME NEW j \in Jobs, JobOK(j), run[j].phase # "none" \/ j \in creating
  PROVE  jobStatus[j] # "none"
  BY DEF JobOK, FreshOK

\* A runner is registered for a stored job.
LEMMA StartRunnerItems ==
  ASSUME TypeOK, NEW j \in Jobs, JobOK(j), jobStatus[j] # "none",
         NEW phase \in {"init", "failedItems"}, StartRunner(j, phase)
  PROVE  JobOK(j)'
  <1>1. run'[j].phase = phase
    BY DEF StartRunner, SetRun, TypeOK, NoRun
  <1>2. \A w \in Workers : worker[j][w].pc \notin Holding
    BY NobodyHolds DEF StartRunner, Serving
  <1>3. UNCHANGED <<item, jobStatus, worker>>
    BY DEF StartRunner, durable
  <1> QED
    BY <1>1, <1>2, <1>3, IdleJobKept DEF Serving

\* Requests of clients.
LEMMA ClientStepItems ==
  ASSUME TypeOK, NEW j \in Jobs, JobOK(j), ClientStep(j)
  PROVE  JobOK(j)'
  <1>1. ASSUME NEW ds \in SUBSET Docs, CreateJob(j, ds) PROVE JobOK(j)'
    <2>1. run[j].phase = "none"
      BY <1>1 DEF CreateJob, JobOK, FreshOK
    <2>2. \A w \in Workers : worker[j][w].pc \notin Holding
      BY <2>1, NobodyHolds DEF Serving
    <2>3. UNCHANGED <<run, worker>> /\ jobStatus'[j] = "pending"
      BY <1>1 DEF CreateJob, TypeOK
    <2> QED
      BY <2>1, <2>2, <2>3
      DEF JobOK, FreshOK, HeldOK, TodoOK, SettledOK, Holds, HoldsItem, Serving
  <1>2. CASE Resume(j) \/ Retry(j)
    BY <1>2, StartRunnerItems DEF Resume, Retry
  <1>3. CASE Cancel(j)
    <2>1. run[j] \in Run
      BY DEF TypeOK
    <2>2. /\ run'[j].phase = run[j].phase /\ run'[j].todo = run[j].todo
          /\ run'[j].canceled
      BY <1>3, <2>1 DEF Cancel, SetRun, TypeOK, Run
    <2>3. UNCHANGED <<item, jobStatus, creating, worker>>
      BY <1>3 DEF Cancel, durable
    <2> QED
      BY <2>2, <2>3 DEF JobOK, FreshOK, HeldOK, TodoOK, SettledOK, Holds, HoldsItem,
                        OpenItems, FailedItems
  <1> QED
    BY <1>1, <1>2, <1>3 DEF ClientStep

\* The process stops.
LEMMA CrashItems ==
  ASSUME TypeOK, NEW j \in Jobs, JobOK(j), Crash
  PROVE  JobOK(j)'
  <1>1. UNCHANGED <<item, jobStatus>> /\ creating' = {} /\ run'[j].phase = "none"
    BY DEF Crash, durable, NoRun
  <1>2. \A w \in Workers : worker'[j][w].pc \notin Holding
    BY DEF Crash, IdleWorker, Holding, Fetched
  <1> QED
    BY <1>1, <1>2 DEF JobOK, FreshOK, HeldOK, TodoOK, SettledOK, Holds, HoldsItem, Serving

-----------------------------------------------------------------------------
(* The runner.                                                             *)

\* It moves outside of the phases with workers.
LEMMA PhaseItems ==
  ASSUME TypeOK, NEW j \in Jobs, JobOK(j), run[j].phase \notin Serving \cup {"none"},
         NEW phase \in Phases \ (Serving \cup {"reset", "writeDone", "none"}),
         SetPhase(j, phase), item'[j] = item[j], jobStatus'[j] # "none", UNCHANGED worker
  PROVE  JobOK(j)'
  <1>1. run'[j].phase = phase
    BY DEF SetPhase, SetRun, TypeOK, Run
  <1> QED
    BY <1>1, NobodyHolds, IdleJobKept

\* A status that is written is one.
LEMMA StatusItems ==
  ASSUME TypeOK, NEW j \in Jobs, jobStatus[j] # "none", NEW outcome, NEW status,
         status # "none", UpdateJobStatus(j, outcome, status)
  PROVE  jobStatus'[j] # "none"
  BY DEF UpdateJobStatus, TypeOK

\* Failed items are read and turned back to pending; the job is marked running.
LEMMA PreparationItems ==
  ASSUME TypeOK, NEW j \in Jobs, JobOK(j), ReadFailed(j) \/ ResetFailed(j) \/ MarkRunning(j)
  PROVE  JobOK(j)'
  <1>0. run[j] \in Run
    BY DEF TypeOK
  <1>1. jobStatus[j] # "none" /\ run[j].phase \notin Serving \cup {"none"}
    BY RunnersJobIsStored DEF ReadFailed, ResetFailed, MarkRunning, Serving
  <1>2. \A w \in Workers : worker[j][w].pc \notin Holding
    BY <1>1, NobodyHolds
  <1>3. UNCHANGED worker
    BY DEF ReadFailed, ResetFailed, MarkRunning
  <1>4. CASE ReadFailed(j)
    <2>1. UNCHANGED <<item, jobStatus>>
      BY <1>4 DEF ReadFailed, durable
    <2>2. CASE SetRun(j, [run[j] EXCEPT !.phase = "reset", !.todo = FailedItems(j)])
      <3>1. run'[j].phase = "reset" /\ run'[j].todo = FailedItems(j)
        BY <1>0, <2>2 DEF SetRun, TypeOK, Run
      <3>2. FailedItems(j)' = FailedItems(j)
        BY <2>1 DEF FailedItems
      <3> QED
        BY <1>1, <1>2, <1>3, <2>1, <3>1, <3>2
        DEF JobOK, FreshOK, HeldOK, TodoOK, SettledOK, Holds, HoldsItem, Serving
    <2>3. CASE SetPhase(j, "return")
      BY <1>1, <1>3, <2>1, <2>3, PhaseItems DEF Phases, Serving
    <2> QED
      BY <1>4, <2>2, <2>3 DEF ReadFailed
  <1>5. CASE ResetFailed(j)
    <2>1. UNCHANGED jobStatus
      BY <1>5 DEF ResetFailed
    <2>2. CASE SetRun(j, [run[j] EXCEPT !.phase = "init", !.todo = {}])
      <3>1. run'[j].phase = "init"
        BY <1>0, <2>2 DEF SetRun, TypeOK, Run
      <3> QED
        BY <1>1, <1>2, <1>3, <2>1, <3>1
        DEF JobOK, FreshOK, HeldOK, TodoOK, SettledOK, Holds, HoldsItem, Serving
    <2>3. CASE SetPhase(j, "return") /\ UNCHANGED item
      BY <1>1, <1>3, <2>1, <2>3, PhaseItems DEF Phases, Serving
    <2> QED
      BY <1>5, <2>2, <2>3 DEF ResetFailed
  <1>6. CASE MarkRunning(j)
    <2>1. item'[j] = item[j]
      BY <1>6 DEF MarkRunning
    <2>2. jobStatus'[j] # "none"
      BY <1>1, <1>6, StatusItems DEF MarkRunning
    <2>3. SetPhase(j, "load") \/ SetPhase(j, "return")
      BY <1>6 DEF MarkRunning
    <2> QED
      BY <1>1, <1>3, <2>1, <2>2, <2>3, PhaseItems DEF Phases, Serving
  <1> QED
    BY <1>4, <1>5, <1>6

\* The open items are read and the workers started.
LEMMA LoadItemsItems ==
  ASSUME TypeOK, NEW j \in Jobs, JobOK(j), LoadItems(j)
  PROVE  JobOK(j)'
  <1>0. run[j] \in Run
    BY DEF TypeOK
  <1>1. jobStatus'[j] # "none" /\ UNCHANGED <<item, jobStatus>>
    BY RunnersJobIsStored DEF LoadItems, durable
  <1>2. CASE SetRun(j, [run[j] EXCEPT !.phase = "dispatch", !.todo = OpenItems(j)]) /\ ResetWorkers(j)
    <2>1. run'[j].phase = "dispatch" /\ run'[j].todo = OpenItems(j)
      BY <1>0, <1>2 DEF SetRun, TypeOK, Run
    <2>2. \A w \in Workers : worker'[j][w].pc \notin Holding
      BY <1>2 DEF ResetWorkers, IdleWorker, Holding, Fetched, TypeOK
    <2>3. OpenItems(j)' = OpenItems(j)
      BY <1>1 DEF OpenItems
    <2> QED
      BY <1>1, <2>1, <2>2, <2>3
      DEF JobOK, FreshOK, HeldOK, TodoOK, SettledOK, Holds, HoldsItem, Serving
  <1>3. CASE SetPhase(j, "loadFailed") /\ UNCHANGED worker
    BY <1>1, <1>3, PhaseItems DEF LoadItems, Phases, Serving
  <1> QED
    BY <1>2, <1>3 DEF LoadItems

\* An item is handed out: what was to be handed out now is held.
LEMMA DispatchItems ==
  ASSUME TypeOK, NEW j \in Jobs, NEW w \in Workers, NEW d \in Docs, JobOK(j), Dispatch(j, w, d)
  PROVE  JobOK(j)'
  <1>0. run[j] \in Run
    BY DEF TypeOK
  <1>1. jobStatus[j] # "none" /\ UNCHANGED <<item, jobStatus, creating>>
    BY RunnersJobIsStored DEF Dispatch, durable
  <1>2. /\ run'[j].phase = "dispatch" /\ run[j].phase = "dispatch"
        /\ run'[j].todo = run[j].todo \ {d} /\ d \in run[j].todo
        /\ run'[j].failures = run[j].failures /\ run'[j].canceled = run[j].canceled
    BY <1>0 DEF Dispatch, SetRun, TypeOK, Run
  <1>3. worker'[j][w].pc = "taken" /\ worker'[j][w].item = d /\ worker[j][w].pc = "idle"
    BY DEF Dispatch, SetWorker, TypeOK, IdleWorker
  <1>4. \A v \in Workers \ {w} : worker'[j][v] = worker[j][v]
    BY DEF Dispatch, SetWorker, TypeOK
  <1>5. OpenItems(j)' = OpenItems(j)
    BY <1>1 DEF OpenItems
  <1>6. HeldOK(j)'
    <2> SUFFICES ASSUME NEW v \in Workers, worker'[j][v].pc \in Holding
                 PROVE  /\ run'[j].phase \in Serving
                        /\ worker'[j][v].item \in OpenItems(j)'
                        /\ worker'[j][v].item \notin run'[j].todo
                        /\ \A u \in Workers \ {v} : ~(/\ worker'[j][u].pc \in Holding
                                                      /\ worker'[j][u].item = worker'[j][v].item)
      BY DEF HeldOK, Holds, HoldsItem
    <2>1. d \in OpenItems(j)
      BY <1>2 DEF JobOK, TodoOK, Serving
    <2>2. CASE v = w
      BY <1>2, <1>3, <1>4, <1>5, <2>1, <2>2 DEF JobOK, HeldOK, Holds, HoldsItem, Serving
    <2>3. CASE v # w
      BY <1>2, <1>3, <1>4, <1>5, <2>3 DEF JobOK, HeldOK, Holds, HoldsItem, Serving
    <2> QED
      BY <2>2, <2>3
  <1>7. TodoOK(j)'
    BY <1>2, <1>5 DEF JobOK, TodoOK, Serving
  <1>8. SettledOK(j)'
    <2> SUFFICES ASSUME run[j].failures = 0, ~run[j].canceled, NEW e \in OpenItems(j)
                 PROVE  \/ e \in run'[j].todo
                        \/ \E v \in Workers : worker'[j][v].pc \in Holding /\ worker'[j][v].item = e
      BY <1>2, <1>5 DEF SettledOK, Holds, HoldsItem
    <2>1. e \in run[j].todo \/ \E v \in Workers : worker[j][v].pc \in Holding /\ worker[j][v].item = e
      BY <1>2 DEF JobOK, SettledOK, Holds, HoldsItem
    <2>2. "idle" \notin Holding /\ "taken" \in Holding
      BY DEF Holding, Fetched
    <2> QED
      BY <1>2, <1>3, <1>4, <2>1, <2>2
  <1> QED
    BY <1>1, <1>6, <1>7, <1>8 DEF JobOK, FreshOK

\* The channel is closed.
LEMMA CloseItems ==
  ASSUME TypeOK, NEW j \in Jobs, JobOK(j), StopDispatch(j) \/ CloseQueue(j)
  PROVE  JobOK(j)'
  <1>0. run[j] \in Run
    BY DEF TypeOK
  <1>1. jobStatus[j] # "none" /\ UNCHANGED <<item, jobStatus, creating, worker>>
    BY RunnersJobIsStored DEF StopDispatch, CloseQueue, durable
  <1>2. /\ run[j].phase = "dispatch" /\ run'[j].todo = run[j].todo
        /\ run'[j].failures = run[j].failures /\ run'[j].canceled = run[j].canceled
        /\ \/ run'[j].phase = "drainCanceled"
           \/ run'[j].phase = "drain" /\ run[j].todo = {}
    BY <1>0 DEF StopDispatch, CloseQueue, SetPhase, SetRun, TypeOK, Run
  <1>3. OpenItems(j)' = OpenItems(j)
    BY <1>1 DEF OpenItems
  <1> QED
    BY <1>1, <1>2, <1>3
    DEF JobOK, FreshOK, HeldOK, TodoOK, SettledOK, Holds, HoldsItem, Serving

\* The verdict: with all workers idle, nothing canceled and no error counted,
\* nothing is open.
LEMMA DrainItems ==
  ASSUME TypeOK, NEW j \in Jobs, JobOK(j), Drain(j)
  PROVE  JobOK(j)'
  <1>0. run[j] \in Run
    BY DEF TypeOK
  <1>1. jobStatus[j] # "none" /\ UNCHANGED <<item, jobStatus, worker>>
    BY RunnersJobIsStored DEF Drain, durable
  <1>2. \A w \in Workers : worker[j][w].pc \notin Holding
    BY DEF Drain, Drained, Holding, Fetched
  <1>3. run'[j].phase = Verdict(j) /\ Verdict(j) \in {"writeCanceled", "writeFailed", "writeDone"}
    BY <1>0 DEF Drain, SetPhase, SetRun, TypeOK, Run, Verdict
  <1>4. CASE Verdict(j) = "writeDone"
    <2>1. run[j].phase = "drain" /\ ~run[j].canceled /\ run[j].failures = 0
      BY <1>0, <1>4 DEF Verdict, Canceled, Drain, Run
    <2>2. OpenItems(j) = {}
      BY <1>2, <2>1 DEF JobOK, SettledOK, TodoOK, Holds, HoldsItem
    <2>3. OpenItems(j)' = {}
      BY <1>1, <2>2 DEF OpenItems
    <2> QED
      BY <1>1, <1>2, <1>3, <1>4, <2>3
      DEF JobOK, FreshOK, HeldOK, TodoOK, SettledOK, Holds, HoldsItem, Serving
  <1>5. CASE Verdict(j) # "writeDone"
    BY <1>1, <1>2, <1>3, <1>5, IdleJobKept DEF Serving
  <1> QED
    BY <1>4, <1>5

\* The verdict is written.
LEMMA VerdictItems ==
  ASSUME TypeOK, NEW j \in Jobs, JobOK(j),
         WriteLoadFailed(j) \/ WriteCanceled(j) \/ WriteFailed(j) \/ WriteDone(j)
  PROVE  JobOK(j)'
  <1>1. ASSUME NEW phase, phase \notin Serving \cup {"none"}, NEW status, status # "none",
               NEW canceled, WriteVerdict(j, phase, status, canceled)
        PROVE  JobOK(j)'
    <2>1. jobStatus[j] # "none" /\ run[j].phase \notin Serving \cup {"none"}
      BY <1>1, RunnersJobIsStored DEF WriteVerdict
    <2>2. jobStatus'[j] # "none"
      BY <1>1, <2>1, StatusItems DEF WriteVerdict
    <2>3. SetPhase(j, "return") /\ UNCHANGED <<item, worker>>
      BY <1>1 DEF WriteVerdict
    <2> QED
      BY <2>1, <2>2, <2>3, PhaseItems DEF Phases, Serving
  <1> QED
    BY <1>1 DEF WriteLoadFailed, WriteCanceled, WriteFailed, WriteDone, Serving

\* The runner is gone.
LEMMA UnregisterItems ==
  ASSUME TypeOK, NEW j \in Jobs, JobOK(j), Unregister(j)
  PROVE  JobOK(j)'
  <1>1. jobStatus[j] # "none" /\ UNCHANGED <<item, jobStatus>>
    BY RunnersJobIsStored DEF Unregister, durable
  <1>2. run'[j].phase = "none"
    BY DEF Unregister, SetRun, NoRun, TypeOK
  <1>3. \A w \in Workers : worker'[j][w].pc \notin Holding
    BY DEF Unregister, ResetWorkers, IdleWorker, Holding, Fetched, TypeOK
  <1> QED
    BY <1>1, <1>2, <1>3, IdleJobKept DEF Serving

\* A new job's runner is started, or another one has been.
LEMMA StartCreatedItems ==
  ASSUME TypeOK, NEW j \in Jobs, JobOK(j), StartCreated(j)
  PROVE  JobOK(j)'
  <1>1. CASE StartRunner(j, "init")
    BY <1>1, StartRunnerItems, RunnersJobIsStored DEF StartCreated
  <1>2. CASE UNCHANGED <<durable, external, run, worker, bounds>>
    BY <1>2, OtherJobsKept DEF StartCreated, durable
  <1> QED
    BY <1>1, <1>2 DEF StartCreated

\* Every step of a runner.
LEMMA RunnerStepItems ==
  ASSUME TypeOK, NEW j \in Jobs, JobOK(j), RunnerStep(j)
  PROVE  JobOK(j)'
  BY StartCreatedItems, PreparationItems, LoadItemsItems, DispatchItems, CloseItems, DrainItems,
     VerdictItems, UnregisterItems
  DEF RunnerStep

-----------------------------------------------------------------------------
(* The workers.                                                            *)

\* What a worker's step may do: go on with its item, whose row at most comes to
\* read running; give it up, with its run canceled; or be done with it, after
\* which the row is the only one changed, and an error counted unless the item
\* is completed.
OtherWorkers(j, w) == \A v \in Workers \ {w} : worker'[j][v] = worker[j][v]
OtherItems(j, d) == \A e \in Docs \ {d} : item'[j][e] = item[j][e]

GoesOn(j, w) ==
  /\ worker'[j][w].pc \in Holding
  /\ worker'[j][w].item = worker[j][w].item
  /\ run' = run
  /\ \/ item'[j][worker[j][w].item] = item[j][worker[j][w].item]
     \/ item'[j][worker[j][w].item].status = "running"

GivesUp(j, w) ==
  /\ worker'[j][w].pc \notin Holding
  /\ run' = run
  /\ run[j].canceled
  /\ item' = item

IsDone(j, w) ==
  /\ worker'[j][w].pc \notin Holding
  /\ run'[j].phase = run[j].phase
  /\ run'[j].todo = run[j].todo
  /\ run'[j].canceled = run[j].canceled
  /\ run'[j].failures \in {run[j].failures, run[j].failures + 1}
  /\ \/ run'[j].failures = run[j].failures + 1
     \/ item'[j][worker[j][w].item].status \in Completed

WorkerDoes(j, w) ==
  /\ worker[j][w].pc \in Holding
  /\ OtherWorkers(j, w)
  /\ OtherItems(j, worker[j][w].item)
  /\ UNCHANGED <<jobStatus, creating>>
  /\ GoesOn(j, w) \/ GivesUp(j, w) \/ IsDone(j, w)

\* Whatever it does of that keeps the invariant.
LEMMA WorkerDoesItems ==
  ASSUME TypeOK, NEW j \in Jobs, NEW w \in Workers, JobOK(j), WorkerDoes(j, w)
  PROVE  JobOK(j)'
  <1> DEFINE d == worker[j][w].item
  <1>0. run[j] \in Run /\ run[j].failures \in Nat /\ d \in Docs
    BY DEF TypeOK, Run, WorkerDoes, WorkerOK
  <1>1. /\ run[j].phase \in Serving /\ d \in OpenItems(j) /\ d \notin run[j].todo
        /\ \A v \in Workers \ {w} : ~HoldsItem(j, v, d)
    BY DEF JobOK, HeldOK, Holds, WorkerDoes
  <1>2. run'[j].phase = run[j].phase /\ run'[j].todo = run[j].todo
    BY DEF WorkerDoes, GoesOn, GivesUp, IsDone
  <1>3. \A e \in Docs \ {d} : e \in OpenItems(j)' <=> e \in OpenItems(j)
    BY DEF WorkerDoes, OtherItems, OpenItems
  <1>4. \A v \in Workers \ {w} : worker'[j][v] = worker[j][v]
    BY DEF WorkerDoes, OtherWorkers
  <1>5. worker'[j][w].pc \in Holding => worker'[j][w].item = d /\ d \in OpenItems(j)'
    <2>1. worker'[j][w].pc \in Holding => GoesOn(j, w)
      BY DEF WorkerDoes, GivesUp, IsDone
    <2> QED
      BY <1>1, <2>1 DEF GoesOn, OpenItems, Open
  <1>6. FreshOK(j)'
    BY RunnersJobIsStored, <1>1 DEF WorkerDoes, FreshOK, Serving
  <1>7. HeldOK(j)'
    <2> SUFFICES ASSUME NEW v \in Workers, worker'[j][v].pc \in Holding
                 PROVE  /\ run'[j].phase \in Serving
                        /\ worker'[j][v].item \in OpenItems(j)'
                        /\ worker'[j][v].item \notin run'[j].todo
                        /\ \A u \in Workers \ {v} : ~(/\ worker'[j][u].pc \in Holding
                                                      /\ worker'[j][u].item = worker'[j][v].item)
      BY DEF HeldOK, Holds, HoldsItem
    <2>1. CASE v = w
      BY <1>1, <1>2, <1>4, <1>5, <2>1 DEF HoldsItem, Holds
    <2>2. CASE v # w
      <3>1. /\ worker[j][v].pc \in Holding /\ worker[j][v].item \in OpenItems(j)
            /\ worker[j][v].item \notin run[j].todo /\ worker[j][v].item # d
            /\ \A u \in Workers \ {v} : ~HoldsItem(j, u, worker[j][v].item)
        BY <1>1, <1>4, <2>2 DEF JobOK, HeldOK, HoldsItem, Holds
      <3>2. worker[j][v].item \in OpenItems(j)'
        BY <1>3, <3>1 DEF OpenItems
      <3> QED
        BY <1>1, <1>2, <1>4, <1>5, <2>2, <3>1, <3>2 DEF HoldsItem, Holds
    <2> QED
      BY <2>1, <2>2
  <1>8. TodoOK(j)'
    <2>1. run[j].todo \subseteq OpenItems(j)'
      BY <1>1, <1>3 DEF JobOK, TodoOK, OpenItems
    <2> QED
      BY <1>1, <1>2, <2>1 DEF JobOK, TodoOK, Serving
  <1>9. SettledOK(j)'
    <2>1. run'[j].phase # "writeDone"
      BY <1>1, <1>2 DEF Serving
    <2> SUFFICES ASSUME run'[j].phase \in {"dispatch", "drain"}, run'[j].failures = 0,
                        ~run'[j].canceled, NEW e \in OpenItems(j)'
                 PROVE  \/ e \in run'[j].todo
                        \/ \E v \in Workers : worker'[j][v].pc \in Holding /\ worker'[j][v].item = e
      BY <2>1 DEF SettledOK, Holds, HoldsItem
    <2>2. run[j].failures = 0 /\ ~run[j].canceled
      BY <1>0 DEF WorkerDoes, GoesOn, GivesUp, IsDone
    <2>3. CASE e = d
      <3>1. item'[j][d].status \in Open
        BY <2>3 DEF OpenItems
      <3>2. GoesOn(j, w)
        BY <1>0, <2>2, <3>1 DEF WorkerDoes, GivesUp, IsDone, Open, Completed
      <3> QED
        BY <2>3, <3>2 DEF GoesOn
    <2>4. CASE e # d
      <3>1. e \in OpenItems(j) /\ e \in Docs
        BY <1>3, <2>4 DEF OpenItems
      <3>2. e \in run[j].todo \/ \E v \in Workers : worker[j][v].pc \in Holding /\ worker[j][v].item = e
        BY <1>2, <2>2, <3>1 DEF JobOK, SettledOK, HoldsItem, Holds
      <3> QED
        BY <1>2, <1>4, <2>4, <3>2
    <2> QED
      BY <2>3, <2>4
  <1> QED
    BY <1>6, <1>7, <1>8, <1>9 DEF JobOK

\* A worker at its item that takes another position.
LEMMA GoToGoesOn ==
  ASSUME TypeOK, NEW j \in Jobs, NEW w \in Workers, worker[j][w].pc \in Holding,
         NEW r, r.pc \in Holding, r.item = worker[j][w].item, SetWorker(j, w, r),
         UNCHANGED <<jobStatus, item, creating, run>>
  PROVE  WorkerDoes(j, w)
  <1>1. worker'[j][w] = r /\ OtherWorkers(j, w)
    BY DEF SetWorker, TypeOK, OtherWorkers
  <1> QED
    BY <1>1 DEF WorkerDoes, GoesOn, OtherItems

\* A worker that lets its item go.
LEMMA ReleaseIsDone ==
  ASSUME TypeOK, NEW j \in Jobs, NEW w \in Workers, worker[j][w].pc \in Holding,
         NEW failed \in BOOLEAN, Release(j, w, failed), UNCHANGED <<jobStatus, creating>>,
         OtherItems(j, worker[j][w].item),
         failed \/ item'[j][worker[j][w].item].status \in Completed
  PROVE  WorkerDoes(j, w)
  <1>0. run[j] \in Run
    BY DEF TypeOK
  <1>1. worker'[j][w] = IdleWorker /\ OtherWorkers(j, w)
    BY DEF Release, SetWorker, TypeOK, OtherWorkers
  <1>2. worker'[j][w].pc \notin Holding
    BY <1>1 DEF IdleWorker, Holding, Fetched
  <1>3. /\ run'[j].phase = run[j].phase /\ run'[j].todo = run[j].todo
        /\ run'[j].canceled = run[j].canceled
        /\ run'[j].failures = IF failed THEN run[j].failures + 1 ELSE run[j].failures
    BY <1>0 DEF Release, SetRun, TypeOK, Run
  <1>4. IsDone(j, w)
    BY <1>2, <1>3 DEF IsDone
  <1> QED
    BY <1>1, <1>4 DEF WorkerDoes

\* Writing the row of a worker's item leaves the others alone.
LEMMA WritesOwnItem ==
  ASSUME TypeOK, NEW j \in Jobs, NEW w \in Workers, worker[j][w].pc \in Holding, NEW outcome,
         NEW row, UpdateItem(j, worker[j][w].item, outcome, row)
  PROVE  /\ OtherItems(j, worker[j][w].item)
         /\ Applied(outcome) => item'[j][worker[j][w].item] = row
         /\ ~Applied(outcome) => item' = item
  <1>1. worker[j][w].item \in Docs
    BY DEF TypeOK, WorkerOK
  <1> QED
    BY <1>1 DEF UpdateItem, TypeOK, OtherItems

\* The steps before a document is fetched, and the lookup.
LEMMA EarlyStepDoes ==
  ASSUME TypeOK, NEW j \in Jobs, NEW w \in Workers,
         Begin(j, w) \/ FetchDocument(j, w) \/ PrepareContent(j, w) \/ Lookup(j, w)
  PROVE  WorkerDoes(j, w)
  <1>0. worker[j][w] \in Worker /\ worker[j][w].pc \in Holding
    BY DEF TypeOK, Begin, FetchDocument, PrepareContent, Lookup, Holding, Fetched
  <1>1. UNCHANGED <<jobStatus, item, creating, run>>
    BY DEF Begin, FetchDocument, PrepareContent, Lookup, durable
  <1>2. ASSUME NEW pc \in Holding, GoTo(j, w, pc) PROVE WorkerDoes(j, w)
    <2>1. /\ [worker[j][w] EXCEPT !.pc = pc].pc \in Holding
          /\ [worker[j][w] EXCEPT !.pc = pc].item = worker[j][w].item
      BY <1>0 DEF Worker
    <2> QED
      BY <1>0, <1>1, <1>2, <2>1, GoToGoesOn DEF GoTo
  <1>3. ErrorPC(j) \in Holding
    BY DEF ErrorPC, Holding
  <1>4. CASE Begin(j, w)
    <2>1. CASE Canceled(j)
      <3>1. worker'[j][w].pc = "exited" /\ OtherWorkers(j, w)
        BY <1>4, <2>1 DEF Begin, SetWorker, TypeOK, OtherWorkers, IdleWorker
      <3>2. GivesUp(j, w)
        BY <1>1, <2>1, <3>1 DEF GivesUp, Canceled, Holding, Fetched
      <3> QED
        BY <1>0, <1>1, <3>1, <3>2 DEF WorkerDoes, OtherItems
    <2>2. CASE ~Canceled(j)
      <3>1. GoTo(j, w, "mark")
        BY <1>4, <2>2 DEF Begin, GoTo
      <3> QED
        BY <1>2, <3>1 DEF Holding
    <2> QED
      BY <2>1, <2>2
  <1>5. CASE FetchDocument(j, w)
    <2>1. CASE GoTo(j, w, ErrorPC(j))
      BY <1>2, <1>3, <2>1
    <2>2. ASSUME NEW doc, SetWorker(j, w, [worker[j][w] EXCEPT !.pc = "prepare", !.doc = doc])
          PROVE  WorkerDoes(j, w)
      <3> DEFINE r == [worker[j][w] EXCEPT !.pc = "prepare", !.doc = doc]
      <3>1. r.pc = "prepare" /\ r.item = worker[j][w].item
        BY <1>0 DEF Worker
      <3>2. "prepare" \in Holding
        BY DEF Holding, Fetched
      <3> HIDE DEF r
      <3>3. SetWorker(j, w, r)
        BY <2>2 DEF r
      <3> QED
        BY <1>0, <1>1, <3>1, <3>2, <3>3, GoToGoesOn
    <2> QED
      BY <1>5, <2>1, <2>2, FetchDocumentDoes
  <1>6. CASE PrepareContent(j, w)
    BY <1>2, <1>3, <1>6 DEF PrepareContent, Holding, Fetched
  <1>7. CASE Lookup(j, w)
    <2>1. \E m, s : \E pc \in {"finish", "update"} :
            \/ GoTo(j, w, "fail") \/ GoTo(j, w, "create")
            \/ SetWorker(j, w, [worker[j][w] EXCEPT !.pc = pc, !.result = s, !.memo = m])
            \/ SetWorker(j, w, [worker[j][w] EXCEPT !.pc = pc, !.memo = m])
      BY <1>7 DEF Lookup
    <2>2. ASSUME NEW pc \in {"finish", "update"}, NEW m, NEW s
          PROVE  /\ [worker[j][w] EXCEPT !.pc = pc, !.result = s, !.memo = m].pc \in Holding
                 /\ [worker[j][w] EXCEPT !.pc = pc, !.memo = m].pc \in Holding
                 /\ [worker[j][w] EXCEPT !.pc = pc, !.result = s, !.memo = m].item = worker[j][w].item
                 /\ [worker[j][w] EXCEPT !.pc = pc, !.memo = m].item = worker[j][w].item
      BY <1>0 DEF Worker, Holding, Fetched
    <2>3. {"fail", "create"} \subseteq Holding
      BY DEF Holding, Fetched
    <2> QED
      BY <1>0, <1>1, <1>2, <2>1, <2>2, <2>3, GoToGoesOn
  <1> QED
    BY <1>4, <1>5, <1>6, <1>7

\* The requests to Memos, and the mapping.
LEMMA MemoStepDoes ==
  ASSUME TypeOK, NEW j \in Jobs, NEW w \in Workers,
         CreateMemo(j, w) \/ UpdateMemo(j, w) \/ UpsertMapping(j, w)
  PROVE  WorkerDoes(j, w)
  <1>0. worker[j][w] \in Worker /\ worker[j][w].pc \in Holding
    BY DEF TypeOK, CreateMemo, UpdateMemo, UpsertMapping, Holding, Fetched
  <1>1. UNCHANGED <<jobStatus, item, creating, run>>
    BY DEF CreateMemo, UpdateMemo, UpsertMapping, durable
  <1>2. ASSUME NEW reply, NEW success, success.pc \in Holding,
               success.item = worker[j][w].item, AfterReply(j, w, reply, success)
        PROVE  WorkerDoes(j, w)
    <2>1. /\ [worker[j][w] EXCEPT !.attempt = @ + 1].pc \in Holding
          /\ [worker[j][w] EXCEPT !.attempt = @ + 1].item = worker[j][w].item
          /\ [worker[j][w] EXCEPT !.pc = ErrorPC(j)].pc \in Holding
          /\ [worker[j][w] EXCEPT !.pc = ErrorPC(j)].item = worker[j][w].item
      BY <1>0 DEF Worker, ErrorPC, Holding
    <2>2. \/ SetWorker(j, w, success)
          \/ SetWorker(j, w, [worker[j][w] EXCEPT !.attempt = @ + 1])
          \/ SetWorker(j, w, [worker[j][w] EXCEPT !.pc = ErrorPC(j)])
      BY <1>2 DEF AfterReply
    <2> QED
      BY <1>0, <1>1, <1>2, <2>1, <2>2, GoToGoesOn
  <1>3. {"map", "finish", "fail"} \subseteq Holding
    BY DEF Holding, Fetched
  <1>4. CASE CreateMemo(j, w)
    <2> DEFINE success == [worker[j][w] EXCEPT !.pc = "map", !.result = "imported",
                                              !.memo = Len(memos) + 1]
    <2>1. success.pc \in Holding /\ success.item = worker[j][w].item
      BY <1>0, <1>3 DEF Worker
    <2>2. \E reply \in MemosReply : AfterReply(j, w, reply, success)
      BY <1>4 DEF CreateMemo
    <2> HIDE DEF success
    <2> QED
      BY <1>2, <2>1, <2>2
  <1>5. CASE UpdateMemo(j, w)
    <2> DEFINE success == [worker[j][w] EXCEPT !.pc = "map", !.result = "overwritten"]
    <2>1. success.pc \in Holding /\ success.item = worker[j][w].item
      BY <1>0, <1>3 DEF Worker
    <2>2. \E reply \in MemosReply : AfterReply(j, w, reply, success)
      BY <1>5 DEF UpdateMemo
    <2> HIDE DEF success
    <2> QED
      BY <1>2, <2>1, <2>2
  <1>6. CASE UpsertMapping(j, w)
    <2>1. \E pc \in {"finish", "fail"} : SetWorker(j, w, [worker[j][w] EXCEPT !.pc = pc])
      BY <1>6 DEF UpsertMapping, GoTo
    <2>2. ASSUME NEW pc \in {"finish", "fail"}
          PROVE  /\ [worker[j][w] EXCEPT !.pc = pc].pc \in Holding
                 /\ [worker[j][w] EXCEPT !.pc = pc].item = worker[j][w].item
      BY <1>0, <1>3 DEF Worker
    <2> QED
      BY <1>0, <1>1, <2>1, <2>2, GoToGoesOn
  <1> QED
    BY <1>4, <1>5, <1>6

\* The writes of an item's row.
LEMMA ItemStepDoes ==
  ASSUME TypeOK, NEW j \in Jobs, NEW w \in Workers,
         MarkItem(j, w) \/ FinishItem(j, w) \/ FailItem(j, w) \/ CancelItem(j, w)
  PROVE  WorkerDoes(j, w)
  <1> DEFINE d == worker[j][w].item
  <1>0. worker[j][w] \in Worker /\ worker[j][w].pc \in Holding /\ d \in Docs /\ item[j][d] \in Item
    BY DEF TypeOK, WorkerOK, MarkItem, FinishItem, FailItem, CancelItem, ReturnItem, Holding, Fetched
  <1>1. UNCHANGED <<jobStatus, creating>>
    BY DEF MarkItem, FinishItem, FailItem, CancelItem, ReturnItem
  <1>2. CASE MarkItem(j, w)
    <2>1. PICK outcome : UpdateItem(j, d, outcome, [item[j][d] EXCEPT !.status = "running"])
      BY <1>2 DEF MarkItem, WriteStatus
    <2> DEFINE row == [item[j][d] EXCEPT !.status = "running"]
    <2>2. row.status = "running"
      BY <1>0 DEF Item
    <2>3. UpdateItem(j, d, outcome, row)
      BY <2>1
    <2> HIDE DEF row
    <2>4. OtherItems(j, d) /\ (item' = item \/ item'[j][d] = row)
      BY <1>0, <2>3, WritesOwnItem
    <2>5. OtherItems(j, d) /\ (item'[j][d] = item[j][d] \/ item'[j][d].status = "running")
      BY <2>2, <2>4
    <2>6. worker'[j][w].pc = "fetch" /\ worker'[j][w].item = d /\ OtherWorkers(j, w) /\ run' = run
      BY <1>0, <1>2 DEF MarkItem, GoTo, SetWorker, TypeOK, OtherWorkers, Worker
    <2> QED
      BY <1>0, <1>1, <2>5, <2>6 DEF WorkerDoes, GoesOn, Holding
  <1>3. CASE FinishItem(j, w)
    <2>1. PICK outcome :
            /\ UpdateItem(j, d, outcome, [status |-> worker[j][w].result, memo |-> worker[j][w].memo])
            /\ Release(j, w, outcome # "ok")
      BY <1>3 DEF FinishItem
    <2>2. worker[j][w].result \in Completed
      BY <1>3 DEF FinishItem, TypeOK, WorkerOK
    <2> DEFINE row == [status |-> worker[j][w].result, memo |-> worker[j][w].memo]
    <2>3. row.status \in Completed /\ UpdateItem(j, d, outcome, row)
      BY <2>1, <2>2
    <2> HIDE DEF row
    <2>4. OtherItems(j, d) /\ (Applied(outcome) => item'[j][d] = row)
      BY <1>0, <2>3, WritesOwnItem
    <2>5. OtherItems(j, d) /\ (outcome # "ok" \/ item'[j][d].status \in Completed)
      BY <2>3, <2>4 DEF Applied
    <2> QED
      BY <1>0, <1>1, <2>1, <2>5, ReleaseIsDone
  <1>4. CASE FailItem(j, w) \/ CancelItem(j, w)
    <2>1. Release(j, w, TRUE)
      BY <1>4 DEF FailItem, CancelItem, ReturnItem
    <2>2. \E outcome, row : UpdateItem(j, d, outcome, row)
      BY <1>4 DEF FailItem, CancelItem, ReturnItem, WriteStatus
    <2>3. OtherItems(j, d)
      BY <1>0, <2>2, WritesOwnItem
    <2> QED
      BY <1>0, <1>1, <2>1, <2>3, ReleaseIsDone
  <1> QED
    BY <1>2, <1>3, <1>4

\* Every step of a worker.
LEMMA WorkerStepDoes ==
  ASSUME TypeOK, NEW j \in Jobs, NEW w \in Workers, WorkerStep(j, w)
  PROVE  WorkerDoes(j, w)
  BY EarlyStepDoes, MemoStepDoes, ItemStepDoes DEF WorkerStep

-----------------------------------------------------------------------------
(* All steps.                                                              *)

\* What a step of one job leaves alone.
Untouched(j) ==
  /\ jobStatus'[j] = jobStatus[j]
  /\ item'[j] = item[j]
  /\ run'[j] = run[j]
  /\ worker'[j] = worker[j]
  /\ j \in creating' <=> j \in creating

\* Clients of one job.
LEMMA ClientStepIsLocal ==
  ASSUME TypeOK, NEW k \in Jobs, ClientStep(k), NEW j \in Jobs \ {k}
  PROVE  Untouched(j)
  <1>1. CASE \E ds \in SUBSET Docs : CreateJob(k, ds)
    BY <1>1 DEF CreateJob, TypeOK, Untouched
  <1>2. CASE Resume(k) \/ Retry(k)
    BY <1>2 DEF Resume, Retry, StartRunner, SetRun, TypeOK, Untouched, durable
  <1>3. CASE Cancel(k)
    BY <1>3 DEF Cancel, SetRun, TypeOK, Untouched, durable
  <1> QED
    BY <1>1, <1>2, <1>3 DEF ClientStep

\* The runner of one job.
LEMMA RunnerStepIsLocal ==
  ASSUME TypeOK, NEW k \in Jobs, RunnerStep(k), NEW j \in Jobs \ {k}
  PROVE  Untouched(j)
  <1> USE DEF TypeOK, Untouched, SetRun, SetPhase
  <1>1. CASE StartCreated(k)
    BY <1>1 DEF StartCreated, StartRunner, durable
  <1>2. CASE ReadFailed(k)
    BY <1>2 DEF ReadFailed, durable
  <1>3. CASE ResetFailed(k)
    BY <1>3 DEF ResetFailed
  <1>4. CASE MarkRunning(k)
    BY <1>4 DEF MarkRunning, UpdateJobStatus
  <1>5. CASE LoadItems(k)
    BY <1>5 DEF LoadItems, ResetWorkers, durable
  <1>6. CASE \E w \in Workers, d \in Docs : Dispatch(k, w, d)
    BY <1>6 DEF Dispatch, SetWorker, durable
  <1>7. CASE StopDispatch(k) \/ CloseQueue(k) \/ Drain(k)
    BY <1>7 DEF StopDispatch, CloseQueue, Drain, durable
  <1>8. CASE WriteLoadFailed(k) \/ WriteCanceled(k) \/ WriteFailed(k) \/ WriteDone(k)
    BY <1>8 DEF WriteLoadFailed, WriteCanceled, WriteFailed, WriteDone, WriteVerdict,
                UpdateJobStatus
  <1>9. CASE Unregister(k)
    BY <1>9 DEF Unregister, ResetWorkers, durable
  <1> QED
    BY <1>1, <1>2, <1>3, <1>4, <1>5, <1>6, <1>7, <1>8, <1>9 DEF RunnerStep

\* The workers of one job.
LEMMA WorkerStepIsLocal ==
  ASSUME TypeOK, NEW k \in Jobs, NEW w \in Workers, WorkerStep(k, w), NEW j \in Jobs \ {k}
  PROVE  Untouched(j)
  <1> USE DEF TypeOK, Untouched, SetWorker
  <1>1. CASE Begin(k, w) \/ FetchDocument(k, w) \/ PrepareContent(k, w) \/ Lookup(k, w)
    BY <1>1 DEF Begin, FetchDocument, PrepareContent, Lookup, GoTo, durable
  <1>2. CASE CreateMemo(k, w) \/ UpdateMemo(k, w)
    BY <1>2 DEF CreateMemo, UpdateMemo, AfterReply, durable
  <1>3. CASE UpsertMapping(k, w)
    BY <1>3 DEF UpsertMapping, GoTo
  <1>4. CASE MarkItem(k, w)
    BY <1>4 DEF MarkItem, GoTo, WriteStatus, UpdateItem
  <1>5. CASE FinishItem(k, w)
    BY <1>5 DEF FinishItem, Release, SetRun, UpdateItem
  <1>6. CASE FailItem(k, w) \/ CancelItem(k, w)
    BY <1>6 DEF FailItem, CancelItem, ReturnItem, Release, SetRun, WriteStatus, UpdateItem
  <1> QED
    BY <1>1, <1>2, <1>3, <1>4, <1>5, <1>6 DEF WorkerStep

\* From a job's point of view a step is its own, all jobs', or nobody's.
LEMMA StepsOfJob ==
  ASSUME TypeOK, [Next]_vars, NEW j \in Jobs
  PROVE  \/ ClientStep(j)
         \/ RunnerStep(j)
         \/ \E w \in Workers : WorkerStep(j, w)
         \/ Crash
         \/ Untouched(j)
  <1>1. CASE (\E d \in Docs : Edit(d)) \/ UNCHANGED vars
    BY <1>1 DEF Edit, vars, durable, Untouched
  <1> QED
    BY <1>1, ClientStepIsLocal, RunnerStepIsLocal, WorkerStepIsLocal DEF Next

\* Every step keeps the invariant.
LEMMA ItemsStep == TypeOK /\ ItemsInv /\ [Next]_vars => ItemsInv'
  <1> SUFFICES ASSUME TypeOK, ItemsInv, [Next]_vars, NEW j \in Jobs PROVE JobOK(j)'
    BY DEF ItemsInv
  <1>1. JobOK(j)
    BY DEF ItemsInv
  <1>2. CASE Untouched(j)
    BY <1>1, <1>2, OtherJobsKept DEF Untouched
  <1> QED
    BY <1>1, <1>2, StepsOfJob, ClientStepItems, RunnerStepItems, WorkerStepDoes,
       WorkerDoesItems, CrashItems

\* It holds all the time.
LEMMA ItemsAlways == Spec => [](TypeOK /\ ItemsInv)
  BY ItemsInit, ItemsStep, TypeCorrect, PTL DEF Spec

-----------------------------------------------------------------------------
(* The theorems.                                                           *)

\* An item is with one worker and, while it is, not to be handed out again, for
\* any numbers of jobs, items, workers, requests and crashes
\* (importer.go:120-146).
THEOREM ItemsHaveOneWorker == Spec => []OneWorkerPerItem
  <1>1. ItemsInv => OneWorkerPerItem
    BY DEF ItemsInv, JobOK, HeldOK, Holds, HoldsItem, OneWorkerPerItem
  <1> QED
    BY <1>1, ItemsAlways, PTL

\* What writes items: a new job, a retry and the workers.
LEMMA CompletedKept ==
  ASSUME TypeOK, ItemsInv, [Next]_vars, NEW j \in Jobs, NEW d \in Docs,
         item[j][d].status \in Completed
  PROVE  item'[j][d] = item[j][d]
  <1>1. JobOK(j) /\ jobStatus[j] # "none"
    BY DEF ItemsInv, JobOK, FreshOK, Completed
  <1>2. CASE ClientStep(j)
    BY <1>1, <1>2 DEF ClientStep, CreateJob, Resume, Retry, Cancel, StartRunner, durable
  <1>3. CASE ResetFailed(j)
    <2>1. d \notin run[j].todo
      BY <1>1, <1>3 DEF ResetFailed, JobOK, TodoOK, FailedItems, Completed
    <2> QED
      BY <1>3, <2>1 DEF ResetFailed, TypeOK
  <1>4. CASE RunnerStep(j) /\ ~ResetFailed(j)
    BY <1>4 DEF RunnerStep, StartCreated, StartRunner, ReadFailed, MarkRunning, LoadItems,
                Dispatch, StopDispatch, CloseQueue, Drain, WriteLoadFailed, WriteCanceled,
                WriteFailed, WriteDone, WriteVerdict, Unregister, durable
  <1>5. ASSUME NEW w \in Workers, WorkerStep(j, w) PROVE item'[j][d] = item[j][d]
    <2>1. WorkerDoes(j, w)
      BY <1>5, WorkerStepDoes
    <2>2. worker[j][w].item \in OpenItems(j)
      BY <1>1, <2>1 DEF WorkerDoes, JobOK, HeldOK, Holds
    <2>3. d # worker[j][w].item
      BY <2>2 DEF OpenItems, Open, Completed
    <2> QED
      BY <2>1, <2>3 DEF WorkerDoes, OtherItems
  <1>6. CASE Crash \/ Untouched(j)
    BY <1>6 DEF Crash, Untouched, durable
  <1> QED
    BY <1>2, <1>3, <1>4, <1>5, <1>6, StepsOfJob

\* A completed item is never written again, by whatever run, retry, cancellation
\* or restart (importer.go:147-162, item_store.go:71-107).
THEOREM CompletedItemsAlwaysStay == Spec => CompletedItemsStayCompleted
  <1>1. TypeOK /\ ItemsInv /\ [Next]_vars =>
          [\A j \in Jobs, d \in Docs :
             item[j][d].status \in Completed => item'[j][d] = item[j][d]]_vars
    BY CompletedKept
  <1> QED
    BY <1>1, ItemsAlways, PTL DEF Spec, CompletedItemsStayCompleted

\* Who writes that a job is done.
LEMMA DoneWritten ==
  ASSUME TypeOK, ItemsInv, [Next]_vars, NEW j \in Jobs,
         jobStatus'[j] = "done", jobStatus[j] # "done"
  PROVE  OpenItems(j) = {}
  <1>1. JobOK(j)
    BY DEF ItemsInv
  <1>2. CASE ClientStep(j)
    BY <1>2 DEF ClientStep, CreateJob, Resume, Retry, Cancel, StartRunner, durable, TypeOK
  <1>3. ASSUME NEW outcome, NEW status, UpdateJobStatus(j, outcome, status)
        PROVE  status = "done"
    BY <1>3 DEF UpdateJobStatus, TypeOK
  <1>4. CASE RunnerStep(j)
    <2>1. CASE WriteDone(j)
      BY <1>1, <2>1 DEF WriteDone, WriteVerdict, JobOK, SettledOK
    <2>2. CASE MarkRunning(j)
      BY <1>3, <2>2 DEF MarkRunning
    <2>3. CASE WriteLoadFailed(j) \/ WriteCanceled(j) \/ WriteFailed(j)
      BY <1>3, <2>3 DEF WriteLoadFailed, WriteCanceled, WriteFailed, WriteVerdict
    <2>4. CASE ~(WriteDone(j) \/ MarkRunning(j) \/ WriteLoadFailed(j) \/ WriteCanceled(j)
                 \/ WriteFailed(j))
      BY <1>4, <2>4 DEF RunnerStep, StartCreated, StartRunner, ReadFailed, ResetFailed,
                        LoadItems, Dispatch, StopDispatch, CloseQueue, Drain, Unregister, durable
    <2> QED
      BY <2>1, <2>2, <2>3, <2>4
  <1>5. ASSUME NEW w \in Workers, WorkerStep(j, w) PROVE FALSE
    BY <1>5, WorkerStepDoes DEF WorkerDoes
  <1>6. CASE Crash \/ Untouched(j)
    BY <1>6 DEF Crash, Untouched, durable
  <1> QED
    BY <1>2, <1>4, <1>5, <1>6, StepsOfJob

\* A job is marked done only when each of its items is settled, whatever was
\* canceled, lost or failed on the way (importer.go:124-161).
THEOREM DoneJobsAreSettled == Spec => DoneOnlyWhenSettled
  <1>1. TypeOK /\ ItemsInv /\ [Next]_vars =>
          [\A j \in Jobs : jobStatus'[j] = "done" /\ jobStatus[j] # "done"
                             => OpenItems(j) = {}]_vars
    BY DoneWritten
  <1> QED
    BY <1>1, ItemsAlways, PTL DEF Spec, DoneOnlyWhenSettled

-----------------------------------------------------------------------------
(* Runs whose store statements fail only when they are canceled.           *)

\* A run gives up items only when it is canceled, and its verdict is written for
\* what it counted: it is failed with an item recorded as failed, and neither
\* failed nor done with one left open.
OutcomeOK(j) ==
  /\ \A w \in Workers : worker[j][w].pc = "cancel" => run[j].canceled
  /\ run[j].phase \in {"failedItems", "reset", "init", "load"} => run[j].failures = 0
  /\ run[j].phase \in {"dispatch", "drain"} /\ ~run[j].canceled =>
       /\ run[j].failures > 0 => FailedItems(j) # {}
       /\ \A d \in OpenItems(j) : d \in run[j].todo \/ \E w \in Workers : HoldsItem(j, w, d)
  /\ run[j].phase = "writeFailed" => FailedItems(j) # {}
  /\ run[j].phase \in {"writeFailed", "writeDone"} => OpenItems(j) = {}

OutcomeInv == \A j \in Jobs : OutcomeOK(j)

\* Before there are jobs.
LEMMA OutcomeInit == Init => OutcomeInv
  <1> SUFFICES ASSUME Init, NEW j \in Jobs PROVE OutcomeOK(j)
    BY DEF OutcomeInv
  <1>1. run[j].phase = "none" /\ \A w \in Workers : worker[j][w].pc = "idle"
    BY DEF Init, NoRun, IdleWorker
  <1> QED
    BY <1>1 DEF OutcomeOK

\* Steps of other jobs.
LEMMA OtherOutcomesKept ==
  ASSUME NEW j \in Jobs, OutcomeOK(j), Untouched(j)
  PROVE  OutcomeOK(j)'
  BY DEF OutcomeOK, Untouched, Holds, HoldsItem, OpenItems, FailedItems

\* A step after which nobody works and no verdict is due.
LEMMA IdleOutcome ==
  ASSUME NEW j \in Jobs, \A w \in Workers : worker'[j][w].pc \notin Holding,
         run'[j].phase \notin {"dispatch", "drain", "writeFailed", "writeDone"},
         run'[j].phase \in {"failedItems", "reset", "init", "load"} => run'[j].failures = 0
  PROVE  OutcomeOK(j)'
  <1>1. "cancel" \in Holding
    BY DEF Holding
  <1> QED
    BY <1>1 DEF OutcomeOK

\* Clients.
LEMMA ClientStepOutcome ==
  ASSUME TypeOK, NEW j \in Jobs, JobOK(j), OutcomeOK(j), ClientStep(j)
  PROVE  OutcomeOK(j)'
  <1>1. ASSUME NEW ds \in SUBSET Docs, CreateJob(j, ds) PROVE OutcomeOK(j)'
    <2>1. run[j].phase = "none" /\ UNCHANGED <<run, worker>>
      BY <1>1 DEF CreateJob, JobOK, FreshOK
    <2> QED
      BY <2>1, NobodyHolds, IdleOutcome DEF Serving
  <1>2. ASSUME NEW phase \in {"init", "failedItems"}, StartRunner(j, phase) PROVE OutcomeOK(j)'
    <2>1. run[j].phase = "none" /\ UNCHANGED worker
      BY <1>2 DEF StartRunner
    <2>2. run'[j].phase = phase /\ run'[j].failures = 0
      BY <1>2 DEF StartRunner, SetRun, NoRun, TypeOK
    <2> QED
      BY <2>1, <2>2, NobodyHolds, IdleOutcome DEF Serving
  <1>3. CASE Cancel(j)
    <2>1. run[j] \in Run
      BY DEF TypeOK
    <2>2. /\ run'[j].phase = run[j].phase /\ run'[j].failures = run[j].failures
          /\ run'[j].canceled
      BY <1>3, <2>1 DEF Cancel, SetRun, TypeOK, Run
    <2>3. UNCHANGED <<item, worker>>
      BY <1>3 DEF Cancel, durable
    <2> QED
      BY <2>2, <2>3 DEF OutcomeOK, OpenItems, FailedItems
  <1> QED
    BY <1>1, <1>2, <1>3 DEF ClientStep, Resume, Retry

\* The end of the process.
LEMMA CrashOutcome ==
  ASSUME NEW j \in Jobs, Crash
  PROVE  OutcomeOK(j)'
  <1>1. run'[j].phase = "none" /\ \A w \in Workers : worker'[j][w].pc \notin Holding
    BY DEF Crash, NoRun, IdleWorker, Holding, Fetched
  <1> QED
    BY <1>1, IdleOutcome

\* The runner moves on outside of the phases with workers.
LEMMA PhaseOutcome ==
  ASSUME TypeOK, NEW j \in Jobs, JobOK(j), OutcomeOK(j), run[j].phase \notin Serving,
         NEW phase \in Phases \ {"dispatch", "drain", "writeFailed", "writeDone"},
         phase \in {"failedItems", "reset", "init", "load"} =>
           run[j].phase \in {"failedItems", "reset", "init", "load"},
         run'[j].phase = phase, run'[j].failures = run[j].failures, UNCHANGED worker
  PROVE  OutcomeOK(j)'
  <1>1. phase \in {"failedItems", "reset", "init", "load"} => run[j].failures = 0
    BY DEF OutcomeOK
  <1> QED
    BY <1>1, NobodyHolds, IdleOutcome

\* The runner reads and resets failed items, marks its job running, and at the
\* end writes its verdict.
LEMMA PreparationOutcome ==
  ASSUME TypeOK, NEW j \in Jobs, JobOK(j), OutcomeOK(j),
         \/ ReadFailed(j) \/ ResetFailed(j) \/ MarkRunning(j)
         \/ WriteLoadFailed(j) \/ WriteCanceled(j) \/ WriteFailed(j) \/ WriteDone(j)
  PROVE  OutcomeOK(j)'
  <1>0. run[j] \in Run
    BY DEF TypeOK
  <1>1. run[j].phase \notin Serving /\ UNCHANGED worker
    BY DEF ReadFailed, ResetFailed, MarkRunning, WriteLoadFailed, WriteCanceled, WriteFailed,
           WriteDone, WriteVerdict, Serving
  <1>2. ASSUME NEW phase \in Phases, SetPhase(j, phase)
        PROVE  run'[j].phase = phase /\ run'[j].failures = run[j].failures
    BY <1>0, <1>2 DEF SetPhase, SetRun, TypeOK, Run
  <1>3. CASE ReadFailed(j)
    <2>1. CASE SetRun(j, [run[j] EXCEPT !.phase = "reset", !.todo = FailedItems(j)])
      <3>1. run'[j].phase = "reset" /\ run'[j].failures = run[j].failures
        BY <1>0, <2>1 DEF SetRun, TypeOK, Run
      <3> QED
        BY <1>1, <1>3, <3>1, PhaseOutcome DEF ReadFailed, Phases
    <2>2. CASE SetPhase(j, "return")
      BY <1>1, <1>2, <2>2, PhaseOutcome DEF Phases
    <2> QED
      BY <1>3, <2>1, <2>2 DEF ReadFailed
  <1>4. CASE ResetFailed(j)
    <2>1. CASE SetRun(j, [run[j] EXCEPT !.phase = "init", !.todo = {}])
      <3>1. run'[j].phase = "init" /\ run'[j].failures = run[j].failures
        BY <1>0, <2>1 DEF SetRun, TypeOK, Run
      <3> QED
        BY <1>1, <1>4, <3>1, PhaseOutcome DEF ResetFailed, Phases
    <2>2. CASE SetPhase(j, "return")
      BY <1>1, <1>2, <2>2, PhaseOutcome DEF Phases
    <2> QED
      BY <1>4, <2>1, <2>2 DEF ResetFailed
  <1>5. CASE MarkRunning(j)
    <2>1. SetPhase(j, "load") \/ SetPhase(j, "return")
      BY <1>5 DEF MarkRunning
    <2> QED
      BY <1>1, <1>2, <1>5, <2>1, PhaseOutcome DEF MarkRunning, Phases
  <1>6. CASE WriteLoadFailed(j) \/ WriteCanceled(j) \/ WriteFailed(j) \/ WriteDone(j)
    <2>1. SetPhase(j, "return")
      BY <1>6 DEF WriteLoadFailed, WriteCanceled, WriteFailed, WriteDone, WriteVerdict
    <2> QED
      BY <1>1, <1>2, <2>1, PhaseOutcome DEF Phases
  <1> QED
    BY <1>3, <1>4, <1>5, <1>6

\* All open items are to be handed out.
LEMMA LoadItemsOutcome ==
  ASSUME TypeOK, NEW j \in Jobs, JobOK(j), OutcomeOK(j), LoadItems(j)
  PROVE  OutcomeOK(j)'
  <1>0. run[j] \in Run /\ run[j].phase = "load" /\ run[j].failures = 0
    BY DEF TypeOK, LoadItems, OutcomeOK
  <1>1. CASE SetRun(j, [run[j] EXCEPT !.phase = "dispatch", !.todo = OpenItems(j)]) /\ ResetWorkers(j)
    <2>1. /\ run'[j].phase = "dispatch" /\ run'[j].todo = OpenItems(j)
          /\ run'[j].failures = 0
      BY <1>0, <1>1 DEF SetRun, TypeOK, Run
    <2>2. \A w \in Workers : worker'[j][w].pc # "cancel"
      BY <1>1 DEF ResetWorkers, IdleWorker, TypeOK
    <2>3. OpenItems(j)' = OpenItems(j)
      BY DEF LoadItems, durable, OpenItems
    <2> QED
      BY <2>1, <2>2, <2>3 DEF OutcomeOK
  <1>2. CASE SetPhase(j, "loadFailed") /\ UNCHANGED worker
    <2>1. run'[j].phase = "loadFailed" /\ run'[j].failures = run[j].failures
      BY <1>0, <1>2 DEF SetPhase, SetRun, TypeOK, Run
    <2> QED
      BY <1>0, <1>2, <2>1, PhaseOutcome DEF Phases, Serving
  <1> QED
    BY <1>1, <1>2 DEF LoadItems

\* An item moves from what is to be handed out to what is held.
LEMMA DispatchOutcome ==
  ASSUME TypeOK, NEW j \in Jobs, NEW w \in Workers, NEW d \in Docs, OutcomeOK(j), Dispatch(j, w, d)
  PROVE  OutcomeOK(j)'
  <1>0. run[j] \in Run
    BY DEF TypeOK
  <1>1. OpenItems(j)' = OpenItems(j) /\ FailedItems(j)' = FailedItems(j)
    BY DEF Dispatch, durable, OpenItems, FailedItems
  <1>2. /\ run'[j].phase = "dispatch" /\ run[j].phase = "dispatch"
        /\ run'[j].todo = run[j].todo \ {d}
        /\ run'[j].failures = run[j].failures /\ run'[j].canceled = run[j].canceled
    BY <1>0 DEF Dispatch, SetRun, TypeOK, Run
  <1>3. worker'[j][w].pc = "taken" /\ worker'[j][w].item = d /\ worker[j][w].pc = "idle"
    BY DEF Dispatch, SetWorker, TypeOK, IdleWorker
  <1>4. \A v \in Workers \ {w} : worker'[j][v] = worker[j][v]
    BY DEF Dispatch, SetWorker, TypeOK
  <1>5. "idle" \notin Holding /\ "taken" \in Holding
    BY DEF Holding, Fetched
  <1>6. ASSUME ~run[j].canceled, NEW e \in OpenItems(j)
        PROVE  \/ e \in run'[j].todo
               \/ \E v \in Workers : worker'[j][v].pc \in Holding /\ worker'[j][v].item = e
    <2>1. e \in run[j].todo \/ \E v \in Workers : worker[j][v].pc \in Holding /\ worker[j][v].item = e
      BY <1>2, <1>6 DEF OutcomeOK, Holds, HoldsItem
    <2> QED
      BY <1>2, <1>3, <1>4, <1>5, <2>1
  <1> QED
    BY <1>1, <1>2, <1>3, <1>4, <1>6 DEF OutcomeOK, Holds, HoldsItem

\* The channel is closed, then the verdict found.
LEMMA DrainOutcome ==
  ASSUME TypeOK, NEW j \in Jobs, JobOK(j), OutcomeOK(j), StopDispatch(j) \/ CloseQueue(j) \/ Drain(j)
  PROVE  OutcomeOK(j)'
  <1>0. run[j] \in Run
    BY DEF TypeOK
  <1>1. /\ OpenItems(j)' = OpenItems(j) /\ FailedItems(j)' = FailedItems(j)
        /\ UNCHANGED worker
    BY DEF StopDispatch, CloseQueue, Drain, durable, OpenItems, FailedItems
  <1>2. /\ run'[j].todo = run[j].todo /\ run'[j].failures = run[j].failures
        /\ run'[j].canceled = run[j].canceled
    BY <1>0 DEF StopDispatch, CloseQueue, Drain, SetPhase, SetRun, TypeOK, Run
  <1>3. CASE StopDispatch(j) \/ CloseQueue(j)
    <2>1. run[j].phase = "dispatch" /\ run'[j].phase \in {"drain", "drainCanceled"}
      BY <1>0, <1>3 DEF StopDispatch, CloseQueue, SetPhase, SetRun, TypeOK, Run
    <2> QED
      BY <1>1, <1>2, <2>1 DEF OutcomeOK, Holds, HoldsItem
  <1>4. CASE Drain(j)
    <2>1. \A w \in Workers : worker[j][w].pc \notin Holding
      BY <1>4 DEF Drain, Drained, Holding, Fetched
    <2>2. run'[j].phase = Verdict(j)
      BY <1>0, <1>4 DEF Drain, SetPhase, SetRun, TypeOK, Run, Verdict
    <2>3. CASE Verdict(j) = "writeCanceled"
      BY <1>1, <2>1, <2>2, <2>3, IdleOutcome
    <2>4. CASE Verdict(j) # "writeCanceled"
      <3>1. run[j].phase = "drain" /\ ~run[j].canceled
        BY <1>4, <2>4 DEF Verdict, Canceled, Drain
      <3>2. OpenItems(j) = {}
        BY <2>1, <3>1 DEF OutcomeOK, JobOK, TodoOK, Holds, HoldsItem
      <3>3. Verdict(j) = "writeFailed" => FailedItems(j) # {}
        BY <3>1 DEF Verdict, OutcomeOK
      <3>4. Verdict(j) \in {"writeFailed", "writeDone"}
        BY <2>4 DEF Verdict
      <3>5. \A w \in Workers : worker'[j][w].pc # "cancel"
        BY <1>1, <2>1 DEF Holding
      <3> QED
        BY <1>1, <2>2, <3>2, <3>3, <3>4, <3>5 DEF OutcomeOK
    <2> QED
      BY <2>3, <2>4
  <1> QED
    BY <1>3, <1>4

\* Every step of a runner.
LEMMA RunnerStepOutcome ==
  ASSUME TypeOK, NEW j \in Jobs, JobOK(j), OutcomeOK(j), RunnerStep(j)
  PROVE  OutcomeOK(j)'
  <1>1. CASE StartCreated(j)
    <2>1. ASSUME StartRunner(j, "init") PROVE OutcomeOK(j)'
      <3>1. run[j].phase = "none" /\ UNCHANGED worker
        BY <2>1 DEF StartRunner
      <3>2. run'[j].phase = "init" /\ run'[j].failures = 0
        BY <2>1 DEF StartRunner, SetRun, NoRun, TypeOK
      <3> QED
        BY <3>1, <3>2, NobodyHolds, IdleOutcome DEF Serving
    <2>2. ASSUME UNCHANGED <<durable, run, worker>> PROVE OutcomeOK(j)'
      BY <2>2 DEF durable, OutcomeOK, Holds, HoldsItem, OpenItems, FailedItems
    <2> QED
      BY <1>1, <2>1, <2>2 DEF StartCreated
  <1>2. CASE Unregister(j)
    <2>1. run'[j].phase = "none" /\ \A w \in Workers : worker'[j][w].pc \notin Holding
      BY <1>2 DEF Unregister, SetRun, NoRun, ResetWorkers, IdleWorker, Holding, Fetched, TypeOK
    <2> QED
      BY <2>1, IdleOutcome
  <1> QED
    BY <1>1, <1>2, PreparationOutcome, LoadItemsOutcome, DispatchOutcome, DrainOutcome
    DEF RunnerStep

\* Only a canceled run gives its items back.
LEMMA CancelOnlyCanceled ==
  ASSUME TypeOK, NEW j \in Jobs, NEW w \in Workers, WorkerStep(j, w),
         worker'[j][w].pc = "cancel"
  PROVE  run[j].canceled
  <1>0. worker[j][w] \in Worker
    BY DEF TypeOK
  <1>1. ASSUME NEW r, SetWorker(j, w, r) PROVE r.pc = "cancel"
    BY <1>1 DEF SetWorker, TypeOK
  <1>2. ASSUME NEW pc, GoTo(j, w, pc) PROVE pc = "cancel"
    BY <1>0, <1>1, <1>2 DEF GoTo, Worker
  <1>3. ErrorPC(j) = "cancel" => run[j].canceled
    BY DEF ErrorPC, Canceled
  <1>4. ASSUME NEW reply, NEW success, success.pc # "cancel", worker[j][w].pc # "cancel",
               AfterReply(j, w, reply, success)
        PROVE  run[j].canceled
    <2>1. [worker[j][w] EXCEPT !.attempt = @ + 1].pc = worker[j][w].pc
      BY <1>0 DEF Worker
    <2>2. [worker[j][w] EXCEPT !.pc = ErrorPC(j)].pc = ErrorPC(j)
      BY <1>0 DEF Worker
    <2> QED
      BY <1>1, <1>3, <1>4, <2>1, <2>2 DEF AfterReply
  <1>5. CASE Begin(j, w)
    <2>1. [IdleWorker EXCEPT !.pc = "exited"].pc # "cancel"
      BY DEF IdleWorker
    <2>2. [worker[j][w] EXCEPT !.pc = "mark"].pc # "cancel"
      BY <1>0 DEF Worker
    <2> QED
      BY <1>1, <1>5, <2>1, <2>2 DEF Begin
  <1>6. CASE MarkItem(j, w) \/ UpsertMapping(j, w)
    BY <1>2, <1>6 DEF MarkItem, UpsertMapping
  <1>7. CASE FetchDocument(j, w)
    <2>1. \A doc : [worker[j][w] EXCEPT !.pc = "prepare", !.doc = doc].pc # "cancel"
      BY <1>0 DEF Worker
    <2> QED
      BY <1>1, <1>2, <1>3, <1>7, <2>1, FetchDocumentDoes
  <1>8. CASE PrepareContent(j, w)
    BY <1>2, <1>3, <1>8 DEF PrepareContent
  <1>9. CASE Lookup(j, w)
    <2>1. /\ \A m : [worker[j][w] EXCEPT !.pc = "finish", !.result = "skipped", !.memo = m].pc # "cancel"
          /\ \A m : [worker[j][w] EXCEPT !.pc = "update", !.memo = m].pc # "cancel"
      BY <1>0 DEF Worker
    <2> QED
      BY <1>1, <1>2, <1>9, <2>1 DEF Lookup
  <1>10. CASE CreateMemo(j, w)
    <2>1. \A m : [worker[j][w] EXCEPT !.pc = "map", !.result = "imported", !.memo = m].pc # "cancel"
      BY <1>0 DEF Worker
    <2> QED
      BY <1>4, <1>10, <2>1 DEF CreateMemo
  <1>11. CASE UpdateMemo(j, w)
    <2>1. [worker[j][w] EXCEPT !.pc = "map", !.result = "overwritten"].pc # "cancel"
      BY <1>0 DEF Worker
    <2> QED
      BY <1>4, <1>11, <2>1 DEF UpdateMemo
  <1>12. CASE FinishItem(j, w) \/ FailItem(j, w) \/ CancelItem(j, w)
    <2>1. SetWorker(j, w, IdleWorker)
      BY <1>12 DEF FinishItem, FailItem, CancelItem, ReturnItem, Release
    <2>2. IdleWorker.pc # "cancel"
      BY DEF IdleWorker
    <2> QED
      BY <1>1, <2>1, <2>2
  <1> QED
    BY <1>5, <1>6, <1>7, <1>8, <1>9, <1>10, <1>11, <1>12 DEF WorkerStep

\* What the store does for a run that is not canceled, it does.
LEMMA Faultless ==
  ASSUME ~StoreMayFail
  PROVE  Exec(FALSE) = {"ok"} /\ Tx(FALSE) = {"ok"}
  BY DEF Exec, Tx

\* While a run is not canceled, an error is counted of an item recorded as failed.
LEMMA ErrorsAreRecorded ==
  ASSUME TypeOK, ~StoreMayFail, NEW j \in Jobs, NEW w \in Workers, WorkerStep(j, w),
         ~run[j].canceled, worker[j][w].pc # "cancel"
  PROVE  \/ run' = run
         \/ item'[j][worker[j][w].item].status = "failed"
  <1> DEFINE d == worker[j][w].item
  <1>0. Exec(Canceled(j)) = {"ok"}
    <2>1. Canceled(j) = FALSE
      BY DEF Canceled, TypeOK, Run
    <2> QED
      BY <2>1, Faultless
  <1>1. CASE FinishItem(j, w)
    <2>1. Release(j, w, FALSE)
      BY <1>0, <1>1 DEF FinishItem
    <2>2. run' = [run EXCEPT ![j] = run[j]]
      BY <2>1 DEF Release, SetRun
    <2> QED
      BY <2>2 DEF TypeOK
  <1>2. CASE FailItem(j, w)
    <2>0. worker[j][w].pc \in Holding /\ d \in Docs /\ item[j][d] \in Item
      BY <1>2 DEF FailItem, ReturnItem, TypeOK, WorkerOK, Holding
    <2> DEFINE row == [item[j][d] EXCEPT !.status = "failed"]
    <2>1. UpdateItem(j, d, "ok", row)
      BY <1>0, <1>2 DEF FailItem, ReturnItem, WriteStatus
    <2>2. row.status = "failed"
      BY <2>0 DEF Item
    <2> HIDE DEF row
    <2>3. item'[j][d] = row
      BY <2>0, <2>1, WritesOwnItem DEF Applied
    <2> QED
      BY <2>2, <2>3
  <1>3. CASE ~(FinishItem(j, w) \/ FailItem(j, w) \/ CancelItem(j, w))
    BY <1>3 DEF WorkerStep, Begin, MarkItem, FetchDocument, PrepareContent, Lookup, CreateMemo,
                UpdateMemo, UpsertMapping
  <1>4. ~CancelItem(j, w)
    BY DEF CancelItem, ReturnItem
  <1> QED
    BY <1>1, <1>2, <1>3, <1>4

\* Every step of a worker.
LEMMA WorkerStepOutcome ==
  ASSUME TypeOK, ~StoreMayFail, NEW j \in Jobs, NEW w \in Workers, JobOK(j), OutcomeOK(j),
         WorkerStep(j, w)
  PROVE  OutcomeOK(j)'
  <1> DEFINE d == worker[j][w].item
  <1>0. run[j] \in Run /\ run[j].failures \in Nat /\ d \in Docs
    BY WorkerStepDoes DEF TypeOK, Run, WorkerDoes, WorkerOK
  <1>1. WorkerDoes(j, w)
    BY WorkerStepDoes
  <1>2. run[j].phase \in Serving /\ d \in OpenItems(j)
    BY <1>1 DEF JobOK, HeldOK, Holds, WorkerDoes
  <1>3. /\ run'[j].phase = run[j].phase /\ run'[j].todo = run[j].todo
        /\ run'[j].canceled = run[j].canceled
    BY <1>1 DEF WorkerDoes, GoesOn, GivesUp, IsDone
  <1>4. \A v \in Workers \ {w} : worker'[j][v] = worker[j][v]
    BY <1>1 DEF WorkerDoes, OtherWorkers
  <1>5. ASSUME NEW v \in Workers, worker'[j][v].pc = "cancel" PROVE run'[j].canceled
    BY <1>3, <1>4, <1>5, CancelOnlyCanceled DEF OutcomeOK
  <1>6. ASSUME run[j].phase \in {"dispatch", "drain"}, ~run[j].canceled
        PROVE  /\ run'[j].failures > 0 => FailedItems(j)' # {}
               /\ \A e \in OpenItems(j)' :
                    \/ e \in run[j].todo
                    \/ \E v \in Workers : worker'[j][v].pc \in Holding /\ worker'[j][v].item = e
    <2>1. run' = run \/ item'[j][d].status = "failed"
      BY <1>6, ErrorsAreRecorded DEF OutcomeOK
    <2>2. FailedItems(j) \subseteq FailedItems(j)'
      <3> SUFFICES ASSUME NEW e \in Docs, item[j][e].status = "failed"
                   PROVE  item'[j][e].status = "failed"
        BY DEF FailedItems
      <3>1. e # d
        BY <1>2 DEF OpenItems, Open
      <3> QED
        BY <1>1, <3>1 DEF WorkerDoes, OtherItems
    <2>3. run'[j].failures > 0 => FailedItems(j)' # {}
      <3>1. CASE run' = run
        BY <1>6, <2>2, <3>1 DEF OutcomeOK
      <3>2. CASE item'[j][d].status = "failed"
        BY <1>0, <3>2 DEF FailedItems
      <3> QED
        BY <2>1, <3>1, <3>2
    <2>4. ASSUME NEW e \in OpenItems(j)'
          PROVE  \/ e \in run[j].todo
                 \/ \E v \in Workers : worker'[j][v].pc \in Holding /\ worker'[j][v].item = e
      <3>1. CASE e = d
        <4>1. item'[j][d].status \notin Completed \cup {"failed"}
          BY <3>1 DEF OpenItems, Open, Completed
        <4>2. GoesOn(j, w)
          BY <1>0, <1>1, <1>6, <2>1, <4>1 DEF WorkerDoes, GivesUp, IsDone
        <4> QED
          BY <3>1, <4>2 DEF GoesOn
      <3>2. CASE e # d
        <4>1. e \in OpenItems(j)
          BY <1>1, <3>2 DEF WorkerDoes, OtherItems, OpenItems
        <4>2. e \in run[j].todo \/ \E v \in Workers : worker[j][v].pc \in Holding /\ worker[j][v].item = e
          BY <1>6, <4>1 DEF OutcomeOK, Holds, HoldsItem
        <4> QED
          BY <1>4, <3>2, <4>2
      <3> QED
        BY <3>1, <3>2
    <2> QED
      BY <2>3, <2>4
  <1> QED
    BY <1>2, <1>3, <1>5, <1>6 DEF OutcomeOK, Serving, Holds, HoldsItem

\* Every step.
LEMMA OutcomeStep ==
  ASSUME ~StoreMayFail
  PROVE  TypeOK /\ ItemsInv /\ OutcomeInv /\ [Next]_vars => OutcomeInv'
  <1> SUFFICES ASSUME TypeOK, ItemsInv, OutcomeInv, [Next]_vars, NEW j \in Jobs
               PROVE  OutcomeOK(j)'
    BY DEF OutcomeInv
  <1>1. JobOK(j) /\ OutcomeOK(j)
    BY DEF ItemsInv, OutcomeInv
  <1> QED
    BY <1>1, StepsOfJob, ClientStepOutcome, RunnerStepOutcome, WorkerStepOutcome, CrashOutcome,
       OtherOutcomesKept

\* It holds all the time.
LEMMA OutcomeAlways ==
  ASSUME ~StoreMayFail
  PROVE  Spec => [](TypeOK /\ ItemsInv /\ OutcomeInv)
  <1>1. TypeOK /\ ItemsInv /\ OutcomeInv /\ [Next]_vars => OutcomeInv'
    BY OutcomeStep
  <1> QED
    BY <1>1, OutcomeInit, ItemsAlways, PTL DEF Spec

\* A run that is about to be recorded as failed has left an item recorded as
\* failed for a retry: of a store that fails no statement by itself, a
\* cancellation loses no such record (importer.go:149-156, 293-303).
THEOREM FailedRunsAlwaysNameItems ==
  ASSUME ~StoreMayFail
  PROVE  Spec => []FailedRunNamesItsItems
  <1>1. OutcomeInv => FailedRunNamesItsItems
    BY DEF OutcomeInv, OutcomeOK, FailedRunNamesItsItems
  <1> QED
    BY <1>1, OutcomeAlways, PTL

-----------------------------------------------------------------------------
(* Memos: the condition and the invariant.                                 *)

\* No two jobs have workers on the same document.  The engine only sees to that
\* within a job (importer.go:120-146); between jobs it is up to the users.
ShareNoDocument ==
  \A j, k \in Jobs : \A w, v \in Workers :
    Holds(j, w) /\ Holds(k, v) /\ worker[j][w].item = worker[k][v].item => j = k

\* x is y or an earlier version of y.
Precedes(x, y) ==
  /\ x.at <= y.at
  /\ x.at = y.at => x.content = y.content

\* The mapping is of a version the document has had; if it is of the present one,
\* the mapped memo has its content.
MappingOK(d) ==
  docMap[d] # None =>
    /\ Precedes(docMap[d], src[d])
    /\ docMap[d].at = src[d].at => memos[docMap[d].memo].content = docMap[d].content

\* The mapping is of the present version.
MappedNow(d) == docMap[d] # None /\ docMap[d].at = src[d].at

\* What a worker fetched is the present version or an earlier one, if it has a time,
\* and has the present content if the present version is mapped; it creates a memo for
\* a document that has none, updates the mapped memo only if that is not of the
\* present version, and maps a memo that has what it fetched.
CarriesOK(j, w) ==
  /\ worker[j][w].pc \in Fetched =>
       /\ Precedes(worker[j][w].doc, src[worker[j][w].item])
       /\ MappedNow(worker[j][w].item) =>
            worker[j][w].doc.content = src[worker[j][w].item].content
  /\ worker[j][w].pc = "create" => docMap[worker[j][w].item] = None
  /\ worker[j][w].pc = "update" =>
       /\ docMap[worker[j][w].item] # None
       /\ docMap[worker[j][w].item].memo = worker[j][w].memo
       /\ ~MappedNow(worker[j][w].item)
  /\ worker[j][w].pc = "map" => memos[worker[j][w].memo].content = worker[j][w].doc.content

MemoInv ==
  /\ \A d \in Docs : MappingOK(d)
  /\ \A j \in Jobs, w \in Workers : CarriesOK(j, w)

\* Nothing is mapped or fetched at first.
LEMMA MemoInit == Init => MemoInv
  BY DEF Init, MemoInv, MappingOK, CarriesOK, IdleWorker, Fetched

-----------------------------------------------------------------------------
(* Which steps matter.                                                     *)

\* Only one worker at a time has a document.
LEMMA OneWorkerPerDocument ==
  ASSUME ItemsInv, ShareNoDocument, NEW j \in Jobs, NEW w \in Workers, NEW k \in Jobs,
         NEW v \in Workers, Holds(j, w), Holds(k, v), worker[j][w].item = worker[k][v].item
  PROVE  j = k /\ w = v
  <1>1. j = k
    BY DEF ShareNoDocument
  <1>2. \A u \in Workers \ {w} : ~HoldsItem(j, u, worker[j][w].item)
    BY DEF ItemsInv, JobOK, HeldOK
  <1> QED
    BY <1>1, <1>2 DEF HoldsItem

\* Memos, mappings and documents are written by four steps.
LEMMA ContentSteps ==
  ASSUME [Next]_vars
  PROVE  \/ UNCHANGED <<docMap, memos, src>>
         \/ \E k \in Jobs, v \in Workers :
              CreateMemo(k, v) \/ UpdateMemo(k, v) \/ UpsertMapping(k, v)
         \/ \E d \in Docs : Edit(d)
  <1> USE DEF durable, external
  <1>1. ASSUME NEW k \in Jobs, ClientStep(k) PROVE UNCHANGED <<docMap, memos, src>>
    BY <1>1 DEF ClientStep, CreateJob, Resume, Retry, Cancel, StartRunner
  <1>2. ASSUME NEW k \in Jobs, RunnerStep(k) PROVE UNCHANGED <<docMap, memos, src>>
    BY <1>2 DEF RunnerStep, StartCreated, StartRunner, ReadFailed, ResetFailed, MarkRunning,
                LoadItems, Dispatch, StopDispatch, CloseQueue, Drain, WriteLoadFailed,
                WriteCanceled, WriteFailed, WriteDone, WriteVerdict, Unregister
  <1>3. ASSUME NEW k \in Jobs, NEW v \in Workers, WorkerStep(k, v), ~CreateMemo(k, v),
               ~UpdateMemo(k, v), ~UpsertMapping(k, v)
        PROVE  UNCHANGED <<docMap, memos, src>>
    BY <1>3 DEF WorkerStep, Begin, MarkItem, FetchDocument, PrepareContent, Lookup,
                FinishItem, FailItem, CancelItem, ReturnItem
  <1>4. CASE Crash \/ UNCHANGED vars
    BY <1>4 DEF Crash, vars
  <1> QED
    BY <1>1, <1>2, <1>3, <1>4 DEF Next

\* A worker that has an item is moved by its own steps alone, or by a crash.
LEMMA HolderMoves ==
  ASSUME TypeOK, ItemsInv, [Next]_vars, NEW j \in Jobs, NEW w \in Workers,
         Holds(j, w) \/ worker'[j][w].pc \in Fetched,
         worker'[j][w] # worker[j][w], ~Crash
  PROVE  WorkerStep(j, w)
  <1>1. ASSUME NEW k \in Jobs, ClientStep(k) PROVE FALSE
    BY <1>1 DEF ClientStep, CreateJob, Resume, Retry, Cancel, StartRunner
  <1>2. ASSUME NEW k \in Jobs, ResetWorkers(k), run[k].phase \notin Serving PROVE FALSE
    <2>1. j = k /\ worker'[j][w] = IdleWorker
      BY <1>2 DEF ResetWorkers, TypeOK
    <2>2. ~Holds(j, w)
      BY <1>2, <2>1, NobodyHolds DEF ItemsInv, Holds
    <2> QED
      BY <2>1, <2>2 DEF IdleWorker, Fetched
  <1>3. ASSUME NEW k \in Jobs, NEW v \in Workers, NEW d \in Docs, Dispatch(k, v, d) PROVE FALSE
    <2>1. j = k /\ w = v
      BY <1>3 DEF Dispatch, SetWorker, TypeOK
    <2>2. worker[j][w].pc = "idle" /\ worker'[j][w].pc = "taken"
      BY <1>3, <2>1 DEF Dispatch, SetWorker, TypeOK, IdleWorker
    <2> QED
      BY <2>2 DEF Holds, Holding, Fetched
  <1>4. ASSUME NEW k \in Jobs, RunnerStep(k) PROVE FALSE
    BY <1>2, <1>3, <1>4
    DEF RunnerStep, StartCreated, StartRunner, ReadFailed, ResetFailed, MarkRunning,
        LoadItems, StopDispatch, CloseQueue, Drain, WriteLoadFailed,
        WriteCanceled, WriteFailed, WriteDone, WriteVerdict, Unregister, Serving
  <1>5. ASSUME NEW k \in Jobs, NEW v \in Workers, WorkerStep(k, v) PROVE j = k /\ w = v
    <2>1. \E r : SetWorker(k, v, r)
      BY <1>5 DEF WorkerStep, Begin, MarkItem, FetchDocument, PrepareContent, Lookup,
                  CreateMemo, UpdateMemo, AfterReply, UpsertMapping, FinishItem, FailItem,
                  CancelItem, ReturnItem, Release, GoTo
    <2> QED
      BY <2>1 DEF SetWorker, TypeOK
  <1>6. CASE (\E d \in Docs : Edit(d)) \/ UNCHANGED vars
    BY <1>6 DEF Edit, vars
  <1> QED
    BY <1>1, <1>4, <1>5, <1>6 DEF Next

-----------------------------------------------------------------------------
(* What the four steps write.                                              *)

\* A worker with a document has what it takes to import it.
LEMMA FetchedWorker ==
  ASSUME TypeOK, NEW j \in Jobs, NEW w \in Workers, worker[j][w].pc \in Fetched
  PROVE  /\ Holds(j, w)
         /\ worker[j][w] \in Worker
         /\ worker[j][w].item \in Docs
         /\ worker[j][w].doc \in Document
         /\ worker[j][w].doc.at \in Nat
         /\ src[worker[j][w].item].at \in Nat
         /\ docMap[worker[j][w].item] # None => docMap[worker[j][w].item].at \in Nat
  BY DEF TypeOK, WorkerOK, Holds, Holding, Document, Source, Mapping

\* After a Memos request that succeeded the worker goes on; after another one it
\* tries again with the same document or gives it up.
LEMMA ReplyMoves ==
  ASSUME TypeOK, NEW j \in Jobs, NEW w \in Workers, worker[j][w].pc \in Fetched,
         NEW reply \in MemosReply, NEW success, AfterReply(j, w, reply, success)
  PROVE  \/ reply.result = "ok" /\ reply.applied /\ worker'[j][w] = success
         \/ /\ reply.result # "ok"
            /\ worker'[j][w].pc \in {worker[j][w].pc, "fail", "cancel"}
            /\ worker'[j][w].item = worker[j][w].item
            /\ worker'[j][w].doc = worker[j][w].doc
            /\ worker'[j][w].memo = worker[j][w].memo
  <1> DEFINE r == worker[j][w]
  <1>1. r \in Worker
    BY FetchedWorker
  <1>2. reply.result = "ok" => reply.applied
    BY DEF MemosReply
  <1>3. CASE reply.result = "ok"
    BY <1>2, <1>3 DEF AfterReply, SetWorker, TypeOK
  <1>4. CASE reply.result # "ok"
    <2>1. CASE SetWorker(j, w, [r EXCEPT !.attempt = @ + 1])
      <3>1. worker'[j][w] = [r EXCEPT !.attempt = @ + 1]
        BY <2>1 DEF SetWorker, TypeOK
      <3> QED
        BY <1>1, <1>4, <3>1 DEF Worker
    <2>2. CASE SetWorker(j, w, [r EXCEPT !.pc = ErrorPC(j)])
      <3>1. worker'[j][w] = [r EXCEPT !.pc = ErrorPC(j)]
        BY <2>2 DEF SetWorker, TypeOK
      <3> QED
        BY <1>1, <1>4, <3>1 DEF Worker, ErrorPC
    <2> QED
      BY <1>4, <2>1, <2>2 DEF AfterReply
  <1> QED
    BY <1>3, <1>4

\* A creation leaves every memo as it is and, when it succeeds, the worker with the
\* new one.
LEMMA CreateMemoDoes ==
  ASSUME TypeOK, NEW j \in Jobs, NEW w \in Workers, CreateMemo(j, w)
  PROVE  /\ worker[j][w].pc = "create"
         /\ UNCHANGED <<docMap, src>>
         /\ \A m, d : IsMemoOf(m, d) => memos'[m] = memos[m]
         /\ worker'[j][w].item = worker[j][w].item
         /\ worker'[j][w].doc = worker[j][w].doc
         /\ worker'[j][w].pc \in {"create", "fail", "cancel", "map"}
         /\ \/ /\ worker'[j][w].pc = "map"
               /\ worker'[j][w].memo = Len(memos) + 1
               /\ memos' = Append(memos, [doc |-> worker[j][w].item,
                                          content |-> worker[j][w].doc.content])
            \/ /\ worker'[j][w].pc # "map"
               /\ memos' = memos \/ RepliesMayBeLost
  <1> DEFINE r == worker[j][w]
             x == [doc |-> r.item, content |-> r.doc.content]
             success == [r EXCEPT !.pc = "map", !.result = "imported", !.memo = Len(memos) + 1]
  <1>1. r.pc = "create" /\ UNCHANGED <<docMap, src>> /\ r.pc \in Fetched
    BY DEF CreateMemo, durable, Fetched
  <1>2. r \in Worker /\ r.item \in Docs /\ r.doc \in Document
    BY <1>1, FetchedWorker
  <1>3. x \in Memo
    BY <1>2 DEF Memo, Document
  <1>4. PICK reply \in MemosReply :
          /\ memos' = IF reply.applied THEN Append(memos, x) ELSE memos
          /\ AfterReply(j, w, reply, success)
    BY DEF CreateMemo
  <1>5. \A m, d : IsMemoOf(m, d) => memos'[m] = memos[m]
    BY <1>3, <1>4, AppendProperties DEF IsMemoOf, TypeOK
  <1>6. /\ success.pc = "map" /\ success.item = r.item /\ success.doc = r.doc
        /\ success.memo = Len(memos) + 1
    BY <1>2 DEF Worker
  <1>7. reply.result # "ok" /\ reply.applied => RepliesMayBeLost
    BY DEF MemosReply
  <1>8. \/ reply.result = "ok" /\ reply.applied /\ worker'[j][w] = success
        \/ /\ reply.result # "ok"
           /\ worker'[j][w].pc \in {r.pc, "fail", "cancel"}
           /\ worker'[j][w].item = r.item
           /\ worker'[j][w].doc = r.doc
    BY <1>1, <1>4, ReplyMoves
  <1> QED
    BY <1>1, <1>4, <1>5, <1>6, <1>7, <1>8

\* An update that is applied gives the memo what the worker has fetched, and changes
\* no other memo.
LEMMA UpdateMemoDoes ==
  ASSUME TypeOK, RecordedInv, NEW j \in Jobs, NEW w \in Workers, UpdateMemo(j, w)
  PROVE  /\ worker[j][w].pc = "update"
         /\ UNCHANGED <<docMap, src>>
         /\ Len(memos') = Len(memos)
         /\ \A m \in 1..Len(memos) : memos'[m].doc = memos[m].doc
         /\ \A m \in 1..Len(memos) : m # worker[j][w].memo => memos'[m] = memos[m]
         /\ worker'[j][w].item = worker[j][w].item
         /\ worker'[j][w].doc = worker[j][w].doc
         /\ worker'[j][w].memo = worker[j][w].memo
         /\ worker'[j][w].pc \in {"update", "fail", "cancel", "map"}
         /\ worker'[j][w].pc = "map" =>
              memos'[worker[j][w].memo].content = worker[j][w].doc.content
  <1> DEFINE r == worker[j][w]
             success == [r EXCEPT !.pc = "map", !.result = "overwritten"]
  <1>1. r.pc = "update" /\ UNCHANGED <<docMap, src>> /\ r.pc \in Fetched
    BY DEF UpdateMemo, durable, Fetched
  <1>2. r \in Worker
    BY <1>1, FetchedWorker
  <1>3. r.memo \in 1..Len(memos)
    BY <1>1 DEF RecordedInv, IsMemoOf
  <1>4. PICK reply \in MemosReply :
          /\ memos' = IF reply.applied
                      THEN [memos EXCEPT ![r.memo] = [@ EXCEPT !.content = r.doc.content]]
                      ELSE memos
          /\ AfterReply(j, w, reply, success)
    BY DEF UpdateMemo
  <1>5. DOMAIN memos = 1..Len(memos) /\ \A m \in 1..Len(memos) : memos[m] \in Memo
    BY ElementOfSeq, LenProperties DEF TypeOK
  <1>6. reply.applied => memos'[r.memo] = [memos[r.memo] EXCEPT !.content = r.doc.content]
    BY <1>3, <1>4, <1>5
  <1>7. [memos[r.memo] EXCEPT !.content = r.doc.content].content = r.doc.content
        /\ [memos[r.memo] EXCEPT !.content = r.doc.content].doc = memos[r.memo].doc
    BY <1>3, <1>5 DEF Memo
  <1>8. \A m \in 1..Len(memos) : m # r.memo => memos'[m] = memos[m]
    BY <1>3, <1>4, <1>5
  <1>9. \A m \in 1..Len(memos) : memos'[m].doc = memos[m].doc
    BY <1>4, <1>6, <1>7, <1>8
  <1>10. Len(memos') = Len(memos)
    <2>1. TypeOK'
      BY WorkerStepType DEF WorkerStep
    <2>2. DOMAIN memos' = DOMAIN memos
      BY <1>4
    <2>3. DOMAIN memos' = 1..Len(memos') /\ Len(memos') \in Nat /\ Len(memos) \in Nat
      BY <2>1, LenProperties DEF TypeOK
    <2> QED
      BY <1>5, <2>2, <2>3
  <1>11. /\ success.pc = "map" /\ success.item = r.item /\ success.doc = r.doc
         /\ success.memo = r.memo
    BY <1>2 DEF Worker
  <1>12. \/ reply.result = "ok" /\ reply.applied /\ worker'[j][w] = success
         \/ /\ worker'[j][w].pc \in {r.pc, "fail", "cancel"}
            /\ worker'[j][w].item = r.item
            /\ worker'[j][w].doc = r.doc
            /\ worker'[j][w].memo = r.memo
    BY <1>1, <1>4, ReplyMoves
  <1>13. /\ worker'[j][w].item = r.item
         /\ worker'[j][w].doc = r.doc
         /\ worker'[j][w].memo = r.memo
         /\ worker'[j][w].pc \in {"update", "fail", "cancel", "map"}
    BY <1>1, <1>11, <1>12
  <1>14. worker'[j][w].pc = "map" => memos'[r.memo].content = r.doc.content
    BY <1>1, <1>6, <1>7, <1>12
  <1> QED
    BY <1>1, <1>8, <1>9, <1>10, <1>13, <1>14

\* A mapping that is written says what the worker carries.
LEMMA UpsertMappingDoes ==
  ASSUME TypeOK, NEW j \in Jobs, NEW w \in Workers, UpsertMapping(j, w)
  PROVE  /\ worker[j][w].pc = "map"
         /\ UNCHANGED <<memos, src, run>>
         /\ worker'[j][w].item = worker[j][w].item
         /\ worker'[j][w].doc = worker[j][w].doc
         /\ worker'[j][w].pc \in {"finish", "fail"}
         /\ \A d \in Docs : d # worker[j][w].item => docMap'[d] = docMap[d]
         /\ \/ docMap'[worker[j][w].item] = [memo |-> worker[j][w].memo,
                 content |-> worker[j][w].doc.content, at |-> worker[j][w].doc.at]
            \/ docMap' = docMap /\ Exec(Canceled(j)) # {"ok"} /\ worker'[j][w].pc = "fail"
  <1> DEFINE r == worker[j][w]
             row == [memo |-> r.memo, content |-> r.doc.content, at |-> r.doc.at]
  <1>1. r.pc = "map" /\ UNCHANGED <<memos, src, run>> /\ r.pc \in Fetched
    BY DEF UpsertMapping, external, Fetched
  <1>2. r \in Worker /\ r.item \in Docs
    BY <1>1, FetchedWorker
  <1>3. PICK outcome \in Exec(Canceled(j)) :
          /\ docMap' = IF Applied(outcome) THEN [docMap EXCEPT ![r.item] = row] ELSE docMap
          /\ GoTo(j, w, IF outcome = "ok" THEN "finish" ELSE "fail")
    BY DEF UpsertMapping
  <1>4. worker'[j][w] = [r EXCEPT !.pc = IF outcome = "ok" THEN "finish" ELSE "fail"]
    BY <1>3 DEF GoTo, SetWorker, TypeOK
  <1>5. /\ worker'[j][w].item = r.item /\ worker'[j][w].doc = r.doc
        /\ worker'[j][w].pc = IF outcome = "ok" THEN "finish" ELSE "fail"
    BY <1>2, <1>4 DEF Worker
  <1>6. CASE Applied(outcome)
    <2>1. docMap'[r.item] = row /\ \A d \in Docs : d # r.item => docMap'[d] = docMap[d]
      BY <1>2, <1>3, <1>6 DEF TypeOK
    <2> QED
      BY <1>1, <1>5, <2>1
  <1>7. CASE ~Applied(outcome)
    <2>1. docMap' = docMap /\ Exec(Canceled(j)) # {"ok"} /\ outcome # "ok"
      BY <1>3, <1>7 DEF Applied
    <2> QED
      BY <1>1, <1>5, <2>1
  <1> QED
    BY <1>6, <1>7

-----------------------------------------------------------------------------
(* The invariant is kept.                                                  *)

\* The versions of a document are in order: what is fetched now is the last of them.
LEMMA Versions ==
  ASSUME NEW x, NEW y, NEW z, x.at \in Nat, y.at \in Nat, z.at \in Nat,
         Precedes(x, y), Precedes(y, z)
  PROVE  Precedes(x, z) /\ Precedes(x, x)
  BY DEF Precedes

\* Nothing but a worker moves.
LEMMA StillMemos ==
  ASSUME TypeOK, MemoInv, UNCHANGED <<docMap, memos, src>>,
         \A j \in Jobs, w \in Workers :
           worker'[j][w] = worker[j][w] \/ CarriesOK(j, w)'
  PROVE  MemoInv'
  <1>1. \A d \in Docs : MappingOK(d)'
    BY DEF MemoInv, MappingOK
  <1>2. ASSUME NEW j \in Jobs, NEW w \in Workers, worker'[j][w] = worker[j][w]
        PROVE  CarriesOK(j, w)'
    BY <1>2 DEF MemoInv, CarriesOK, MappedNow
  <1> QED
    BY <1>1, <1>2 DEF MemoInv

\* The steps of a worker that write nothing its document is judged by.
LEMMA OwnMemos ==
  ASSUME TypeOK, MemoInv, NEW j \in Jobs, NEW w \in Workers, WorkerStep(j, w),
         ~CreateMemo(j, w), ~UpdateMemo(j, w), ~UpsertMapping(j, w)
  PROVE  CarriesOK(j, w)'
  <1> DEFINE r == worker[j][w]
             q == worker'[j][w]
  <1>0. r \in Worker /\ WorkerOK(r) /\ CarriesOK(j, w)
    BY DEF TypeOK, MemoInv
  <1>1. UNCHANGED <<docMap, memos, src>>
    BY DEF WorkerStep, Begin, MarkItem, FetchDocument, PrepareContent, Lookup,
           FinishItem, FailItem, CancelItem, ReturnItem, durable, external
  <1>2. ASSUME q.pc \notin Fetched PROVE CarriesOK(j, w)'
    BY <1>2 DEF CarriesOK, Fetched
  <1>3. ASSUME NEW x, SetWorker(j, w, x) PROVE q = x
    BY <1>3 DEF SetWorker, TypeOK
  <1>4. ASSUME NEW pc, GoTo(j, w, pc) PROVE q.pc = pc /\ q.item = r.item /\ q.doc = r.doc
    <2>1. q = [r EXCEPT !.pc = pc]
      BY <1>3, <1>4 DEF GoTo
    <2> QED
      BY <1>0, <2>1 DEF Worker
  <1>5. CASE Begin(j, w)
    <2>1. q.pc \in {"exited", "mark"}
      <3>1. CASE SetWorker(j, w, [IdleWorker EXCEPT !.pc = "exited"])
        BY <1>3, <3>1 DEF IdleWorker
      <3>2. CASE SetWorker(j, w, [r EXCEPT !.pc = "mark"])
        BY <1>4, <3>2 DEF GoTo
      <3> QED
        BY <1>5, <3>1, <3>2 DEF Begin
    <2> QED
      BY <1>2, <2>1 DEF Fetched
  <1>6. CASE MarkItem(j, w)
    BY <1>2, <1>4, <1>6 DEF MarkItem, Fetched
  <1>7. CASE FetchDocument(j, w)
    <2>1. CASE GoTo(j, w, ErrorPC(j))
      BY <1>2, <1>4, <2>1 DEF ErrorPC, Fetched
    <2>2. ASSUME NEW doc \in Document, doc.content = src[r.item].content,
                 doc.at \in {src[r.item].at, NoTime},
                 SetWorker(j, w, [r EXCEPT !.pc = "prepare", !.doc = doc])
          PROVE  CarriesOK(j, w)'
      <3>1. q = [r EXCEPT !.pc = "prepare", !.doc = doc]
        BY <1>3, <2>2
      <3>2. q.pc = "prepare" /\ q.item = r.item /\ q.doc = doc
        BY <1>0, <3>1 DEF Worker
      <3>3. src[r.item].at \in Nat \ {NoTime}
        BY <1>7, FetchDocumentDoes DEF TypeOK, Source
      <3>4. Precedes(doc, src[r.item])
        BY <2>2, <3>3 DEF Precedes, NoTime
      <3> QED
        BY <1>1, <2>2, <3>2, <3>4 DEF CarriesOK
    <2> QED
      BY <1>7, <2>1, <2>2, FetchDocumentDoes
  <1>8. CASE PrepareContent(j, w)
    <2>1. CASE GoTo(j, w, ErrorPC(j))
      BY <1>2, <1>4, <2>1 DEF ErrorPC, Fetched
    <2>2. CASE GoTo(j, w, "lookup")
      BY <1>0, <1>1, <1>4, <1>8, <2>2 DEF PrepareContent, CarriesOK, MappedNow, Fetched
    <2> QED
      BY <1>8, <2>1, <2>2 DEF PrepareContent
  <1>9. CASE Lookup(j, w)
    <2>1. r.pc = "lookup" /\ r.pc \in Fetched
      BY <1>9 DEF Lookup, Fetched
    <2>2. CASE GoTo(j, w, "fail")
      BY <1>2, <1>4, <2>2 DEF Fetched
    <2>3. CASE GoTo(j, w, "create") /\ docMap[r.item] = None
      BY <1>0, <1>1, <1>4, <2>1, <2>3 DEF CarriesOK, MappedNow
    <2>4. CASE SetWorker(j, w, [r EXCEPT !.pc = "finish", !.result = "skipped",
                                         !.memo = docMap[r.item].memo])
      <3>1. q = [r EXCEPT !.pc = "finish", !.result = "skipped", !.memo = docMap[r.item].memo]
        BY <1>3, <2>4
      <3>2. q.pc = "finish" /\ q.item = r.item /\ q.doc = r.doc
        BY <1>0, <3>1 DEF Worker
      <3> QED
        BY <1>0, <1>1, <2>1, <3>2 DEF CarriesOK, MappedNow
    <2>5. CASE /\ docMap[r.item] # None
               /\ ~documentUnchanged(docMap[r.item], r.doc)
               /\ SetWorker(j, w, [r EXCEPT !.pc = "update", !.memo = docMap[r.item].memo])
      <3>1. q = [r EXCEPT !.pc = "update", !.memo = docMap[r.item].memo]
        BY <1>3, <2>5
      <3>2. q.pc = "update" /\ q.item = r.item /\ q.doc = r.doc /\ q.memo = docMap[r.item].memo
        BY <1>0, <3>1 DEF Worker
      <3>3. /\ r.item \in Docs /\ r.doc.at \in Nat
            /\ docMap[r.item].at \in Nat /\ src[r.item].at \in Nat
        BY <2>1, <2>5, FetchedWorker
      <3>4. Precedes(docMap[r.item], src[r.item]) /\ Precedes(r.doc, src[r.item])
        BY <1>0, <2>1, <2>5, <3>3 DEF CarriesOK, MemoInv, MappingOK
      <3>5. ~MappedNow(r.item)
        <4> SUFFICES ASSUME docMap[r.item].at = src[r.item].at PROVE FALSE
          BY DEF MappedNow
        <4>1. r.doc.content = docMap[r.item].content
          BY <1>0, <2>1, <2>5, <3>4 DEF CarriesOK, MappedNow, Precedes
        <4>2. r.doc.at > docMap[r.item].at
          BY <2>5, <4>1 DEF documentUnchanged
        <4> QED
          BY <3>3, <3>4, <4>2 DEF Precedes
      <3> QED
        BY <1>0, <1>1, <2>1, <2>5, <3>2, <3>5 DEF CarriesOK, MappedNow
    <2> QED
      BY <1>9, <2>2, <2>3, <2>4, <2>5 DEF Lookup
  <1>10. CASE FinishItem(j, w) \/ FailItem(j, w) \/ CancelItem(j, w)
    <2>1. q = IdleWorker
      BY <1>3, <1>10 DEF FinishItem, FailItem, CancelItem, ReturnItem, Release
    <2> QED
      BY <1>2, <2>1 DEF IdleWorker, Fetched
  <1> QED
    BY <1>5, <1>6, <1>7, <1>8, <1>9, <1>10 DEF WorkerStep

\* A worker that has another document than the one that moves is not concerned.
LEMMA WorkersElsewhere ==
  ASSUME TypeOK, ItemsInv, ShareNoDocument, NEW k \in Jobs, NEW v \in Workers,
         WorkerStep(k, v), worker[k][v].pc \in Fetched, NEW j \in Jobs, NEW w \in Workers,
         worker'[j][w].pc \in Fetched, j # k \/ w # v
  PROVE  /\ worker'[j][w] = worker[j][w]
         /\ worker[j][w].item \in Docs
         /\ worker[j][w].item # worker[k][v].item
  <1>1. \E r : SetWorker(k, v, r)
    BY DEF WorkerStep, Begin, MarkItem, FetchDocument, PrepareContent, Lookup,
           CreateMemo, UpdateMemo, AfterReply, UpsertMapping, FinishItem, FailItem,
           CancelItem, ReturnItem, Release, GoTo
  <1>2. worker'[j][w] = worker[j][w]
    BY <1>1 DEF SetWorker, TypeOK
  <1>3. Holds(k, v) /\ Holds(j, w) /\ worker[j][w].item \in Docs
    BY <1>2, FetchedWorker
  <1>4. worker[j][w].item # worker[k][v].item
    BY <1>3, OneWorkerPerDocument
  <1> QED
    BY <1>2, <1>3, <1>4

\* A memo is created for a document without one.
LEMMA CreateKeepsMemos ==
  ASSUME TypeOK, ItemsInv, RecordedInv, MemoInv, ShareNoDocument,
         NEW k \in Jobs, NEW v \in Workers, CreateMemo(k, v)
  PROVE  MemoInv'
  <1> DEFINE r == worker[k][v]
             q == worker'[k][v]
  <1>1. r.pc = "create" /\ r.pc \in Fetched /\ CarriesOK(k, v) /\ WorkerStep(k, v)
    BY DEF CreateMemo, Fetched, MemoInv, WorkerStep
  <1>2. ASSUME NEW d \in Docs PROVE MappingOK(d)'
    <2>1. docMap[d] # None => IsMemoOf(docMap[d].memo, d) /\ MappingOK(d)
      BY DEF RecordedInv, RecordedMemosExist, MemoInv
    <2>2. UNCHANGED <<docMap, src>> /\ \A m, e : IsMemoOf(m, e) => memos'[m] = memos[m]
      BY CreateMemoDoes
    <2>3. docMap[d] # None => memos'[docMap[d].memo] = memos[docMap[d].memo]
      BY <2>1, <2>2
    <2> QED
      BY <2>1, <2>2, <2>3 DEF MappingOK
  <1>3. CarriesOK(k, v)'
    <2>1. CASE q.pc = "map"
      <3>1. memos'[q.memo].content = q.doc.content
        <4>1. [doc |-> r.item, content |-> r.doc.content] \in Memo
          BY <1>1, FetchedWorker DEF Memo, Document
        <4>2. memos'[Len(memos) + 1] = [doc |-> r.item, content |-> r.doc.content]
          BY <2>1, <4>1, CreateMemoDoes, AppendProperties DEF TypeOK
        <4> QED
          BY <2>1, <4>2, CreateMemoDoes
      <3> QED
        BY <1>1, <2>1, <3>1, CreateMemoDoes DEF CarriesOK, MappedNow
    <2>2. CASE q.pc # "map"
      BY <1>1, <2>2, CreateMemoDoes DEF CarriesOK, MappedNow, Fetched
    <2> QED
      BY <2>1, <2>2
  <1>4. ASSUME NEW j \in Jobs, NEW w \in Workers, j # k \/ w # v PROVE CarriesOK(j, w)'
    <2>1. CASE worker'[j][w].pc \notin Fetched
      BY <2>1 DEF CarriesOK, Fetched
    <2>2. CASE worker'[j][w].pc \in Fetched
      <3>1. worker'[j][w] = worker[j][w] /\ CarriesOK(j, w)
        BY <1>1, <1>4, <2>2, WorkersElsewhere DEF MemoInv
      <3>2. worker[j][w].pc = "map" => IsMemoOf(worker[j][w].memo, worker[j][w].item)
        BY DEF RecordedInv
      <3>3. UNCHANGED <<docMap, src>> /\ \A m, e : IsMemoOf(m, e) => memos'[m] = memos[m]
        BY CreateMemoDoes
      <3>4. worker[j][w].pc = "map" => memos'[worker[j][w].memo] = memos[worker[j][w].memo]
        BY <3>2, <3>3
      <3> QED
        BY <3>1, <3>3, <3>4 DEF CarriesOK, MappedNow
    <2> QED
      BY <2>1, <2>2
  <1> QED
    BY <1>2, <1>3, <1>4 DEF MemoInv

\* The memo that is updated is mapped for a version that is not the present one.
LEMMA UpdateKeepsMemos ==
  ASSUME TypeOK, ItemsInv, RecordedInv, MemoInv, ShareNoDocument,
         NEW k \in Jobs, NEW v \in Workers, UpdateMemo(k, v)
  PROVE  MemoInv'
  <1> DEFINE r == worker[k][v]
             q == worker'[k][v]
  <1>1. r.pc = "update" /\ r.pc \in Fetched /\ CarriesOK(k, v) /\ WorkerStep(k, v)
    BY DEF UpdateMemo, Fetched, MemoInv, WorkerStep
  <1>2. IsMemoOf(r.memo, r.item)
    BY <1>1 DEF RecordedInv
  <1>3. ASSUME NEW m, NEW d, IsMemoOf(m, d), d # r.item PROVE memos'[m] = memos[m]
    BY <1>2, <1>3, UpdateMemoDoes DEF IsMemoOf
  <1>4. ASSUME NEW d \in Docs PROVE MappingOK(d)'
    <2>1. docMap[d] # None => IsMemoOf(docMap[d].memo, d) /\ MappingOK(d)
      BY DEF RecordedInv, RecordedMemosExist, MemoInv
    <2>2. CASE d # r.item
      BY <1>3, <2>1, <2>2, UpdateMemoDoes DEF MappingOK
    <2>3. CASE d = r.item
      <3>1. docMap[d].at # src[d].at
        BY <1>1, <2>3 DEF CarriesOK, MappedNow
      <3>2. docMap' = docMap /\ src' = src
        BY UpdateMemoDoes
      <3> QED
        BY <2>1, <3>1, <3>2 DEF MappingOK
    <2> QED
      BY <2>2, <2>3
  <1>5. CarriesOK(k, v)'
    BY <1>1, UpdateMemoDoes DEF CarriesOK, MappedNow, Fetched
  <1>6. ASSUME NEW j \in Jobs, NEW w \in Workers, j # k \/ w # v PROVE CarriesOK(j, w)'
    <2>1. CASE worker'[j][w].pc \notin Fetched
      BY <2>1 DEF CarriesOK, Fetched
    <2>2. CASE worker'[j][w].pc \in Fetched
      <3>1. /\ worker'[j][w] = worker[j][w] /\ CarriesOK(j, w)
            /\ worker[j][w].item # r.item
        BY <1>1, <1>6, <2>2, WorkersElsewhere DEF MemoInv
      <3>2. worker[j][w].pc = "map" => IsMemoOf(worker[j][w].memo, worker[j][w].item)
        BY DEF RecordedInv
      <3>3. worker[j][w].pc = "map" => memos'[worker[j][w].memo] = memos[worker[j][w].memo]
        BY <1>3, <3>1, <3>2
      <3> QED
        BY <3>1, <3>3, UpdateMemoDoes DEF CarriesOK, MappedNow
    <2> QED
      BY <2>1, <2>2
  <1> QED
    BY <1>4, <1>5, <1>6 DEF MemoInv

\* The mapping that is written is of the version the memo has.
LEMMA UpsertKeepsMemos ==
  ASSUME TypeOK, ItemsInv, MemoInv, ShareNoDocument,
         NEW k \in Jobs, NEW v \in Workers, UpsertMapping(k, v)
  PROVE  MemoInv'
  <1> DEFINE r == worker[k][v]
             q == worker'[k][v]
             row == [memo |-> r.memo, content |-> r.doc.content, at |-> r.doc.at]
  <1>1. r.pc = "map" /\ r.pc \in Fetched /\ CarriesOK(k, v) /\ WorkerStep(k, v)
    BY DEF UpsertMapping, Fetched, MemoInv, WorkerStep
  <1>2. r.item \in Docs /\ r.doc \in Document /\ r.doc.at \in Nat /\ Holds(k, v)
    BY <1>1, FetchedWorker
  <1>3. Precedes(r.doc, src[r.item]) /\ memos[r.memo].content = r.doc.content
    BY <1>1 DEF CarriesOK
  <1>4. Precedes(row, src[r.item]) /\ Precedes(row, r.doc)
    BY <1>2, <1>3 DEF Precedes
  <1>a. memos' = memos /\ src' = src
    BY UpsertMappingDoes
  <1>b. \A d \in Docs : d # r.item => docMap'[d] = docMap[d]
    BY UpsertMappingDoes
  <1>5. ASSUME NEW d \in Docs PROVE MappingOK(d)'
    <2>1. CASE docMap'[d] = docMap[d]
      BY <1>a, <2>1 DEF MemoInv, MappingOK
    <2>2. CASE d = r.item /\ docMap'[d] = row
      <3>1. row.memo = r.memo /\ row.content = r.doc.content
        OBVIOUS
      <3> QED
        BY <1>3, <1>4, <1>a, <2>2, <3>1 DEF MappingOK
    <2>3. docMap'[d] = docMap[d] \/ (d = r.item /\ docMap'[d] = row)
      BY UpsertMappingDoes
    <2> QED
      BY <2>1, <2>2, <2>3
  <1>6. CarriesOK(k, v)'
    <2>1. /\ q.item = r.item /\ q.doc = r.doc /\ q.pc \in {"finish", "fail"}
          /\ docMap'[r.item] = row \/ docMap'[r.item] = docMap[r.item]
      BY UpsertMappingDoes
    <2>2. /\ Precedes(r.doc, src[r.item])
          /\ MappedNow(r.item) => r.doc.content = src[r.item].content
      BY <1>1 DEF CarriesOK
    <2>3. MappedNow(r.item)' => r.doc.content = src[r.item].content
      BY <1>3, <1>a, <2>1, <2>2 DEF MappedNow, Precedes
    <2> QED
      BY <1>a, <2>1, <2>2, <2>3 DEF CarriesOK
  <1>7. ASSUME NEW j \in Jobs, NEW w \in Workers, j # k \/ w # v PROVE CarriesOK(j, w)'
    <2>1. CASE worker'[j][w].pc \notin Fetched
      BY <2>1 DEF CarriesOK, Fetched
    <2>2. CASE worker'[j][w].pc \in Fetched
      <3>1. /\ worker'[j][w] = worker[j][w] /\ CarriesOK(j, w)
            /\ worker[j][w].item \in Docs
            /\ worker[j][w].item # r.item
        BY <1>1, <1>7, <2>2, WorkersElsewhere DEF MemoInv
      <3>2. docMap'[worker[j][w].item] = docMap[worker[j][w].item]
        BY <1>b, <3>1
      <3> QED
        BY <1>a, <3>1, <3>2 DEF CarriesOK, MappedNow
    <2> QED
      BY <2>1, <2>2
  <1> QED
    BY <1>5, <1>6, <1>7 DEF MemoInv

\* An edit makes a version later than all that were fetched or mapped.
LEMMA EditKeepsMemos ==
  ASSUME TypeOK, MemoInv, NEW e \in Docs, Edit(e)
  PROVE  MemoInv'
  <1>1. UNCHANGED <<docMap, memos, worker>>
    BY DEF Edit, durable
  <1>2. ASSUME NEW d \in Docs, src'[d] # src[d] PROVE src'[d].at = src[d].at + 1
    BY <1>2 DEF Edit, TypeOK
  <1>3. \A d \in Docs : src[d].at \in Nat
    BY DEF TypeOK, Source
  <1>4. ASSUME NEW d \in Docs, NEW x, x.at \in Nat, Precedes(x, src[d]) PROVE Precedes(x, src'[d])
    BY <1>2, <1>3, <1>4 DEF Precedes
  <1>5. ASSUME NEW d \in Docs PROVE MappingOK(d)'
    <2>1. CASE docMap[d] = None
      BY <1>1, <2>1 DEF MappingOK
    <2>2. CASE docMap[d] # None
      <3>1. docMap[d].at \in Nat /\ MappingOK(d)
        BY <2>2 DEF TypeOK, Mapping, MemoInv
      <3>2. Precedes(docMap[d], src'[d])
        BY <1>4, <2>2, <3>1 DEF MappingOK
      <3>3. docMap[d].at = src'[d].at => src'[d] = src[d]
        BY <1>2, <1>3, <2>2, <3>1 DEF MappingOK, Precedes
      <3> QED
        BY <1>1, <2>2, <3>1, <3>2, <3>3 DEF MappingOK
    <2> QED
      BY <2>1, <2>2
  <1>a. ASSUME NEW d \in Docs, MappedNow(d)' PROVE src'[d] = src[d] /\ MappedNow(d)
    <2>1. docMap[d] # None /\ docMap[d].at = src'[d].at
      BY <1>1, <1>a DEF MappedNow
    <2>2. docMap[d].at \in Nat /\ Precedes(docMap[d], src[d])
      BY <2>1 DEF TypeOK, Mapping, MemoInv, MappingOK
    <2> QED
      BY <1>2, <1>3, <2>1, <2>2 DEF Precedes, MappedNow
  <1>6. ASSUME NEW j \in Jobs, NEW w \in Workers PROVE CarriesOK(j, w)'
    <2>1. CarriesOK(j, w)
      BY DEF MemoInv
    <2>2. worker[j][w].pc \in Fetched => Precedes(worker[j][w].doc, src'[worker[j][w].item])
      BY <1>4, <2>1, FetchedWorker DEF CarriesOK
    <2>3. CASE worker[j][w].pc \in Fetched
      <3>1. worker[j][w].item \in Docs
        BY <2>3, FetchedWorker
      <3> QED
        BY <1>1, <1>a, <2>1, <2>2, <3>1 DEF CarriesOK
    <2>4. CASE worker[j][w].pc \notin Fetched
      BY <1>1, <2>4 DEF CarriesOK, Fetched
    <2> QED
      BY <2>3, <2>4
  <1> QED
    BY <1>5, <1>6 DEF MemoInv

\* Every step.
LEMMA MemoStep ==
  TypeOK /\ ItemsInv /\ RecordedInv /\ MemoInv /\ ShareNoDocument /\ [Next]_vars => MemoInv'
  <1> SUFFICES ASSUME TypeOK, ItemsInv, RecordedInv, MemoInv, ShareNoDocument, [Next]_vars
               PROVE  MemoInv'
    OBVIOUS
  <1>1. ASSUME NEW k \in Jobs, NEW v \in Workers,
               CreateMemo(k, v) \/ UpdateMemo(k, v) \/ UpsertMapping(k, v)
        PROVE  MemoInv'
    BY <1>1, CreateKeepsMemos, UpdateKeepsMemos, UpsertKeepsMemos
  <1>2. ASSUME NEW d \in Docs, Edit(d) PROVE MemoInv'
    BY <1>2, EditKeepsMemos
  <1>3. CASE /\ UNCHANGED <<docMap, memos, src>>
             /\ ~\E k \in Jobs, v \in Workers :
                   CreateMemo(k, v) \/ UpdateMemo(k, v) \/ UpsertMapping(k, v)
    <2>1. ASSUME NEW j \in Jobs, NEW w \in Workers, worker'[j][w] # worker[j][w]
          PROVE  CarriesOK(j, w)'
      <3>1. CASE worker'[j][w].pc \notin Fetched
        BY <3>1 DEF CarriesOK, Fetched
      <3>2. CASE worker'[j][w].pc \in Fetched
        <4>1. ~Crash
          BY <3>2 DEF Crash, IdleWorker, Fetched
        <4>2. WorkerStep(j, w)
          BY <2>1, <3>2, <4>1, HolderMoves
        <4> QED
          BY <1>3, <4>2, OwnMemos
      <3> QED
        BY <3>1, <3>2
    <2> QED
      BY <1>3, <2>1, StillMemos
  <1> QED
    BY <1>1, <1>2, <1>3, ContentSteps

\* The invariants together, in behaviours in which no two jobs have the same document
\* in work at once.
LEMMA MemoAlways ==
  Spec /\ []ShareNoDocument => [](TypeOK /\ ItemsInv /\ RecordedInv /\ MemoInv)
  <1>1. Init => TypeOK /\ ItemsInv /\ RecordedInv /\ MemoInv
    BY InitType, ItemsInit, RecordedInit, MemoInit
  <1>2. TypeOK /\ ItemsInv /\ RecordedInv /\ MemoInv /\ ShareNoDocument /\ [Next]_vars
          => (TypeOK /\ ItemsInv /\ RecordedInv /\ MemoInv)'
    BY NextType, ItemsStep, RecordedStep, MemoStep
  <1> QED
    BY <1>1, <1>2, PTL DEF Spec

\* As long as no two jobs have the same document in work at once, a document that the
\* next import would skip as unchanged has a memo with its content, whatever fails,
\* is canceled, is lost or is edited when, and however often the process stops
\* (content.go:47-55, importer.go:250-280).
THEOREM UnchangedMemosAlwaysCurrent == Spec /\ []ShareNoDocument => []UnchangedMemosAreCurrent
  <1>1. TypeOK /\ MemoInv => UnchangedMemosAreCurrent
    <2> SUFFICES ASSUME TypeOK, MemoInv, NEW d \in Docs, docMap[d] # None,
                        docMap[d].at # NoTime, documentUnchanged(docMap[d], src[d])
                 PROVE  memos[docMap[d].memo].content = src[d].content
      BY DEF UnchangedMemosAreCurrent
    <2>1. docMap[d].at \in Nat /\ src[d].at \in Nat \ {NoTime} /\ MappingOK(d)
      BY DEF TypeOK, Mapping, Source, MemoInv
    <2> QED
      BY <2>1 DEF MappingOK, documentUnchanged, Precedes
  <1> QED
    BY <1>1, MemoAlways, PTL

-----------------------------------------------------------------------------
(* Runs in which nothing fails halfway.                                    *)

NeverCanceled == \A j \in Jobs : ~run[j].canceled

\* The worker has created or updated memo m and not yet mapped it.
Brings(j, w, m) == worker[j][w].pc = "map" /\ worker[j][w].memo = m

\* A memo is mapped or about to be.
Named(m) ==
  \/ docMap[memos[m].doc] # None /\ docMap[memos[m].doc].memo = m
  \/ \E j \in Jobs, w \in Workers : Brings(j, w, m) /\ worker[j][w].item = memos[m].doc

\* A worker that brings a memo to a mapped document brings the mapped memo.
SameMemo(j, w) ==
  worker[j][w].pc = "map" /\ docMap[worker[j][w].item] # None =>
    worker[j][w].memo = docMap[worker[j][w].item].memo

NamedInv ==
  /\ \A m \in 1..Len(memos) : Named(m)
  /\ \A j \in Jobs, w \in Workers : SameMemo(j, w)

\* At first there are no memos.
LEMMA NamedInit == Init => NamedInv /\ NeverCanceled
  <1> SUFFICES ASSUME Init PROVE NamedInv /\ NeverCanceled
    OBVIOUS
  <1>1. Len(memos) = 0
    BY EmptySeq DEF Init
  <1>2. \A j \in Jobs, w \in Workers : SameMemo(j, w)
    BY DEF Init, SameMemo, IdleWorker
  <1> QED
    BY <1>1, <1>2 DEF Init, NamedInv, NeverCanceled, NoRun

\* Only a client cancels.
LEMMA NeverCanceledStep ==
  ASSUME ~AllowCancel
  PROVE  TypeOK /\ NeverCanceled /\ [Next]_vars => NeverCanceled'
  <1> SUFFICES ASSUME TypeOK, NeverCanceled, [Next]_vars PROVE NeverCanceled'
    OBVIOUS
  <1>1. ASSUME NEW j \in Jobs, Keeps(j) \/ Starts(j) \/ Ends(j) PROVE NeverCanceled'
    BY <1>1 DEF NeverCanceled, Keeps, Starts, Ends, OnlyRun
  <1>2. ASSUME NEW j \in Jobs, ClientStep(j) PROVE NeverCanceled'
    <2>1. CASE \E ds \in SUBSET Docs : CreateJob(j, ds)
      BY <2>1 DEF CreateJob, NeverCanceled
    <2>2. CASE Resume(j) \/ Retry(j)
      BY <1>1, <2>2, StartRunnerStarts DEF Resume, Retry, Phases
    <2> QED
      BY <1>2, <2>1, <2>2 DEF ClientStep, Cancel
  <1>3. CASE Crash
    BY <1>3 DEF Crash, NeverCanceled, NoRun
  <1>4. CASE (\E d \in Docs : Edit(d)) \/ UNCHANGED vars
    BY <1>4 DEF Edit, vars, NeverCanceled
  <1> QED
    BY <1>1, <1>2, <1>3, <1>4, RunnerStepRuns, WorkerStepRuns DEF Next

\* A worker goes on to map a memo from creating or updating it only, and stops
\* having to by mapping it only.
LEMMA BringsStep ==
  ASSUME TypeOK, ItemsInv, [Next]_vars, ~Crash, NEW j \in Jobs, NEW w \in Workers,
         ~CreateMemo(j, w), ~UpdateMemo(j, w), ~UpsertMapping(j, w),
         worker[j][w].pc = "map" \/ worker'[j][w].pc = "map"
  PROVE  worker'[j][w] = worker[j][w]
  <1> DEFINE r == worker[j][w]
  <1> SUFFICES ASSUME worker'[j][w] # r PROVE FALSE
    OBVIOUS
  <1>1. WorkerStep(j, w)
    BY HolderMoves DEF Holds, Holding, Fetched
  <1>2. r \in Worker
    BY DEF TypeOK
  <1>3. ASSUME NEW x, SetWorker(j, w, x) PROVE worker'[j][w] = x
    BY <1>3 DEF SetWorker, TypeOK
  <1>4. ASSUME NEW pc, GoTo(j, w, pc) PROVE worker'[j][w].pc = pc
    BY <1>2, <1>3, <1>4 DEF GoTo, Worker
  <1>5. CASE Begin(j, w)
    BY <1>2, <1>3, <1>5 DEF Begin, IdleWorker, Worker
  <1>6. CASE MarkItem(j, w) \/ PrepareContent(j, w)
    BY <1>4, <1>6 DEF MarkItem, PrepareContent, ErrorPC
  <1>7. CASE FetchDocument(j, w)
    <2>1. CASE GoTo(j, w, ErrorPC(j))
      BY <1>4, <1>7, <2>1 DEF ErrorPC, FetchDocument
    <2>2. ASSUME NEW doc, SetWorker(j, w, [r EXCEPT !.pc = "prepare", !.doc = doc])
          PROVE  FALSE
      BY <1>2, <1>3, <1>7, <2>2 DEF Worker, FetchDocument
    <2> QED
      BY <1>7, <2>1, <2>2, FetchDocumentDoes
  <1>8. CASE Lookup(j, w)
    <2>1. r.pc = "lookup"
      BY <1>8 DEF Lookup
    <2>2. CASE GoTo(j, w, "fail") \/ GoTo(j, w, "create")
      BY <1>4, <2>1, <2>2
    <2>3. CASE SetWorker(j, w, [r EXCEPT !.pc = "finish", !.result = "skipped",
                                         !.memo = docMap[r.item].memo])
      BY <1>2, <1>3, <2>1, <2>3 DEF Worker
    <2>4. CASE SetWorker(j, w, [r EXCEPT !.pc = "update", !.memo = docMap[r.item].memo])
      BY <1>2, <1>3, <2>1, <2>4 DEF Worker
    <2> QED
      BY <1>8, <2>2, <2>3, <2>4 DEF Lookup
  <1>9. CASE FinishItem(j, w) \/ FailItem(j, w) \/ CancelItem(j, w)
    <2>1. r.pc # "map" /\ SetWorker(j, w, IdleWorker)
      BY <1>9 DEF FinishItem, FailItem, CancelItem, ReturnItem, Release
    <2> QED
      BY <1>3, <2>1 DEF IdleWorker
  <1> QED
    BY <1>1, <1>5, <1>6, <1>7, <1>8, <1>9 DEF WorkerStep

\* A worker about to map a memo does just that.
LEMMA BringersStay ==
  ASSUME TypeOK, ItemsInv, [Next]_vars, ~Crash, NEW j \in Jobs, NEW w \in Workers,
         worker[j][w].pc = "map", ~UpsertMapping(j, w)
  PROVE  worker'[j][w] = worker[j][w]
  <1>1. ~CreateMemo(j, w) /\ ~UpdateMemo(j, w)
    BY DEF CreateMemo, UpdateMemo
  <1> QED
    BY <1>1, BringsStep

\* A memo keeps its name while no mapping is written.
LEMMA NameKept ==
  ASSUME TypeOK, ItemsInv, [Next]_vars, ~Crash, docMap' = docMap,
         \A j \in Jobs, w \in Workers : ~UpsertMapping(j, w),
         NEW m, Named(m), memos'[m].doc = memos[m].doc
  PROVE  Named(m)'
  <1>1. CASE docMap[memos[m].doc] # None /\ docMap[memos[m].doc].memo = m
    BY <1>1 DEF Named
  <1>2. ASSUME NEW j \in Jobs, NEW w \in Workers, Brings(j, w, m),
               worker[j][w].item = memos[m].doc
        PROVE  Named(m)'
    <2>1. worker'[j][w] = worker[j][w]
      BY <1>2, BringersStay DEF Brings
    <2> QED
      BY <1>2, <2>1 DEF Named, Brings
  <1> QED
    BY <1>1, <1>2 DEF Named

\* A created memo is about to be mapped, for a document without a mapping.
LEMMA CreateNames ==
  ASSUME ~RepliesMayBeLost, TypeOK, ItemsInv, MemoInv, NamedInv, ShareNoDocument,
         [Next]_vars, ~Crash, NEW k \in Jobs, NEW v \in Workers, CreateMemo(k, v)
  PROVE  NamedInv'
  <1> DEFINE r == worker[k][v]
             q == worker'[k][v]
             x == [doc |-> r.item, content |-> r.doc.content]
  <1>1. r.pc = "create" /\ r.pc \in Fetched /\ CarriesOK(k, v) /\ WorkerStep(k, v)
    BY DEF CreateMemo, Fetched, MemoInv, WorkerStep
  <1>2. docMap' = docMap /\ q.item = r.item /\ docMap[r.item] = None
    BY <1>1, CreateMemoDoes DEF CarriesOK
  <1>3. \A j \in Jobs, w \in Workers : ~UpsertMapping(j, w)
    <2> SUFFICES ASSUME NEW j \in Jobs, NEW w \in Workers, UpsertMapping(j, w) PROVE FALSE
      OBVIOUS
    <2>1. worker'[j][w].pc \in {"finish", "fail"} /\ worker[j][w].pc = "map"
      BY UpsertMappingDoes
    <2>2. j # k \/ w # v
      BY <1>1, <2>1
    <2>3. \E y : SetWorker(k, v, y)
      BY DEF CreateMemo, AfterReply
    <2>4. worker'[j][w] = worker[j][w]
      BY <2>2, <2>3 DEF SetWorker, TypeOK
    <2> QED
      BY <2>1, <2>4
  <1>4. ASSUME NEW m \in 1..Len(memos), memos'[m] = memos[m] PROVE Named(m)'
    BY <1>2, <1>3, <1>4, NameKept DEF NamedInv
  <1>5. ASSUME NEW m \in 1..Len(memos') PROVE Named(m)'
    <2>1. CASE memos' = memos
      BY <1>4, <2>1
    <2>2. CASE q.pc = "map" /\ q.memo = Len(memos) + 1 /\ memos' = Append(memos, x)
      <3>1. x \in Memo /\ memos \in Seq(Memo) /\ Len(memos) \in Nat
        BY <1>1, FetchedWorker, LenProperties DEF Memo, Document, TypeOK
      <3>2. /\ Len(memos') = Len(memos) + 1 /\ memos'[Len(memos) + 1] = x
            /\ \A n \in 1..Len(memos) : memos'[n] = memos[n]
        BY <2>2, <3>1, AppendProperties
      <3>3. CASE m \in 1..Len(memos)
        BY <1>4, <3>2, <3>3
      <3>4. CASE m = Len(memos) + 1
        <4>1. memos'[m].doc = r.item
          BY <3>2, <3>4
        <4> QED
          BY <1>2, <2>2, <3>4, <4>1 DEF Named, Brings
      <3> QED
        BY <3>1, <3>2, <3>3, <3>4
    <2> QED
      BY <2>1, <2>2, CreateMemoDoes
  <1>6. ASSUME NEW j \in Jobs, NEW w \in Workers PROVE SameMemo(j, w)'
    <2>1. CASE j = k /\ w = v
      BY <1>2, <2>1 DEF SameMemo
    <2>2. CASE j # k \/ w # v
      <3> SUFFICES ASSUME worker'[j][w].pc = "map" PROVE SameMemo(j, w)'
        BY DEF SameMemo
      <3>1. worker'[j][w] = worker[j][w]
        BY <1>1, <2>2, WorkersElsewhere DEF Fetched
      <3> QED
        BY <1>2, <3>1 DEF NamedInv, SameMemo
    <2> QED
      BY <2>1, <2>2
  <1> QED
    BY <1>5, <1>6 DEF NamedInv

\* The memo that is updated is the mapped one.
LEMMA UpdateNames ==
  ASSUME TypeOK, ItemsInv, RecordedInv, MemoInv, NamedInv, ShareNoDocument,
         [Next]_vars, ~Crash, NEW k \in Jobs, NEW v \in Workers, UpdateMemo(k, v)
  PROVE  NamedInv'
  <1> DEFINE r == worker[k][v]
             q == worker'[k][v]
  <1>1. r.pc = "update" /\ r.pc \in Fetched /\ CarriesOK(k, v) /\ WorkerStep(k, v)
    BY DEF UpdateMemo, Fetched, MemoInv, WorkerStep
  <1>2. /\ docMap' = docMap /\ q.item = r.item /\ q.memo = r.memo
        /\ docMap[r.item].memo = r.memo
        /\ Len(memos') = Len(memos)
        /\ \A m \in 1..Len(memos) : memos'[m].doc = memos[m].doc
    BY <1>1, UpdateMemoDoes DEF CarriesOK
  <1>3. \A j \in Jobs, w \in Workers : ~UpsertMapping(j, w)
    <2> SUFFICES ASSUME NEW j \in Jobs, NEW w \in Workers, UpsertMapping(j, w) PROVE FALSE
      OBVIOUS
    <2>1. worker'[j][w].pc \in {"finish", "fail"} /\ worker[j][w].pc = "map"
      BY UpsertMappingDoes
    <2>2. j # k \/ w # v
      BY <1>1, <2>1
    <2>3. \E y : SetWorker(k, v, y)
      BY DEF UpdateMemo, AfterReply
    <2>4. worker'[j][w] = worker[j][w]
      BY <2>2, <2>3 DEF SetWorker, TypeOK
    <2> QED
      BY <2>1, <2>4
  <1>4. ASSUME NEW m \in 1..Len(memos') PROVE Named(m)'
    BY <1>2, <1>3, <1>4, NameKept DEF NamedInv
  <1>5. ASSUME NEW j \in Jobs, NEW w \in Workers PROVE SameMemo(j, w)'
    <2>1. CASE j = k /\ w = v
      BY <1>2, <2>1 DEF SameMemo
    <2>2. CASE j # k \/ w # v
      <3> SUFFICES ASSUME worker'[j][w].pc = "map" PROVE SameMemo(j, w)'
        BY DEF SameMemo
      <3>1. worker'[j][w] = worker[j][w]
        BY <1>1, <2>2, WorkersElsewhere DEF Fetched
      <3> QED
        BY <1>2, <3>1 DEF NamedInv, SameMemo
    <2> QED
      BY <2>1, <2>2
  <1> QED
    BY <1>4, <1>5 DEF NamedInv

\* The memo that is mapped is the only one of its document.
LEMMA UpsertNames ==
  ASSUME ~StoreMayFail, NeverCanceled, TypeOK, ItemsInv, NamedInv, ShareNoDocument,
         [Next]_vars, ~Crash, NEW k \in Jobs, NEW v \in Workers, UpsertMapping(k, v)
  PROVE  NamedInv'
  <1> DEFINE r == worker[k][v]
             row == [memo |-> r.memo, content |-> r.doc.content, at |-> r.doc.at]
  <1>1. r.pc = "map" /\ r.pc \in Fetched /\ WorkerStep(k, v)
    BY DEF UpsertMapping, Fetched, WorkerStep
  <1>2. r.item \in Docs /\ Holds(k, v) /\ r.doc \in Document /\ r.memo \in Nat
    BY <1>1, FetchedWorker DEF Worker
  <1>3. Exec(Canceled(k)) = {"ok"}
    <2>1. Canceled(k) = FALSE
      BY DEF NeverCanceled, Canceled, TypeOK, Run
    <2> QED
      BY <2>1, Faultless
  <1>4. /\ memos' = memos
        /\ docMap'[r.item] = row
        /\ \A d \in Docs : d # r.item => docMap'[d] = docMap[d]
        /\ worker'[k][v].pc # "map"
    BY <1>3, UpsertMappingDoes
  <1>5. row # None /\ row.memo = r.memo
    BY <1>2, NoneAssumption DEF Mapping, Document
  <1>6. ASSUME NEW m \in 1..Len(memos) PROVE Named(m)'
    <2>1. memos[m].doc \in Docs
      <3>1. memos \in Seq(Memo)
        BY DEF TypeOK
      <3>2. memos[m] \in Memo
        BY <3>1, ElementOfSeq
      <3> QED
        BY <3>2 DEF Memo
    <2>2. CASE docMap[memos[m].doc] # None /\ docMap[memos[m].doc].memo = m
      <3>1. CASE memos[m].doc = r.item
        BY <1>1, <1>4, <1>5, <2>2, <3>1 DEF NamedInv, SameMemo, Named
      <3>2. CASE memos[m].doc # r.item
        BY <1>4, <2>1, <2>2, <3>2 DEF Named
      <3> QED
        BY <3>1, <3>2
    <2>3. ASSUME NEW j \in Jobs, NEW w \in Workers, Brings(j, w, m),
                 worker[j][w].item = memos[m].doc
          PROVE  Named(m)'
      <3>1. CASE j = k /\ w = v
        BY <1>4, <1>5, <2>3, <3>1 DEF Named, Brings
      <3>2. CASE j # k \/ w # v
        <4>1. worker'[j][w] = worker[j][w]
          <5>1. \E y : SetWorker(k, v, y)
            BY DEF UpsertMapping, GoTo
          <5> QED
            BY <3>2, <5>1 DEF SetWorker, TypeOK
        <4> QED
          BY <1>4, <2>3, <4>1 DEF Named, Brings
      <3> QED
        BY <3>1, <3>2
    <2> QED
      BY <2>2, <2>3 DEF NamedInv, Named
  <1>7. ASSUME NEW j \in Jobs, NEW w \in Workers PROVE SameMemo(j, w)'
    <2> SUFFICES ASSUME worker'[j][w].pc = "map" PROVE SameMemo(j, w)'
      BY DEF SameMemo
    <2>1. j # k \/ w # v
      BY <1>4
    <2>2. /\ worker'[j][w] = worker[j][w] /\ worker[j][w].item \in Docs
          /\ worker[j][w].item # r.item
      BY <1>1, <2>1, WorkersElsewhere DEF Fetched
    <2> QED
      BY <1>4, <2>2 DEF NamedInv, SameMemo
  <1> QED
    BY <1>4, <1>6, <1>7 DEF NamedInv

\* Every step.
LEMMA NamedStep ==
  ASSUME ~StoreMayFail, ~RepliesMayBeLost, MaxCrashes = 0
  PROVE  /\ TypeOK /\ ItemsInv /\ RecordedInv /\ MemoInv
         /\ NeverCanceled /\ NamedInv /\ ShareNoDocument /\ [Next]_vars
         => NamedInv'
  <1> SUFFICES ASSUME TypeOK, ItemsInv, RecordedInv, MemoInv, NeverCanceled, NamedInv,
                      ShareNoDocument, [Next]_vars
               PROVE  NamedInv'
    OBVIOUS
  <1>1. ~Crash
    BY DEF Crash, TypeOK
  <1>2. ASSUME NEW k \in Jobs, NEW v \in Workers,
               CreateMemo(k, v) \/ UpdateMemo(k, v) \/ UpsertMapping(k, v)
        PROVE  NamedInv'
    BY <1>1, <1>2, CreateNames, UpdateNames, UpsertNames
  <1>3. CASE ~\E k \in Jobs, v \in Workers :
                CreateMemo(k, v) \/ UpdateMemo(k, v) \/ UpsertMapping(k, v)
    <2>1. memos' = memos /\ docMap' = docMap
      BY <1>3, ContentSteps DEF Edit, durable
    <2>2. \A m \in 1..Len(memos) : Named(m)'
      BY <1>1, <1>3, <2>1, NameKept DEF NamedInv
    <2>3. ASSUME NEW j \in Jobs, NEW w \in Workers PROVE SameMemo(j, w)'
      <3>1. worker'[j][w].pc = "map" => worker'[j][w] = worker[j][w]
        BY <1>1, <1>3, BringsStep
      <3> QED
        BY <2>1, <3>1 DEF NamedInv, SameMemo
    <2> QED
      BY <2>1, <2>2, <2>3 DEF NamedInv
  <1> QED
    BY <1>2, <1>3

\* As long as no two jobs have the same document in work at once, nobody cancels, no
\* store statement fails, no answer of Memos is lost and the process does not stop, no
\* document gets a second memo: however many jobs import it, one after the other, and
\* however often it is edited, retried or resumed, what was created is found again by
\* the mapping (importer.go:240-292).  Each of the conditions is one the code
\* needs: a run that stops between creating a memo and mapping it leaves a memo
\* that the next run does not find.
THEOREM DocumentsHaveOneMemo ==
  ASSUME ~AllowCancel, ~StoreMayFail, ~RepliesMayBeLost, MaxCrashes = 0
  PROVE  Spec /\ []ShareNoDocument => []NoDuplicateMemo
  <1>1. TypeOK /\ ItemsInv /\ NamedInv /\ ShareNoDocument => NoDuplicateMemo
    <2> SUFFICES ASSUME TypeOK, ItemsInv, NamedInv, ShareNoDocument,
                        NEW m \in 1..Len(memos), NEW n \in 1..Len(memos),
                        memos[m].doc = memos[n].doc
                 PROVE  m = n
      BY DEF NoDuplicateMemo
    <2>1. Named(m) /\ Named(n)
      BY DEF NamedInv
    <2>2. ASSUME NEW j \in Jobs, NEW w \in Workers, NEW x, NEW y, Brings(j, w, x),
                 worker[j][w].item = memos[x].doc, memos[x].doc = memos[y].doc,
                 docMap[memos[y].doc] # None, docMap[memos[y].doc].memo = y
          PROVE  x = y
      BY <2>2 DEF NamedInv, SameMemo, Brings
    <2>3. ASSUME NEW j \in Jobs, NEW w \in Workers, NEW k \in Jobs, NEW v \in Workers,
                 Brings(j, w, m), worker[j][w].item = memos[m].doc,
                 Brings(k, v, n), worker[k][v].item = memos[n].doc
          PROVE  m = n
      <3>1. Holds(j, w) /\ Holds(k, v)
        BY <2>3 DEF Brings, Holds, Holding, Fetched
      <3>2. j = k /\ w = v
        BY <2>3, <3>1, OneWorkerPerDocument
      <3> QED
        BY <2>3, <3>2 DEF Brings
    <2> QED
      BY <2>1, <2>2, <2>3 DEF Named
  <1>2. Init => NeverCanceled /\ NamedInv
    BY NamedInit
  <1>3. TypeOK /\ NeverCanceled /\ [Next]_vars => NeverCanceled'
    BY NeverCanceledStep
  <1>4. /\ TypeOK /\ ItemsInv /\ RecordedInv /\ MemoInv
        /\ NeverCanceled /\ NamedInv /\ ShareNoDocument /\ [Next]_vars
        => NamedInv'
    BY NamedStep
  <1> QED
    BY <1>1, <1>2, <1>3, <1>4, MemoAlways, PTL DEF Spec
===============================================================================
