----------------------------- MODULE ConsoleProofs -----------------------------
(* What the console's buttons make of the engine, proved for every value of   *)
(* the constants: that a job marked running is being run, and that a run that *)
(* comes to its end leaves its job in a status that the user can continue.    *)
EXTENDS Console, ItemsProofs

-----------------------------------------------------------------------------
(* The console and the engine.                                             *)

\* Whatever the browser shows, sends or loses, the engine is asked for nothing
\* that the API would not let it be asked for (job_handler.go:32-186): so what
\* holds of the engine, however it is used, holds of it under a console.
THEOREM ConsoleIsEngine == ConsoleSpec => Spec
  <1>1. ConsoleInit => Init
    BY DEF ConsoleInit
  <1>2. [ConsoleNext]_consoleVars => [Next]_vars
    <2> SUFFICES ASSUME [ConsoleNext]_consoleVars PROVE [Next]_vars
      OBVIOUS
    <2>1. ASSUME NEW j \in Jobs, RequestStep(j) PROVE ClientStep(j)
      BY <2>1 DEF RequestStep, ImportArrives, CancelArrives, ResumeArrives, RetryArrives, ClientStep
    <2>2. ASSUME ServerStep PROVE Next
      BY <2>2 DEF ServerStep, Next
    <2>3. ASSUME NEW j \in Jobs, UserStep(j) PROVE UNCHANGED vars
      BY <2>3 DEF UserStep, StartImport, ClickCancel, ClickResume, ClickRetry, Click, Ask
    <2>4. CASE BrowserStep \/ UNCHANGED consoleVars
      BY <2>4 DEF BrowserStep, RequestFails, ImportEnds, ReadList, ShowList, consoleVars
    <2> QED
      BY <2>1, <2>2, <2>3, <2>4 DEF ConsoleNext, Next
  <1> QED
    BY <1>1, <1>2, PTL DEF ConsoleSpec, Spec

-----------------------------------------------------------------------------
(* Jobs marked running are run.                                            *)

\* Positions before the job is marked running.
Preparing == {"failedItems", "reset", "init"}

\* The status running is written when a run begins, and while nothing is
\* canceled and no statement fails, replaced before the runner is gone.
LiveOK(j) ==
  /\ ~run[j].canceled
  /\ jobStatus[j] = "running" => run[j].phase \notin Preparing \cup {"none", "return"}

LiveInv == \A j \in Jobs : LiveOK(j)

\* Before there are jobs.
LEMMA LiveInit == Init => LiveInv
  <1> SUFFICES ASSUME Init, NEW j \in Jobs PROVE LiveOK(j)
    BY DEF LiveInv
  <1> QED
    BY DEF Init, NoRun, LiveOK

\* A runner's positions and what it writes.
LEMMA RunnerStepLive ==
  ASSUME ~StoreMayFail, TypeOK, NEW j \in Jobs, LiveOK(j), RunnerStep(j)
  PROVE  LiveOK(j)'
  <1>0. run[j] \in Run /\ Canceled(j) = FALSE
    BY DEF TypeOK, LiveOK, Canceled, Run
  <1>1. Exec(Canceled(j)) = {"ok"} /\ Exec(FALSE) = {"ok"} /\ Tx(Canceled(j)) = {"ok"}
    BY <1>0, Faultless
  <1>2. ASSUME NEW phase \in Phases, SetPhase(j, phase)
        PROVE  run'[j].phase = phase /\ ~run'[j].canceled
    BY <1>0, <1>2 DEF SetPhase, SetRun, TypeOK, Run, LiveOK
  <1>3. ASSUME StartRunner(j, "init"), UNCHANGED jobStatus PROVE LiveOK(j)'
    <2>1. run'[j].phase = "init" /\ ~run'[j].canceled
      BY <1>3 DEF StartRunner, SetRun, NoRun, TypeOK
    <2> QED
      BY <1>3, <2>1 DEF LiveOK, StartRunner
  <1>4. CASE StartCreated(j)
    BY <1>3, <1>4 DEF StartCreated, StartRunner, LiveOK, durable
  <1>5. CASE ReadFailed(j) \/ ResetFailed(j)
    <2>1. /\ jobStatus[j] # "running" /\ UNCHANGED jobStatus
      BY <1>5 DEF ReadFailed, ResetFailed, LiveOK, Preparing, durable
    <2>2. \/ \E phase \in {"return"} : SetPhase(j, phase)
          \/ SetRun(j, [run[j] EXCEPT !.phase = "reset", !.todo = FailedItems(j)])
          \/ SetRun(j, [run[j] EXCEPT !.phase = "init", !.todo = {}])
      BY <1>5 DEF ReadFailed, ResetFailed
    <2>3. ASSUME NEW phase, NEW todo, SetRun(j, [run[j] EXCEPT !.phase = phase, !.todo = todo])
          PROVE  ~run'[j].canceled
      BY <1>0, <2>3 DEF SetRun, TypeOK, Run, LiveOK
    <2>4. ~run'[j].canceled
      BY <1>2, <2>2, <2>3 DEF Phases
    <2> QED
      BY <2>1, <2>4 DEF LiveOK
  <1>6. CASE MarkRunning(j)
    <2>1. SetPhase(j, "load")
      BY <1>1, <1>6 DEF MarkRunning
    <2> QED
      BY <1>2, <2>1 DEF LiveOK, Preparing, Phases
  <1>7. CASE LoadItems(j)
    <2>1. SetRun(j, [run[j] EXCEPT !.phase = "dispatch", !.todo = OpenItems(j)])
      BY <1>1, <1>7 DEF LoadItems
    <2>2. run'[j].phase = "dispatch" /\ ~run'[j].canceled
      BY <1>0, <2>1 DEF SetRun, TypeOK, Run, LiveOK
    <2> QED
      BY <2>2 DEF LiveOK, Preparing
  <1>8. CASE \E w \in Workers, d \in Docs : Dispatch(j, w, d)
    <2>1. run'[j].phase = "dispatch" /\ ~run'[j].canceled
      BY <1>0, <1>8 DEF Dispatch, SetRun, TypeOK, Run, LiveOK
    <2> QED
      BY <2>1 DEF LiveOK, Preparing
  <1>9. CASE StopDispatch(j) \/ CloseQueue(j) \/ Drain(j)
    <2>1. \E phase \in {"drainCanceled", "drain", "writeCanceled", "writeFailed", "writeDone"} :
            SetPhase(j, phase)
      BY <1>9 DEF StopDispatch, CloseQueue, Drain, Verdict
    <2> QED
      BY <1>2, <2>1 DEF LiveOK, Preparing, Phases
  <1>10. CASE WriteLoadFailed(j) \/ WriteCanceled(j) \/ WriteFailed(j) \/ WriteDone(j)
    <2>1. SetPhase(j, "return")
      BY <1>10 DEF WriteLoadFailed, WriteCanceled, WriteFailed, WriteDone, WriteVerdict
    <2>2. \E status \in {"failed", "canceled", "done"} : UpdateJobStatus(j, "ok", status)
      BY <1>1, <1>10 DEF WriteLoadFailed, WriteCanceled, WriteFailed, WriteDone, WriteVerdict
    <2>3. jobStatus'[j] # "running"
      BY <2>2 DEF UpdateJobStatus, Applied, TypeOK
    <2> QED
      BY <1>2, <2>1, <2>3 DEF LiveOK, Phases
  <1>11. CASE Unregister(j)
    <2>1. jobStatus[j] # "running" /\ UNCHANGED jobStatus
      BY <1>11 DEF Unregister, durable, LiveOK
    <2>2. ~run'[j].canceled
      BY <1>11 DEF Unregister, SetRun, NoRun, TypeOK
    <2> QED
      BY <2>1, <2>2 DEF LiveOK
  <1> QED
    BY <1>4, <1>5, <1>6, <1>7, <1>8, <1>9, <1>10, <1>11 DEF RunnerStep

\* A worker's step leaves its run's position and the job's status alone.
LEMMA WorkerStepRun ==
  ASSUME TypeOK, NEW j \in Jobs, NEW w \in Workers, WorkerStep(j, w)
  PROVE  /\ UNCHANGED <<jobStatus, creating>>
         /\ run'[j].phase = run[j].phase
         /\ run'[j].canceled = run[j].canceled
  BY WorkerStepDoes DEF WorkerDoes, GoesOn, GivesUp, IsDone

\* Every step of the engine.
LEMMA LiveStep ==
  ASSUME ~StoreMayFail, ~AllowCancel, MaxCrashes = 0
  PROVE  TypeOK /\ LiveInv /\ [Next]_vars => LiveInv'
  <1> SUFFICES ASSUME TypeOK, LiveInv, [Next]_vars, NEW j \in Jobs PROVE LiveOK(j)'
    BY DEF LiveInv
  <1>0. LiveOK(j)
    BY DEF LiveInv
  <1>1. CASE ClientStep(j)
    <2>1. ASSUME NEW ds, CreateJob(j, ds) PROVE LiveOK(j)'
      BY <1>0, <2>1 DEF CreateJob, TypeOK, LiveOK
    <2>2. ASSUME NEW phase \in {"init", "failedItems"}, StartRunner(j, phase) PROVE LiveOK(j)'
      <3>1. run[j].phase = "none" /\ UNCHANGED jobStatus /\ ~run'[j].canceled
        BY <2>2 DEF StartRunner, SetRun, NoRun, TypeOK, durable
      <3> QED
        BY <1>0, <3>1 DEF LiveOK
    <2>3. ~Cancel(j)
      BY DEF Cancel
    <2> QED
      BY <1>1, <2>1, <2>2, <2>3 DEF ClientStep, Resume, Retry
  <1>2. CASE RunnerStep(j)
    BY <1>0, <1>2, RunnerStepLive
  <1>3. ASSUME NEW w \in Workers, WorkerStep(j, w) PROVE LiveOK(j)'
    BY <1>0, <1>3, WorkerStepRun DEF LiveOK
  <1>4. ~Crash
    BY DEF Crash, TypeOK
  <1>5. CASE Untouched(j)
    BY <1>0, <1>5 DEF Untouched, LiveOK
  <1> QED
    BY <1>1, <1>2, <1>3, <1>4, <1>5, StepsOfJob

\* A job that reads as running is being run, for any client of the API: unless a
\* run is canceled, a store statement fails or the process stops, none of which
\* the code makes up for (main.tsx:140, 247; importer.go:99-161).
THEOREM RunningJobsAreAlwaysLive ==
  ASSUME ~StoreMayFail, ~AllowCancel, MaxCrashes = 0
  PROVE  Spec => []RunningJobsAreLive
  <1>1. LiveInv => RunningJobsAreLive
    BY DEF LiveInv, LiveOK, RunningJobsAreLive
  <1>2. TypeOK /\ LiveInv /\ [Next]_vars => LiveInv'
    BY LiveStep
  <1> QED
    BY <1>1, <1>2, LiveInit, TypeCorrect, PTL DEF Spec

-----------------------------------------------------------------------------
(* Runs that come to their end can be continued.                           *)

\* The positions from which a run's last write is made.
Ending == {"loadFailed", "writeCanceled", "writeFailed", "writeDone"}

\* The last write names what is left, or nothing is: failed and done are written
\* of runs that left nothing open, the others are not lost.
LEMMA VerdictContinues ==
  ASSUME ~StoreMayFail, TypeOK, NEW j \in Jobs, OutcomeOK(j),
         WriteLoadFailed(j) \/ WriteCanceled(j) \/ WriteFailed(j) \/ WriteDone(j)
  PROVE  OpenItems(j)' = {} \/ jobStatus'[j] \in ResumeShown
  <1>1. CASE WriteLoadFailed(j) \/ WriteCanceled(j)
    <2>1. \E status \in ResumeShown : UpdateJobStatus(j, "ok", status)
      BY <1>1, Faultless DEF WriteLoadFailed, WriteCanceled, WriteVerdict, ResumeShown
    <2> QED
      BY <2>1 DEF UpdateJobStatus, Applied, TypeOK
  <1>2. CASE WriteFailed(j) \/ WriteDone(j)
    <2>1. OpenItems(j) = {} /\ UNCHANGED item
      BY <1>2 DEF WriteFailed, WriteDone, WriteVerdict, OutcomeOK
    <2> QED
      BY <2>1 DEF OpenItems
  <1> QED
    BY <1>1, <1>2

\* Only the runner itself makes that write.
LEMMA EndedRunsStep ==
  ASSUME ~StoreMayFail, TypeOK, OutcomeInv, [Next]_vars, NEW j \in Jobs,
         run[j].phase \in Ending, run'[j].phase = "return"
  PROVE  OpenItems(j)' = {} \/ jobStatus'[j] \in ResumeShown
  <1>0. run[j] \in Run /\ OutcomeOK(j)
    BY DEF TypeOK, OutcomeInv
  <1>1. ~Untouched(j)
    BY DEF Untouched, Ending
  <1>2. ASSUME NEW w \in Workers PROVE ~WorkerStep(j, w)
    BY WorkerStepRun DEF Ending
  <1>3. ~Crash
    BY DEF Crash, NoRun
  <1>4. ~ClientStep(j)
    <2>1. ASSUME Cancel(j) PROVE FALSE
      <3>1. run'[j].phase = run[j].phase
        BY <1>0, <2>1 DEF Cancel, SetRun, TypeOK, Run
      <3> QED
        BY <3>1 DEF Ending
    <2>2. ASSUME NEW ds, CreateJob(j, ds) PROVE FALSE
      BY <2>2 DEF CreateJob, Ending
    <2> QED
      BY <2>1, <2>2 DEF ClientStep, Resume, Retry, StartRunner, Ending
  <1>5. RunnerStep(j)
    BY <1>1, <1>2, <1>3, <1>4, StepsOfJob
  <1>6. WriteLoadFailed(j) \/ WriteCanceled(j) \/ WriteFailed(j) \/ WriteDone(j)
    <2>1. ASSUME StartCreated(j) PROVE FALSE
      BY <2>1 DEF StartCreated, StartRunner, Ending
    <2> QED
      BY <1>5, <2>1
      DEF RunnerStep, ReadFailed, ResetFailed, MarkRunning, LoadItems, Dispatch, StopDispatch,
          CloseQueue, Drain, Unregister, Ending
  <1> QED
    BY <1>0, <1>6, VerdictContinues

\* Whatever is asked of the server, cancellations and stops of the process
\* included: a run that comes to its last write leaves nothing open, or a status
\* under which the console continues the job, as long as the store fails no
\* statement by itself (importer.go:104-161, JobsPanel.tsx:41-43).
THEOREM EndedRunsCanAlwaysBeContinued ==
  ASSUME ~StoreMayFail
  PROVE  Spec => EndedRunsCanBeContinued
  <1>1. TypeOK /\ OutcomeInv /\ [Next]_vars =>
          [\A j \in Jobs :
             /\ run[j].phase \in {"loadFailed", "writeCanceled", "writeFailed", "writeDone"}
             /\ run'[j].phase = "return"
             => OpenItems(j)' = {} \/ jobStatus'[j] \in {"failed", "canceled"}]_vars
    BY EndedRunsStep DEF Ending, ResumeShown
  <1>2. Spec => [](TypeOK /\ ItemsInv /\ OutcomeInv)
    BY OutcomeAlways
  <1> QED
    BY <1>1, <1>2, PTL DEF Spec, EndedRunsCanBeContinued
=============================================================================
