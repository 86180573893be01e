------------------------------ MODULE Console ------------------------------
(***************************************************************************)
(* The import engine driven by one browser window of the web console       *)
(* (webapp/src/main.tsx, components/JobsPanel.tsx).  The console offers a   *)
(* button according to the status of a job in the list it loaded last, so   *)
(* it asks less of the engine than the API would let it: the server itself  *)
(* never looks at the status of a job.                                      *)
(***************************************************************************)
EXTENDS ImportEngine, FiniteSets

CONSTANTS
  MaxRequests,  \* bound: requests of the user on their way at once
  MaxLists      \* bound: answers for the list of jobs under way at once

ASSUME ConsoleAssumption ==
  /\ MaxRequests \in Nat \ {0}
  /\ MaxLists \in Nat \ {0}

VARIABLES
  shown,      \* the statuses in the list of jobs on display
  lists,      \* answers for the list that were read and are not displayed yet
  requests,   \* requests the user has made, on their way to startRunner
  importing   \* an import was requested and the console waits for the answer

console == <<shown, lists, requests, importing>>
consoleVars == <<vars, console>>

\* The statuses of a job under which its card has the button.
CancelShown == {"running"}
ResumeShown == {"failed", "canceled"}
RetryShown == {"failed"}

\* A request; several clicks of one kind are one of them.
Request == [job : Jobs, kind : {"import", "cancel", "resume", "retry"}]

ConsoleInit ==
  /\ Init
  /\ shown = [j \in Jobs |-> "none"]
  /\ lists = {}
  /\ requests = {}
  /\ importing = FALSE

-----------------------------------------------------------------------------
(* The user.                                                               *)

anyRunning == \E j \in Jobs : shown[j] = "running"

Ask(j, kind) ==
  /\ requests' = requests \cup {[job |-> j, kind |-> kind]}
  /\ Cardinality(requests') <= MaxRequests
  /\ UNCHANGED <<vars, shown, lists>>

\* startImport: one request at a time, and none while a job is shown running.
\* The server will name the job.
StartImport(j) ==
  /\ ~anyRunning
  /\ ~importing
  /\ jobStatus[j] = "none"
  /\ Ask(j, "import")
  /\ importing' = TRUE

\* A button is there while the list says so, also after it was clicked.
Click(j, kind, offered) ==
  /\ shown[j] \in offered
  /\ Ask(j, kind)
  /\ UNCHANGED importing

ClickCancel(j) == AllowCancel /\ Click(j, "cancel", CancelShown)
ClickResume(j) == Click(j, "resume", ResumeShown)
ClickRetry(j) == Click(j, "retry", RetryShown)

UserStep(j) ==
  \/ StartImport(j)
  \/ ClickCancel(j)
  \/ ClickResume(j)
  \/ ClickRetry(j)

-----------------------------------------------------------------------------
(* The requests arrive.                                                    *)

\* Before it reaches the runners a handler decodes the request, reads the job,
\* and asks Memos for its version and limit: much may happen in between.
Arrives(j, kind) ==
  /\ [job |-> j, kind |-> kind] \in requests
  /\ requests' \in {requests, requests \ {[job |-> j, kind |-> kind]}}
  /\ UNCHANGED <<shown, lists, importing>>

ImportArrives(j, ds) == Arrives(j, "import") /\ CreateJob(j, ds)
CancelArrives(j) == Arrives(j, "cancel") /\ Cancel(j)
ResumeArrives(j) == Arrives(j, "resume") /\ Resume(j)
RetryArrives(j) == Arrives(j, "retry") /\ Retry(j)

\* A request that is refused, finds the job running, or not running, or is lost.
RequestFails(r) ==
  /\ requests' = requests \ {r}
  /\ UNCHANGED <<vars, shown, lists, importing>>

\* startImport ends, with the answer or without.
ImportEnds ==
  /\ importing
  /\ importing' = FALSE
  /\ UNCHANGED <<vars, shown, lists, requests>>

-----------------------------------------------------------------------------
(* The list of jobs: asked for when the page opens, after a click and on   *)
(* every event of a job the console follows.                               *)

\* The server reads it ...
ReadList ==
  /\ Cardinality(lists) < MaxLists
  /\ lists' = lists \cup {jobStatus}
  /\ UNCHANGED <<vars, shown, requests, importing>>

\* ... and the answers are displayed in the order they come.
ShowList(list) ==
  /\ shown' = list
  /\ lists' = lists \ {list}
  /\ UNCHANGED <<vars, requests, importing>>

RequestStep(j) ==
  \/ \E ds \in SUBSET Docs : ImportArrives(j, ds)
  \/ CancelArrives(j)
  \/ ResumeArrives(j)
  \/ RetryArrives(j)

BrowserStep ==
  \/ \E r \in requests : RequestFails(r)
  \/ ImportEnds
  \/ ReadList
  \/ \E list \in lists : ShowList(list)

ServerStep ==
  \/ \E j \in Jobs : RunnerStep(j)
  \/ \E j \in Jobs, w \in Workers : WorkerStep(j, w)
  \/ \E d \in Docs : Edit(d)
  \/ Crash

ConsoleNext ==
  \/ \E j \in Jobs : UserStep(j)
  \/ \E j \in Jobs : RequestStep(j)
  \/ BrowserStep
  \/ ServerStep /\ UNCHANGED console

ConsoleSpec == ConsoleInit /\ [][ConsoleNext]_consoleVars

\* The server's goroutines are fair; the user and the edits are not.
ConsoleFairness ==
  /\ \A j \in Jobs : WF_consoleVars(RunnerStep(j) /\ UNCHANGED console)
  /\ \A j \in Jobs, w \in Workers : WF_consoleVars(WorkerStep(j, w) /\ UNCHANGED console)

FairConsoleSpec == ConsoleSpec /\ ConsoleFairness

-----------------------------------------------------------------------------
(* Properties.                                                             *)

\* At rest: no runner is registered for the job and none is about to be.
AtRest(j) == j \notin creating /\ run[j].phase = "none"

\* A job with items still to import, and nothing at work on them, has a status
\* under which the console lets the user continue it (JobsPanel.tsx:41-43).
UnfinishedJobsCanContinue ==
  \A j \in Jobs : AtRest(j) /\ OpenItems(j) # {} => jobStatus[j] \in ResumeShown

\* A job with failed items, and nothing at work on it, has a status under
\* which the console offers something to do about them (JobsPanel.tsx:42-43).
FailedItemsCanBeRetried ==
  \A j \in Jobs : AtRest(j) /\ FailedItems(j) # {} => jobStatus[j] \in ResumeShown \cup RetryShown

\* A job that reads as running is being run: its card offers nothing but cancel
\* and it keeps the console from starting any import (main.tsx:140, 247).
RunningJobsAreLive ==
  \A j \in Jobs : jobStatus[j] = "running" => run[j].phase # "none"

\* A job started from the console runs to done or failed, unless a run of it is
\* canceled, while the process keeps running, whatever the user clicks meanwhile.
CreatedJobsFinish ==
  \A j \in Jobs :
    jobStatus[j] = "pending" ~> jobStatus[j] \in {"done", "failed"} \/ run[j].canceled

=============================================================================
