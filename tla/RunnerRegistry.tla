--------------------------- MODULE RunnerRegistry ---------------------------
(***************************************************************************)
(* The server's registry of runners (internal/api/router.go:113-143): a    *)
(* map from jobs to cancel functions under a mutex, and the goroutine of    *)
(* each runner that deletes its entry when it returns.                     *)
(*                                                                         *)
(* A call of startRunner makes one context and at most one goroutine, so a  *)
(* call also names its context, its cancel function and its run.  What the  *)
(* run does is left out: it goes on until it returns.                      *)
(***************************************************************************)
CONSTANTS
  Jobs,      \* job identifiers
  Starts,    \* calls of startRunner, by create, resume and retry requests
  Cancels,   \* calls of cancelRunner, by cancel requests
  None       \* no cancel function in the map; nobody holds the mutex

ASSUME CallsAssumption ==
  /\ Starts \cap Cancels = {}
  /\ None \notin Starts \cup Cancels

VARIABLES
  job,       \* the job each call is for
  mu,        \* who holds the mutex
  runners,   \* the cancel function registered for each job
  pc,        \* where each call, and the goroutine it started, is
  found,     \* the map entry a call has read
  canceled   \* contexts that are canceled

vars == <<job, mu, runners, pc, found, canceled>>

Calls == Starts \cup Cancels

\* A call of startRunner waits for the mutex, reads the map and either answers
\* false or goes on as the goroutine; that one runs and then waits for the
\* mutex again.
StartPCs == {"lock", "read", "decide", "refused", "run", "lockAgain", "delete", "gone"}
CancelPCs == {"lock", "read", "unlock", "call", "done"}

\* The goroutine is there, and its run may still be writing to the store.
Live(s) == pc[s] \in {"run", "lockAgain", "delete"}

Init ==
  /\ job \in [Calls -> Jobs]
  /\ mu = None
  /\ runners = [j \in Jobs |-> None]
  /\ pc = [c \in Calls |-> "lock"]
  /\ found = [c \in Calls |-> None]
  /\ canceled = {}

GoTo(c, label) == pc' = [pc EXCEPT ![c] = label]

\* The mutex does not exclude, as a read lock would not.
MutantAcquire(c, from, to) ==
  /\ pc[c] = from
  /\ mu' = c
  /\ GoTo(c, to)
  /\ UNCHANGED <<job, runners, found, canceled>>

Acquire(c, from, to) ==
  /\ pc[c] = from
  /\ mu = None
  /\ mu' = c
  /\ GoTo(c, to)
  /\ UNCHANGED <<job, runners, found, canceled>>

Lock(c) == Acquire(c, "lock", "read")

Read(c) ==
  /\ pc[c] = "read"
  /\ found' = [found EXCEPT ![c] = runners[job[c]]]
  /\ GoTo(c, IF c \in Starts THEN "decide" ELSE "unlock")
  /\ UNCHANGED <<job, mu, runners, canceled>>

\* The early return without the unlock.
MutantRefuse(s) ==
  /\ pc[s] = "decide"
  /\ found[s] # None
  /\ canceled' = canceled \cup {s}
  /\ GoTo(s, "refused")
  /\ UNCHANGED <<job, mu, runners, found>>

\* The job has a runner: the new context is canceled and never used.
Refuse(s) ==
  /\ pc[s] = "decide"
  /\ found[s] # None
  /\ mu' = None
  /\ canceled' = canceled \cup {s}
  /\ GoTo(s, "refused")
  /\ UNCHANGED <<job, runners, found>>

\* router.go:116-120 left out.
MutantRegister(s) ==
  /\ pc[s] = "decide"
  /\ runners' = [runners EXCEPT ![job[s]] = s]
  /\ mu' = None
  /\ GoTo(s, "run")
  /\ UNCHANGED <<job, found, canceled>>

Register(s) ==
  /\ pc[s] = "decide"
  /\ found[s] = None
  /\ runners' = [runners EXCEPT ![job[s]] = s]
  /\ mu' = None
  /\ GoTo(s, "run")
  /\ UNCHANGED <<job, found, canceled>>

\* run(ctx) returns, canceled or not.
Return(s) ==
  /\ pc[s] = "run"
  /\ GoTo(s, "lockAgain")
  /\ UNCHANGED <<job, mu, runners, found, canceled>>

LockAgain(s) == Acquire(s, "lockAgain", "delete")

Delete(s) ==
  /\ pc[s] = "delete"
  /\ runners' = [runners EXCEPT ![job[s]] = None]
  /\ mu' = None
  /\ GoTo(s, "gone")
  /\ UNCHANGED <<job, found, canceled>>

\* cancelRunner releases the mutex before it looks at what it has read.
Unlock(c) ==
  /\ pc[c] = "unlock"
  /\ mu' = None
  /\ GoTo(c, IF found[c] = None THEN "done" ELSE "call")
  /\ UNCHANGED <<job, runners, found, canceled>>

\* The caller deletes the entry, for the runner to be started again at once.
MutantCall(c) ==
  /\ pc[c] = "call"
  /\ canceled' = canceled \cup {found[c]}
  /\ runners' = [runners EXCEPT ![job[c]] = None]
  /\ GoTo(c, "done")
  /\ UNCHANGED <<job, mu, found>>

\* By now the job may have another runner.
Call(c) ==
  /\ pc[c] = "call"
  /\ canceled' = canceled \cup {found[c]}
  /\ GoTo(c, "done")
  /\ UNCHANGED <<job, mu, runners, found>>

StartStep(s) ==
  \/ Lock(s)
  \/ Read(s)
  \/ Refuse(s)
  \/ Register(s)
  \/ Return(s)
  \/ LockAgain(s)
  \/ Delete(s)

CancelStep(c) ==
  \/ Lock(c)
  \/ Read(c)
  \/ Unlock(c)
  \/ Call(c)

Next ==
  \/ \E s \in Starts : StartStep(s)
  \/ \E c \in Cancels : CancelStep(c)

Spec == Init /\ [][Next]_vars

\* Goroutines are scheduled.  A run returns: EveryRunEnds of ImportEngine.
Fairness ==
  /\ \A s \in Starts : WF_vars(StartStep(s))
  /\ \A c \in Cancels : WF_vars(CancelStep(c))

FairSpec == Spec /\ Fairness

-----------------------------------------------------------------------------
(* Properties.                                                             *)

\* The type invariant.
RegistryTypeOK ==
  /\ job \in [Calls -> Jobs]
  /\ mu \in Calls \cup {None}
  /\ runners \in [Jobs -> Starts \cup {None}]
  /\ pc \in [Calls -> StartPCs \cup CancelPCs]
  /\ found \in [Calls -> Starts \cup {None}]
  /\ canceled \subseteq Starts

\* Two runs of one job never work at the same time: both would take the same
\* rows of import_item (router.go:113-132).
OneRunPerJob ==
  \A s, t \in Starts : Live(s) /\ Live(t) /\ job[s] = job[t] => s = t

\* Reading the map, deciding on it and writing it are done by the holder of
\* the mutex, at the positions of its kind of call.
Exclusion ==
  /\ \A s \in Starts : pc[s] \in StartPCs
  /\ \A c \in Cancels : pc[c] \in CancelPCs
  /\ \A c \in Calls : pc[c] \in {"read", "decide", "delete", "unlock"} => mu = c

\* The map holds exactly the live runs, under their jobs, and an entry read as
\* free is free until it is written.
MapIsTrue ==
  /\ \A s \in Starts : Live(s) <=> runners[job[s]] = s
  /\ \A j \in Jobs : runners[j] # None => job[runners[j]] = j
  /\ \A s \in Starts : pc[s] = "decide" => found[s] = runners[job[s]]

\* A context is canceled only once its call was refused or made a run, and
\* cancelRunner finds such a run of its job only.
CanceledContexts ==
  /\ \A s \in canceled : pc[s] = "refused" \/ Live(s) \/ pc[s] = "gone"
  /\ \A c \in Cancels : pc[c] = "call" => found[c] # None
  /\ \A c \in Cancels : pc[c] \in {"unlock", "call"} /\ found[c] # None =>
       job[found[c]] = job[c] /\ (Live(found[c]) \/ pc[found[c]] = "gone")

RegistryInv == RegistryTypeOK /\ Exclusion /\ MapIsTrue /\ CanceledContexts

\* The registry implements RunnerSlots: although cancelRunner calls a function
\* it read earlier, it cancels the runner the job has or nothing at all.
Slots == INSTANCE RunnerSlots WITH
  busy <- {j \in Jobs : runners[j] # None},
  canceled <- {j \in Jobs : runners[j] \in canceled}

ImplementsSlots == Slots!Spec

\* Every call returns and every goroutine goes: no path keeps the mutex.
EveryCallReturns ==
  \A c \in Calls : <>(pc[c] \in {"refused", "gone", "done"})
=============================================================================
