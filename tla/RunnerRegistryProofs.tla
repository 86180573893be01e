------------------------ MODULE RunnerRegistryProofs ------------------------
(* Proofs about RunnerRegistry: mutual exclusion of runs and refinement. *)
EXTENDS RunnerRegistry, TLAPS

-----------------------------------------------------------------------------
(* The inductive invariant.                                                *)

\* Everybody waits for the mutex at first and the map is empty.
LEMMA RegistryInit == Init => RegistryInv
  BY CallsAssumption DEF Init, RegistryInv, RegistryTypeOK, Exclusion, MapIsTrue, CanceledContexts, Calls, StartPCs, CancelPCs,
     Live

\* Whoever takes the mutex finds nobody else inside.
LEMMA AcquireKeeps ==
  ASSUME RegistryInv, NEW c \in Calls, NEW from, NEW to, Acquire(c, from, to),
         \/ c \in Calls /\ from = "lock" /\ to = "read"
         \/ c \in Starts /\ from = "lockAgain" /\ to = "delete"
  PROVE  RegistryInv'
  BY CallsAssumption DEF Acquire, GoTo, RegistryInv, RegistryTypeOK, Exclusion, MapIsTrue, CanceledContexts, Calls, StartPCs,
     CancelPCs, Live

\* The entry a call reads under the mutex is the one the map has.
LEMMA ReadKeeps ==
  ASSUME RegistryInv, NEW c \in Calls, Read(c)
  PROVE  RegistryInv'
  BY CallsAssumption DEF Read, GoTo, RegistryInv, RegistryTypeOK, Exclusion, MapIsTrue, CanceledContexts, Calls, StartPCs,
     CancelPCs, Live

\* One step per action of a call of startRunner and of its goroutine.
LEMMA StartKeeps ==
  ASSUME RegistryInv, NEW s \in Starts, StartStep(s)
  PROVE  RegistryInv'
  <1> USE CallsAssumption DEF GoTo, RegistryInv, RegistryTypeOK, Exclusion, MapIsTrue, CanceledContexts, Calls, StartPCs,
      CancelPCs, Live
  <1>1. CASE Lock(s)
    BY <1>1, AcquireKeeps DEF Lock
  <1>2. CASE Read(s)
    BY <1>2, ReadKeeps
  <1>3. CASE Refuse(s)
    BY <1>3 DEF Refuse
  <1>4. CASE Register(s)
    BY <1>4 DEF Register
  <1>5. CASE Return(s)
    BY <1>5 DEF Return
  <1>6. CASE LockAgain(s)
    BY <1>6, AcquireKeeps DEF LockAgain
  <1>7. CASE Delete(s)
    BY <1>7 DEF Delete
  <1> QED
    BY <1>1, <1>2, <1>3, <1>4, <1>5, <1>6, <1>7 DEF StartStep

\* One step per action of a call of cancelRunner.
LEMMA CancelKeeps ==
  ASSUME RegistryInv, NEW c \in Cancels, CancelStep(c)
  PROVE  RegistryInv'
  <1> USE CallsAssumption DEF GoTo, RegistryInv, RegistryTypeOK, Exclusion, MapIsTrue, CanceledContexts, Calls, StartPCs,
      CancelPCs, Live
  <1>1. CASE Lock(c)
    BY <1>1, AcquireKeeps DEF Lock
  <1>2. CASE Read(c)
    BY <1>2, ReadKeeps
  <1>3. CASE Unlock(c)
    BY <1>3 DEF Unlock
  <1>4. CASE Call(c)
    BY <1>4 DEF Call
  <1> QED
    BY <1>1, <1>2, <1>3, <1>4 DEF CancelStep

\* The invariant is inductive.
LEMMA RegistryNext == RegistryInv /\ [Next]_vars => RegistryInv'
  <1> SUFFICES ASSUME RegistryInv, [Next]_vars PROVE RegistryInv'
    OBVIOUS
  <1>1. CASE UNCHANGED vars
    BY <1>1 DEF vars, RegistryInv, RegistryTypeOK, Exclusion, MapIsTrue, CanceledContexts, Live
  <1>2. CASE Next
    BY <1>2, StartKeeps, CancelKeeps DEF Next
  <1> QED
    BY <1>1, <1>2

\* In every reachable state the map holds exactly the live runs.
THEOREM RegistryInvariant == Spec => []RegistryInv
  BY RegistryInit, RegistryNext, PTL DEF Spec

\* Two runs of one job are never live together, for any number of jobs and of
\* concurrent requests (router.go:113-132).
THEOREM RunsExcludeEachOther == Spec => []OneRunPerJob
  <1>1. RegistryInv => OneRunPerJob
    BY DEF RegistryInv, RegistryTypeOK, Exclusion, MapIsTrue, CanceledContexts, OneRunPerJob, Calls
  <1> QED
    BY <1>1, RegistryInvariant, PTL

-----------------------------------------------------------------------------
(* The registry implements RunnerSlots.                                    *)

\* An empty map is a server without runners.
LEMMA SlotsInit == Init => Slots!Init
  BY DEF Init, Slots!Init

\* A step that changes neither the map nor the canceled contexts in it.
LEMMA SlotsStutter ==
  ASSUME UNCHANGED runners,
         \A j \in Jobs : runners[j] \in canceled' <=> runners[j] \in canceled
  PROVE  UNCHANGED Slots!slots
  BY DEF Slots!slots

\* One step per action: Register starts, Delete ends, Call cancels the runner
\* it has read or, when that one is gone, nobody.
LEMMA SlotsStep ==
  ASSUME RegistryInv, [Next]_vars
  PROVE  [Slots!Next]_(Slots!slots)
  <1> USE CallsAssumption
  <1>1. ASSUME UNCHANGED <<runners, canceled>> PROVE UNCHANGED Slots!slots
    BY <1>1, SlotsStutter
  <1>2. ASSUME NEW s \in Starts, Refuse(s) PROVE UNCHANGED Slots!slots
    <2>1. \A j \in Jobs : runners[j] # s
      BY <1>2 DEF Refuse, RegistryInv, RegistryTypeOK, MapIsTrue, Live, Calls
    <2> QED
      BY <1>2, <2>1, SlotsStutter DEF Refuse
  <1>3. ASSUME NEW s \in Starts, Register(s) PROVE \E j \in Jobs : Slots!Start(j)
    <2>1. job[s] \in Jobs /\ runners[job[s]] = None /\ s \notin canceled /\ None \notin canceled
      BY <1>3 DEF Register, RegistryInv, RegistryTypeOK, MapIsTrue, CanceledContexts, Live, Calls
    <2>2. runners' = [runners EXCEPT ![job[s]] = s] /\ canceled' = canceled
          /\ runners \in [Jobs -> Starts \cup {None}] /\ s # None
      BY <1>3 DEF Register, RegistryInv, RegistryTypeOK, Calls
    <2> QED
      BY <2>1, <2>2 DEF Slots!Start
  <1>4. ASSUME NEW s \in Starts, Delete(s) PROVE \E j \in Jobs : Slots!End(j)
    <2>1. job[s] \in Jobs /\ runners[job[s]] = s /\ None \notin canceled /\ s # None
      BY <1>4 DEF Delete, RegistryInv, RegistryTypeOK, MapIsTrue, Live, Calls
    <2>2. runners' = [runners EXCEPT ![job[s]] = None] /\ canceled' = canceled
          /\ runners \in [Jobs -> Starts \cup {None}]
      BY <1>4 DEF Delete, RegistryInv, RegistryTypeOK
    <2> QED
      BY <2>1, <2>2 DEF Slots!End
  <1>5. ASSUME NEW c \in Cancels, Call(c)
        PROVE  (\E j \in Jobs : Slots!Cancel(j)) \/ UNCHANGED Slots!slots
    <2>1. /\ job[c] \in Jobs
          /\ found[c] \in Starts
          /\ job[found[c]] = job[c]
      BY <1>5 DEF Call, RegistryInv, RegistryTypeOK, CanceledContexts, Calls
    <2>2. /\ runners' = runners
          /\ canceled' = canceled \cup {found[c]}
      BY <1>5 DEF Call
    <2>3. CASE runners[job[c]] = found[c]
      <3>1. \A j \in Jobs : runners[j] = found[c] => j = job[c]
        BY <2>1 DEF RegistryInv, MapIsTrue
      <3> QED
        BY <2>1, <2>2, <2>3, <3>1 DEF Slots!Cancel
    <2>4. CASE runners[job[c]] # found[c]
      <3>1. \A j \in Jobs : runners[j] # found[c]
        BY <2>1, <2>4 DEF RegistryInv, MapIsTrue
      <3> QED
        BY <2>2, <3>1, SlotsStutter
    <2> QED
      BY <2>3, <2>4
  <1>6. CASE UNCHANGED vars
    BY <1>1, <1>6 DEF vars
  <1>7. ASSUME NEW s \in Starts, StartStep(s) PROVE [Slots!Next]_(Slots!slots)
    <2>1. CASE Lock(s) \/ Read(s) \/ Return(s) \/ LockAgain(s)
      BY <1>1, <2>1 DEF Lock, LockAgain, Acquire, Read, Return
    <2>2. CASE Refuse(s)
      BY <1>2, <2>2
    <2>3. CASE Register(s)
      BY <1>3, <2>3 DEF Slots!Next
    <2>4. CASE Delete(s)
      BY <1>4, <2>4 DEF Slots!Next
    <2> QED
      BY <1>7, <2>1, <2>2, <2>3, <2>4 DEF StartStep
  <1>8. ASSUME NEW c \in Cancels, CancelStep(c) PROVE [Slots!Next]_(Slots!slots)
    <2>1. CASE Lock(c) \/ Read(c) \/ Unlock(c)
      BY <1>1, <2>1 DEF Lock, Acquire, Read, Unlock
    <2>2. CASE Call(c)
      BY <1>5, <2>2 DEF Slots!Next
    <2> QED
      BY <1>8, <2>1, <2>2 DEF CancelStep
  <1> QED
    BY <1>6, <1>7, <1>8 DEF Next

\* The registry with its mutex and late cancel calls implements the atomic
\* registry that the engine is modelled over.
THEOREM RegistryImplementsSlots == Spec => ImplementsSlots
  BY SlotsInit, SlotsStep, RegistryInvariant, PTL DEF Spec, ImplementsSlots, Slots!Spec
=============================================================================
