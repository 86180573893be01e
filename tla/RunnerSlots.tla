----------------------------- MODULE RunnerSlots -----------------------------
(***************************************************************************)
(* What the job API promises about runners: a job has at most one at a     *)
(* time, and a cancellation reaches the runner the job has, never a later   *)
(* one.  RunnerRegistry implements this with a mutex and a map of cancel    *)
(* functions; ImportEngine takes it as one atomic registry.                 *)
(***************************************************************************)
CONSTANT Jobs

VARIABLES
  busy,      \* the jobs that have a runner
  canceled   \* those of them whose runner's context is canceled

slots == <<busy, canceled>>

Init == busy = {} /\ canceled = {}

Start(j) ==
  /\ j \notin busy
  /\ busy' = busy \cup {j}
  /\ UNCHANGED canceled

Cancel(j) ==
  /\ j \in busy
  /\ canceled' = canceled \cup {j}
  /\ UNCHANGED busy

\* The runner is gone, and its cancellation with it.
End(j) ==
  /\ j \in busy
  /\ busy' = busy \ {j}
  /\ canceled' = canceled \ {j}

\* The process stops: every runner is gone.
Stop == busy' = {} /\ canceled' = {}

Next == Stop \/ \E j \in Jobs : Start(j) \/ Cancel(j) \/ End(j)

Spec == Init /\ [][Next]_slots
=============================================================================
