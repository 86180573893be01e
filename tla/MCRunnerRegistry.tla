-------------------------- MODULE MCRunnerRegistry --------------------------
(* An instance of RunnerRegistry for TLC. *)
EXTENDS RunnerRegistry

CONSTANTS j1, j2, s1, s2, s3, x1, x2

TwoJobs == {j1, j2}
ThreeStarts == {s1, s2, s3}
TwoCancels == {x1, x2}
=============================================================================
