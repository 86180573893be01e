--------------------------- MODULE MCImportEngine ---------------------------
(* Instances of ImportEngine for TLC. *)
EXTENDS ImportEngine, TLC

CONSTANTS j1, j2, d1, d2, w1, w2, c1, c2

OneJob == {j1}
TwoJobs == {j1, j2}
OneDoc == {d1}
TwoDocs == {d1, d2}
OneWorker == {w1}
TwoWorkers == {w1, w2}
OneContent == {c1}
TwoContents == {c1, c2}

\* Jobs, documents, workers and contents are interchangeable (safety runs only).
Symmetry == Permutations(TwoJobs) \cup Permutations(TwoDocs)
              \cup Permutations(TwoWorkers) \cup Permutations(TwoContents)
=============================================================================
