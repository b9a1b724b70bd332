--------------------------- MODULE MCBacktestJobs ---------------------------
(* Model values and symmetry for checking BacktestJobs with TLC.           *)
EXTENDS BacktestJobs, TLC

CONSTANTS j1, j2

TwoJobs == {j1, j2}
OneJob == {j1}
NoJob == {}
FirstJob == {j1}

\* Jobs are interchangeable in every definition; used for safety only.
JobSymmetry == Permutations(Jobs)

=============================================================================
