---------------------------- MODULE MCThreadPool ---------------------------
(* Instance of ThreadPool for TLC: three workers and two submitting        *)
(* threads; four tasks, more than there are workers, so that the queue     *)
(* backs up behind busy workers while notifications are outstanding.       *)
EXTENDS ThreadPool

CONSTANTS w1, w2, w3, c1, c2
MCWorkers == {w1, w2, w3}
MCCallers == {c1, c2}
=============================================================================
