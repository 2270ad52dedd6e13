----------------------------- MODULE MCJobQueue -----------------------------
(* Constants and the one property that only a run needs for the job queue.  *)
EXTENDS JobQueue

MCMaxAttempts == [j \in Jobs |-> 2]

-----------------------------------------------------------------------------
(* What the comments of the package claim and the code does not do.         *)

\* queue.go: a succeeded row is retained until PurgeCompleted prunes it.
SucceededIsRetained ==
    [][\A j \in Jobs : status[j] = "succeeded" =>
            status'[j] \in {"succeeded", "purged"}]_vars
=============================================================================
