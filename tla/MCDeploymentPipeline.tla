------------------------ MODULE MCDeploymentPipeline ------------------------
(* Constants of the runs of the deployment pipeline, and what the comments    *)
(* and docs of the repository say of it that the code does not keep.          *)
EXTENDS DeploymentPipeline

CONSTANTS d1, d2, d3

\* d2 is an independent deployment; d3 a rollback to d1.
MCRollbackOf == [d \in Deps |-> IF d = d3 THEN d1 ELSE NoDep]

\* service.go: Cancel cancels an in-progress deployment.
CancelledNeverLive == \A d \in Deps : cancel[d] = "done" => status[d] # "live"

\* repository_deploy.go: IsReadyToDeploy reports whether a deployment that no
\* deploy run has touched has a built image ready.
ReadyWhenBuilt ==
    \A d \in Deps :
        (build[d] = "succeeded" /\ exec[d] = "none" /\ cancel[d] = "idle")
            => IsReadyToDeploy(d)
=============================================================================
