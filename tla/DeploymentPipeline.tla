------------------------- MODULE DeploymentPipeline -------------------------
(***************************************************************************)
(* One project's deployments, from the API call to the running container:  *)
(* the control plane (controlplane/deployment), the builder's pipeline     *)
(* (build/executor) and the deployer's pipeline (deploy/executor), which   *)
(* share the controlplane_deployments row and are driven by jobs.          *)
(*                                                                         *)
(* A step is one statement, or a run of statements between which nothing   *)
(* another process reads is written.  Jobs behave as JobQueue shows when   *)
(* no lease is lost: one run at a time, retried after an error until the   *)
(* attempts are used up, and started over when the process dies.           *)
(***************************************************************************)
EXTENDS Naturals, FiniteSets

CONSTANTS
    Deps,         \* deployment ids of the project
    NoDep,        \* no deployment; also the empty image tag
    RollbackOf,   \* the target of a deployment made by Rollback, else NoDep
    Cancellable,  \* deployments the user may ask to cancel
    MaxAttempts,  \* max_attempts of the jobs
    Slots,        \* deployer job slots, all processes together
    MaxFaults     \* bound: failing work, failing statements, process deaths

ASSUME PipelineAssumption ==
    /\ NoDep \notin Deps
    /\ RollbackOf \in [Deps -> Deps \cup {NoDep}]
    /\ Cancellable \subseteq Deps
    /\ MaxAttempts \in Nat \ {0}
    /\ Slots \in Nat \ {0}
    /\ MaxFaults \in Nat

VARIABLES
    status,    \* controlplane_deployments.status, "none" before the insert
    image,     \* controlplane_deployments.image_tag: whose build made the image
    artifacts, \* deployments whose image is pushed and recorded
    api,       \* progress of the Deploy call
    cancel,    \* progress of the Cancel call
    job,       \* build, deploy (or rollback) and delete job of each deployment
    tries,     \* the jobs' attempts
    bpc,       \* the builder's position in a build run
    build,     \* builder_builds.status
    dpc,       \* the deployer's position in a deploy run
    exec,      \* deployer_executions.status
    boxes,     \* deployments whose container exists and runs
    boxImage,  \* the image that container was created from
    listed,    \* deployments with an unremoved deployer_containers record
    drain,     \* containers a deploy run has read for draining
    healthy,   \* deployments whose container has passed its health check
    faults     \* failures so far

record == <<status, image, artifacts>>
calls  == <<api, cancel>>
jobs   == <<job, tries>>
docker == <<boxes, boxImage, listed>>
vars   == <<record, calls, jobs, bpc, build, dpc, exec, docker, drain, healthy, faults>>

Statuses == {"none", "pending", "queued", "building", "built", "scheduling",
             "deploying", "live", "failed", "cancelled", "rolling_back",
             "rolled_back"}
Terminal == {"live", "failed", "cancelled", "rolled_back"}
Kinds    == {"build", "deploy", "delete"}
JobState == {"none", "pending", "running", "succeeded", "dead"}

\* The builder's stages; each is preceded by checkCancel.
Stages == {"clone", "dockerfile", "docker_build", "push"}
NextStage == [clone |-> "dockerfile", dockerfile |-> "docker_build",
              docker_build |-> "push", push |-> "save"]

\* The deployer's phases; transition writes the phase and the status.
Phases == {"scheduling", "resources_reserved", "pulling_image", "preparing_runtime",
           "creating_container", "waiting_health", "switching_traffic", "cleanup"}
\* Mutant: the old containers are drained before the new one is healthy.
MutNextPhase == [scheduling |-> "check", resources_reserved |-> "pulling_image",
                 pulling_image |-> "preparing_runtime",
                 preparing_runtime |-> "creating_container",
                 creating_container |-> "switching_traffic",
                 waiting_health |-> "switching_traffic",
                 switching_traffic |-> "cleanup", cleanup |-> "drain"]
NextPhase == [scheduling |-> "check", resources_reserved |-> "pulling_image",
              pulling_image |-> "preparing_runtime",
              preparing_runtime |-> "creating_container",
              creating_container |-> "waiting_health",
              waiting_health |-> "switching_traffic",
              switching_traffic |-> "cleanup", cleanup |-> "drain"]
PhaseStatus(p) ==
    IF p \in {"scheduling", "resources_reserved"} THEN "scheduling" ELSE "deploying"

IsRollback(d) == RollbackOf[d] # NoDep

\* The rows of deployments, builds and executions, the runs and the containers are well formed.
TypeOK ==
    /\ status \in [Deps -> Statuses]
    /\ image \in [Deps -> Deps \cup {NoDep}]
    /\ artifacts \subseteq Deps
    /\ api \in [Deps -> {"idle", "created", "enqueued", "marked", "done"}]
    /\ cancel \in [Deps -> {"idle", "checked", "done"}]
    /\ job \in [Kinds -> [Deps -> JobState]]
    /\ tries \in [Kinds -> [Deps -> Nat]]
    /\ bpc \in [Deps -> {"idle", "begin", "mark", "save", "complete", "fail"} \cup Stages]
    /\ build \in [Deps -> {"none", "queued", "running", "succeeded", "failed", "cancelled"}]
    /\ dpc \in [Deps -> {"idle", "begin", "check", "drain", "remove", "finish",
                         "confirm", "fail"}
                        \cup Phases]
    /\ exec \in [Deps -> {"none", "running", "succeeded", "failed", "cancelled"}]
    /\ boxes \subseteq Deps
    /\ boxImage \in [Deps -> Deps \cup {NoDep}]
    /\ listed \subseteq Deps
    /\ drain \in [Deps -> SUBSET Deps]
    /\ healthy \subseteq Deps
    /\ faults \in Nat

Init ==
    /\ status = [d \in Deps |-> "none"]
    /\ image = [d \in Deps |-> NoDep]
    /\ artifacts = {}
    /\ api = [d \in Deps |-> "idle"]
    /\ cancel = [d \in Deps |-> "idle"]
    /\ job = [k \in Kinds |-> [d \in Deps |-> "none"]]
    /\ tries = [k \in Kinds |-> [d \in Deps |-> 0]]
    /\ bpc = [d \in Deps |-> "idle"]
    /\ build = [d \in Deps |-> "none"]
    /\ dpc = [d \in Deps |-> "idle"]
    /\ exec = [d \in Deps |-> "none"]
    /\ boxes = {}
    /\ boxImage = [d \in Deps |-> NoDep]
    /\ listed = {}
    /\ drain = [d \in Deps |-> {}]
    /\ healthy = {}
    /\ faults = 0

Fault == faults < MaxFaults /\ faults' = faults + 1

-----------------------------------------------------------------------------
(* The statements on controlplane_deployments.                             *)

\* Repository.UpdateStatus: no condition on the status it replaces.
UpdateStatus(d, s) == status' = [status EXCEPT ![d] = s]

MutMarkFailed(d) ==
    status' = IF status[d] = "live" THEN status ELSE [status EXCEPT ![d] = "failed"]

\* MarkBuildFailed and MarkDeployFailed: ... AND status NOT IN ('cancelled','live').
MarkFailed(d) ==
    status' = IF status[d] \in {"cancelled", "live"} THEN status
              ELSE [status EXCEPT ![d] = "failed"]

\* IsReadyToDeploy.
IsReadyToDeploy(d) == status[d] \in {"built", "rolling_back"} /\ image[d] # NoDep

\* Jobs, as JobQueue provides them.
Enqueue(k, d) ==
    /\ job' = [job EXCEPT ![k][d] = "pending"]
    /\ UNCHANGED tries
Claim(k, d) ==
    /\ job[k][d] = "pending"
    /\ job' = [job EXCEPT ![k][d] = "running"]
    /\ tries' = [tries EXCEPT ![k][d] = @ + 1]
JobDone(k, d) ==
    /\ job' = [job EXCEPT ![k][d] = "succeeded"]
    /\ UNCHANGED tries
JobError(k, d) ==
    /\ job' = [job EXCEPT ![k][d] = IF tries[k][d] >= MaxAttempts THEN "dead" ELSE "pending"]
    /\ UNCHANGED tries

-----------------------------------------------------------------------------
(* Control plane.                                                          *)

\* Service.Deploy: four separate statements, in this order.
DeployCreate(d) ==
    /\ status[d] = "none" /\ ~IsRollback(d)
    /\ UpdateStatus(d, "pending")
    /\ api' = [api EXCEPT ![d] = "created"]
    /\ UNCHANGED <<image, artifacts, cancel, jobs, bpc, build, dpc, exec, docker,
                   drain, healthy, faults>>
DeployEnqueueBuild(d) ==
    /\ api[d] = "created"
    /\ Enqueue("build", d)
    /\ api' = [api EXCEPT ![d] = "enqueued"]
    /\ UNCHANGED <<record, cancel, bpc, build, dpc, exec, docker, drain, healthy, faults>>
DeployMarkQueued(d) ==
    /\ api[d] = "enqueued"
    /\ UpdateStatus(d, "queued")
    /\ api' = [api EXCEPT ![d] = "marked"]
    /\ UNCHANGED <<image, artifacts, cancel, jobs, bpc, build, dpc, exec, docker,
                   drain, healthy, faults>>
DeployEnqueueDeploy(d) ==
    /\ api[d] = "marked"
    /\ Enqueue("deploy", d)
    /\ api' = [api EXCEPT ![d] = "done"]
    /\ UNCHANGED <<record, cancel, bpc, build, dpc, exec, docker, drain, healthy, faults>>

\* Service.Rollback: the new row copies the target's image tag, empty or not.
Rollback(d) ==
    /\ status[d] = "none" /\ IsRollback(d)
    /\ status[RollbackOf[d]] # "none"
    /\ UpdateStatus(d, "rolling_back")
    /\ image' = [image EXCEPT ![d] = image[RollbackOf[d]]]
    /\ Enqueue("deploy", d)
    /\ api' = [api EXCEPT ![d] = "done"]
    /\ UNCHANGED <<artifacts, cancel, bpc, build, dpc, exec, docker, drain, healthy, faults>>

\* Service.Cancel: the terminal check and the delete job, then the status write.
CancelCheck(d) ==
    /\ d \in Cancellable /\ cancel[d] = "idle"
    /\ status[d] \notin Terminal \cup {"none"}
    /\ cancel' = [cancel EXCEPT ![d] = "checked"]
    /\ Enqueue("delete", d)
    /\ UNCHANGED <<record, api, bpc, build, dpc, exec, docker, drain, healthy, faults>>
CancelWrite(d) ==
    /\ cancel[d] = "checked"
    /\ UpdateStatus(d, "cancelled")
    /\ cancel' = [cancel EXCEPT ![d] = "done"]
    /\ UNCHANGED <<image, artifacts, api, jobs, bpc, build, dpc, exec, docker, drain,
                   healthy, faults>>

-----------------------------------------------------------------------------
(* Builder: Pipeline.Run for a build job.                                  *)

builderSame == <<calls, dpc, exec, docker, drain, healthy>>

\* handleCancel: the build row is marked, and the error makes the job retry.
BuildCancelled(d) ==
    /\ build' = [build EXCEPT ![d] = IF @ = "none" THEN @ ELSE "cancelled"]
    /\ bpc' = [bpc EXCEPT ![d] = "idle"]
    /\ JobError("build", d)
    /\ UNCHANGED <<record, faults>>

\* The job is claimed; a deployment cancelled by now is not built.
BuildStart(d) ==
    /\ Claim("build", d)
    /\ bpc' = [bpc EXCEPT ![d] = "begin"]
    /\ UNCHANGED <<record, build, faults, builderSame>>
BuildBegin(d) ==
    /\ bpc[d] = "begin"
    /\ \/ status[d] = "cancelled" /\ BuildCancelled(d)
       \/ /\ status[d] # "cancelled"
          /\ build' = [build EXCEPT ![d] = IF @ = "none" THEN "queued" ELSE @]
          /\ bpc' = [bpc EXCEPT ![d] = "mark"]
          /\ UNCHANGED <<record, jobs, faults>>
    /\ UNCHANGED builderSame
BuildMark(d) ==
    /\ bpc[d] = "mark"
    /\ UpdateStatus(d, "building")
    /\ build' = [build EXCEPT ![d] = "running"]
    /\ bpc' = [bpc EXCEPT ![d] = "clone"]
    /\ UNCHANGED <<image, artifacts, jobs, faults, builderSame>>

\* checkCancel, then the stage's work, which may fail.
BuildStage(d) ==
    /\ bpc[d] \in Stages
    /\ \/ status[d] = "cancelled" /\ BuildCancelled(d)
       \/ /\ status[d] # "cancelled"
          /\ \/ bpc' = [bpc EXCEPT ![d] = NextStage[@]] /\ UNCHANGED faults
             \/ bpc' = [bpc EXCEPT ![d] = "fail"] /\ Fault
          /\ UNCHANGED <<record, jobs, build>>
    /\ UNCHANGED builderSame

\* artifacts.Save, an upsert on deployment_id.
BuildSave(d) ==
    /\ bpc[d] = "save"
    /\ \/ /\ artifacts' = artifacts \cup {d}
          /\ bpc' = [bpc EXCEPT ![d] = "complete"]
          /\ UNCHANGED faults
       \/ /\ bpc' = [bpc EXCEPT ![d] = "fail"]
          /\ Fault
          /\ UNCHANGED artifacts
    /\ UNCHANGED <<status, image, jobs, build, builderSame>>

\* UpdateBuildComplete: only if the status is neither cancelled nor failed; if
\* it is, the error is returned as it stands and the job retries.
BuildComplete(d) ==
    /\ bpc[d] = "complete"
    /\ bpc' = [bpc EXCEPT ![d] = "idle"]
    /\ IF status[d] \notin {"cancelled", "failed"}
       THEN /\ UpdateStatus(d, "built")
            /\ image' = [image EXCEPT ![d] = d]
            /\ build' = [build EXCEPT ![d] = "succeeded"]
            /\ JobDone("build", d)
       ELSE /\ JobError("build", d)
            /\ UNCHANGED <<status, image, build>>
    /\ UNCHANGED <<artifacts, faults, builderSame>>

\* Pipeline.fail of the builder.
BuildFail(d) ==
    /\ bpc[d] = "fail"
    /\ MarkFailed(d)
    /\ build' = [build EXCEPT ![d] = "failed"]
    /\ bpc' = [bpc EXCEPT ![d] = "idle"]
    /\ JobError("build", d)
    /\ UNCHANGED <<image, artifacts, faults, builderSame>>

\* The builder dies; the job's lease runs out and it is claimed again.
BuilderDies(d) ==
    /\ bpc[d] # "idle"
    /\ Fault
    /\ bpc' = [bpc EXCEPT ![d] = "idle"]
    /\ Enqueue("build", d)
    /\ UNCHANGED <<record, build, builderSame>>

Build(d) ==
    \/ BuildStart(d)
    \/ BuildBegin(d)
    \/ BuildMark(d)
    \/ BuildStage(d)
    \/ BuildSave(d)
    \/ BuildComplete(d)
    \/ BuildFail(d)
    \/ BuilderDies(d)

-----------------------------------------------------------------------------
(* Deployer: Pipeline.run for a deploy.run or deploy.rollback job.         *)

deployerSame == <<image, artifacts, calls, bpc, build>>

\* handleCancel of the deployer: mark the execution if there is one.
MarkExecCancelled(d) ==
    exec' = [exec EXCEPT ![d] = IF @ = "none" THEN @ ELSE "cancelled"]

\* The run gives up its slot with an error; the job retries.
DeployError(d) ==
    /\ dpc' = [dpc EXCEPT ![d] = "idle"]
    /\ drain' = [drain EXCEPT ![d] = {}]
    /\ JobError("deploy", d)

DeployStart(d) ==
    /\ Cardinality({e \in Deps : dpc[e] # "idle"}) < Slots
    /\ Claim("deploy", d)
    /\ dpc' = [dpc EXCEPT ![d] = "begin"]
    /\ UNCHANGED <<status, exec, docker, drain, healthy, faults, deployerSame>>

\* Mutant: without a tag, the name the deployment's own image would have.
MutImageFor(d) == IF image[d] # NoDep THEN image[d] ELSE d
\* The image a run would use: the row's tag, else the recorded artifact's.
ImageFor(d) ==
    IF image[d] # NoDep THEN image[d] ELSE IF d \in artifacts THEN d ELSE NoDep

\* A cancelled deployment is dropped; one whose build is not finished is
\* retried later, except that a rollback is not asked; one without an image is
\* an error.  Otherwise the execution row is created or reused and set running.
DeployBegin(d) ==
    /\ dpc[d] = "begin"
    /\ \/ /\ status[d] = "cancelled"
          /\ MarkExecCancelled(d)
          /\ DeployError(d)
       \/ /\ status[d] # "cancelled"
          /\ (~IsReadyToDeploy(d) /\ ~IsRollback(d)) \/ ImageFor(d) = NoDep
          /\ DeployError(d)
          /\ UNCHANGED exec
       \/ /\ status[d] # "cancelled"
          /\ IsReadyToDeploy(d) \/ IsRollback(d)
          /\ ImageFor(d) # NoDep
          /\ exec' = [exec EXCEPT ![d] = "running"]
          /\ dpc' = [dpc EXCEPT ![d] = "scheduling"]
          /\ UNCHANGED <<jobs, drain>>
    /\ UNCHANGED <<status, docker, healthy, faults, deployerSame>>

\* creating_container: Create and Start a container named after the deployment.
\* A container left over from an earlier attempt holds the name, and then the
\* creation fails.  Recording the container may fail unnoticed.
CreateContainer(d) ==
    /\ d \notin boxes
    /\ boxes' = boxes \cup {d}
    /\ boxImage' = [boxImage EXCEPT ![d] = ImageFor(d)]
    /\ \/ listed' = listed \cup {d} /\ UNCHANGED faults
       \/ UNCHANGED listed /\ Fault

\* transition writes the phase's status, whatever it was, and the phase's work
\* follows; either may fail.
DeployPhase(d) ==
    LET p == dpc[d] IN
    /\ p \in Phases
    /\ \/ /\ UpdateStatus(d, PhaseStatus(p))
          /\ dpc' = [dpc EXCEPT ![d] = NextPhase[p]]
          /\ IF p = "creating_container" THEN CreateContainer(d)
                                         ELSE UNCHANGED <<docker, faults>>
          /\ healthy' = IF p = "waiting_health" THEN healthy \cup ({d} \cap boxes) ELSE healthy
       \/ /\ \/ UpdateStatus(d, PhaseStatus(p)) /\ Fault
             \/ UNCHANGED status /\ Fault
             \/ /\ p = "creating_container" /\ d \in boxes
                /\ UpdateStatus(d, PhaseStatus(p)) /\ UNCHANGED faults
          /\ dpc' = [dpc EXCEPT ![d] = "fail"]
          /\ UNCHANGED <<docker, healthy>>
    /\ UNCHANGED <<jobs, exec, drain, deployerSame>>

\* checkCancel after the reservation: the only one of a deploy run.
DeployCheckCancel(d) ==
    /\ dpc[d] = "check"
    /\ \/ /\ status[d] = "cancelled"
          /\ MarkExecCancelled(d)
          /\ DeployError(d)
       \/ /\ status[d] # "cancelled"
          /\ dpc' = [dpc EXCEPT ![d] = "resources_reserved"]
          /\ UNCHANGED <<exec, jobs, drain>>
    /\ UNCHANGED <<status, docker, healthy, faults, deployerSame>>

\* Mutant: the run's own containers are not left out.
MutDeployListOld(d) ==
    /\ dpc[d] = "drain"
    /\ drain' = [drain EXCEPT ![d] = listed]
    /\ dpc' = [dpc EXCEPT ![d] = "remove"]
    /\ UNCHANGED <<status, jobs, exec, docker, healthy, faults, deployerSame>>

\* Cleanup reads the project's recorded containers of all other deployments...
DeployListOld(d) ==
    /\ dpc[d] = "drain"
    /\ drain' = [drain EXCEPT ![d] = listed \ {d}]
    /\ dpc' = [dpc EXCEPT ![d] = "remove"]
    /\ UNCHANGED <<status, jobs, exec, docker, healthy, faults, deployerSame>>

\* ... and stops, removes and marks them, except those it fails to remove.
DeployDrain(d) ==
    /\ dpc[d] = "remove"
    /\ \E drained \in SUBSET drain[d] :
          /\ IF drained = drain[d] THEN UNCHANGED faults ELSE Fault
          /\ boxes' = boxes \ drained
          /\ listed' = listed \ drained
          /\ healthy' = healthy \ drained
    /\ drain' = [drain EXCEPT ![d] = {}]
    /\ dpc' = [dpc EXCEPT ![d] = "finish"]
    /\ UNCHANGED <<status, jobs, exec, boxImage, deployerSame>>

\* MarkRolledBack, or UpdateDeployComplete unless cancelled or failed; then
\* MarkSucceeded on the execution.
DeployFinish(d) ==
    /\ dpc[d] = "finish"
    /\ IF IsRollback(d) \/ status[d] \notin {"cancelled", "failed"}
       THEN /\ UpdateStatus(d, IF IsRollback(d) THEN "rolled_back" ELSE "live")
            /\ exec' = [exec EXCEPT ![d] = "succeeded"]
            /\ dpc' = [dpc EXCEPT ![d] = "confirm"]
            /\ UNCHANGED <<jobs, drain>>
       ELSE /\ DeployError(d)
            /\ UNCHANGED <<status, exec>>
    /\ UNCHANGED <<docker, healthy, faults, deployerSame>>

\* transition(PhaseComplete, StatusLive), whose error is ignored, then the
\* handler returns nil.
DeployConfirm(d) ==
    /\ dpc[d] = "confirm"
    /\ \/ UpdateStatus(d, "live") /\ UNCHANGED faults
       \/ UNCHANGED status /\ Fault
    /\ dpc' = [dpc EXCEPT ![d] = "idle"]
    /\ JobDone("deploy", d)
    /\ UNCHANGED <<exec, docker, drain, healthy, deployerSame>>

\* Pipeline.fail of the deployer.  The new container, if any, is left running.
DeployFail(d) ==
    /\ dpc[d] = "fail"
    /\ MarkFailed(d)
    /\ exec' = [exec EXCEPT ![d] = "failed"]
    /\ DeployError(d)
    /\ UNCHANGED <<docker, healthy, faults, deployerSame>>

DeployerDies(d) ==
    /\ dpc[d] # "idle"
    /\ Fault
    /\ dpc' = [dpc EXCEPT ![d] = "idle"]
    /\ drain' = [drain EXCEPT ![d] = {}]
    /\ Enqueue("deploy", d)
    /\ UNCHANGED <<status, exec, docker, healthy, deployerSame>>

\* RunCancel for a deploy.delete job: remove the deployment's recorded
\* containers, marking them removed even if that failed; the handler always
\* returns an error, so the job retries.
RunCancel(d) ==
    /\ job["delete"][d] = "pending"
    /\ tries' = [tries EXCEPT !["delete"][d] = @ + 1]
    /\ job' = [job EXCEPT !["delete"][d] =
                 IF tries["delete"][d] + 1 >= MaxAttempts THEN "dead" ELSE "pending"]
    /\ \/ /\ boxes' = boxes \ (listed \cap {d})
          /\ healthy' = healthy \ (listed \cap {d})
          /\ UNCHANGED faults
       \/ d \in listed /\ UNCHANGED <<boxes, healthy>> /\ Fault
    /\ listed' = listed \ {d}
    /\ MarkExecCancelled(d)
    /\ UNCHANGED <<status, dpc, boxImage, drain, deployerSame>>

Deploy(d) ==
    \/ DeployStart(d)
    \/ DeployBegin(d)
    \/ DeployPhase(d)
    \/ DeployCheckCancel(d)
    \/ DeployListOld(d)
    \/ DeployDrain(d)
    \/ DeployFinish(d)
    \/ DeployConfirm(d)
    \/ DeployFail(d)
    \/ DeployerDies(d)
    \/ RunCancel(d)

Control(d) ==
    \/ DeployCreate(d)
    \/ DeployEnqueueBuild(d)
    \/ DeployMarkQueued(d)
    \/ DeployEnqueueDeploy(d)
    \/ Rollback(d)
    \/ CancelCheck(d)
    \/ CancelWrite(d)

Next == \E d \in Deps : Control(d) \/ Build(d) \/ Deploy(d)

Spec == Init /\ [][Next]_vars

-----------------------------------------------------------------------------
(* Properties.                                                             *)

\* Whatever is retried, cancelled or overtaken, a container only ever runs an
\* image whose push has been recorded: the builder saves the artifact before it
\* publishes the tag, and a rollback copies a tag or has none and is refused.
RunsPushedImages == \A d \in boxes : boxImage[d] \in artifacts

\* A build row that says succeeded has its artifact, and the deployment row has
\* the build's image: builder_builds never runs ahead of the control plane.
BuildRowTruthful ==
    \A d \in Deps : build[d] = "succeeded" => d \in artifacts /\ image[d] = d

\* A cancelled deployment changes status only through a caller that read it
\* before the cancellation: a run between its last check and its next status
\* write, or the Deploy call itself.  A job claimed later never revives it.
CancelLostOnlyToRunning ==
    [][\A d \in Deps : (status[d] = "cancelled" /\ status'[d] # "cancelled") =>
            \/ bpc[d] = "mark"
            \/ dpc[d] \in Phases \cup {"finish", "confirm"}
            \/ api[d] = "enqueued"]_vars

\* Rolling deployment without a gap: with one deployer slot and no cancellation,
\* a project that has a healthy container never loses its last one, through
\* failed health checks, deployer deaths and retries.
ServingKept == [][healthy # {} => healthy' # {}]_vars

\* Under the same conditions a deployment turns live only while its own container
\* is up and has passed the health check.
LiveWhenServing ==
    [][\A d \in Deps : (status[d] # "live" /\ status'[d] = "live") =>
            d \in healthy /\ d \in boxes]_vars
=============================================================================
