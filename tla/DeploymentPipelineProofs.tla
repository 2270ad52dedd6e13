---------------------- MODULE DeploymentPipelineProofs ----------------------
(* Proofs about the deployment pipeline, for any deployments, rollbacks,      *)
(* cancellations, deployer slots and failures.                               *)
EXTENDS DeploymentPipeline, FiniteSetTheorems, TLAPS

USE PipelineAssumption

-----------------------------------------------------------------------------
(* The inductive invariant.                                                *)

\* Before its row is inserted, nobody knows of a deployment: no call, no job, no run.
Unborn ==
    \A d \in Deps : status[d] = "none" =>
        /\ api[d] = "idle" /\ cancel[d] = "idle"
        /\ \A k \in Kinds : job[k][d] = "none"
        /\ bpc[d] = "idle" /\ dpc[d] = "idle" /\ build[d] = "none"

\* A published tag names a recorded image.
TagsRecorded == \A d \in Deps : image[d] # NoDep => image[d] \in artifacts

\* A build run is completed after its artifact was saved.
SavedBeforeComplete == \A d \in Deps : bpc[d] = "complete" => d \in artifacts

\* A deploy run past its first check has an image to use.
RunHasImage ==
    \A d \in Deps : dpc[d] \in Phases \cup {"check"} => (image[d] # NoDep \/ d \in artifacts)

PipelineInv ==
    /\ TypeOK
    /\ Unborn
    /\ TagsRecorded
    /\ SavedBeforeComplete
    /\ RunHasImage
    /\ BuildRowTruthful
    /\ RunsPushedImages

\* With no deployment at all, the invariant holds.
LEMMA PipelineInvInit == Init => PipelineInv
<1> SUFFICES ASSUME Init PROVE PipelineInv
  OBVIOUS
<1>1. TypeOK
  BY DEF Init, TypeOK, Statuses, Kinds, JobState
<1>2. Unborn /\ TagsRecorded /\ SavedBeforeComplete /\ RunHasImage
  BY DEF Init, Unborn, TagsRecorded, SavedBeforeComplete, RunHasImage, Phases
<1>3. BuildRowTruthful /\ RunsPushedImages
  BY DEF Init, BuildRowTruthful, RunsPushedImages
<1> QED
  BY <1>1, <1>2, <1>3 DEF PipelineInv

-----------------------------------------------------------------------------
(* Jobs and phases.                                                        *)

JobsTyped == job \in [Kinds -> [Deps -> JobState]] /\ tries \in [Kinds -> [Deps -> Nat]]

\* A failed run leaves its job pending or dead.
LEMMA JobErrorTyped ==
  ASSUME JobsTyped, NEW k \in Kinds, NEW d \in Deps, JobError(k, d)
  PROVE JobsTyped'
  BY DEF JobsTyped, JobError, JobState

\* A finished run leaves it succeeded.
LEMMA JobDoneTyped ==
  ASSUME JobsTyped, NEW k \in Kinds, NEW d \in Deps, JobDone(k, d)
  PROVE JobsTyped'
  BY DEF JobsTyped, JobDone, JobState

\* A phase writes one of two statuses, and leads to a later position of the run.
LEMMA PhaseTyped ==
  ASSUME NEW p \in Phases
  PROVE /\ PhaseStatus(p) \in {"scheduling", "deploying"}
        /\ NextPhase[p] \in Phases \cup {"check", "drain"}
  BY DEF Phases, PhaseStatus, NextPhase

-----------------------------------------------------------------------------
(* Control plane.                                                          *)

\* The calls of the control plane keep the invariant: only Rollback writes a tag, for a
\* deployment nobody knows of, and copies a recorded one or none.
LEMMA ControlKeepsInv == ASSUME PipelineInv, NEW d \in Deps, Control(d) PROVE PipelineInv'
<1> USE DEF PipelineInv, record, calls, jobs, docker
<1>1. CASE DeployCreate(d)
  <2>1. TypeOK'
    BY <1>1 DEF DeployCreate, UpdateStatus, TypeOK, Statuses, Kinds, JobState, Phases, Stages
  <2>2. Unborn'
    BY <1>1 DEF DeployCreate, UpdateStatus, Unborn, TypeOK, Kinds
  <2>3. TagsRecorded' /\ SavedBeforeComplete' /\ RunHasImage'
    BY <1>1 DEF DeployCreate, UpdateStatus, TagsRecorded, SavedBeforeComplete, RunHasImage, Unborn, TypeOK, Phases
  <2>4. BuildRowTruthful' /\ RunsPushedImages'
    BY <1>1 DEF DeployCreate, UpdateStatus, BuildRowTruthful, RunsPushedImages, TagsRecorded, Unborn, RunHasImage, SavedBeforeComplete, TypeOK, Phases
  <2> QED
    BY <2>1, <2>2, <2>3, <2>4
<1>2. CASE DeployEnqueueBuild(d)
  <2>1. TypeOK'
    BY <1>2 DEF DeployEnqueueBuild, Enqueue, TypeOK, Statuses, Kinds, JobState, Phases, Stages
  <2>2. Unborn'
    BY <1>2 DEF DeployEnqueueBuild, Enqueue, Unborn, TypeOK, Kinds
  <2>3. TagsRecorded' /\ SavedBeforeComplete' /\ RunHasImage'
    BY <1>2 DEF DeployEnqueueBuild, Enqueue, TagsRecorded, SavedBeforeComplete, RunHasImage, Unborn, TypeOK, Phases
  <2>4. BuildRowTruthful' /\ RunsPushedImages'
    BY <1>2 DEF DeployEnqueueBuild, Enqueue, BuildRowTruthful, RunsPushedImages, TagsRecorded, Unborn, RunHasImage, SavedBeforeComplete, TypeOK, Phases
  <2> QED
    BY <2>1, <2>2, <2>3, <2>4
<1>3. CASE DeployMarkQueued(d)
  <2>1. TypeOK'
    BY <1>3 DEF DeployMarkQueued, UpdateStatus, TypeOK, Statuses, Kinds, JobState, Phases, Stages
  <2>2. Unborn'
    BY <1>3 DEF DeployMarkQueued, UpdateStatus, Unborn, TypeOK, Kinds
  <2>3. TagsRecorded' /\ SavedBeforeComplete' /\ RunHasImage'
    BY <1>3 DEF DeployMarkQueued, UpdateStatus, TagsRecorded, SavedBeforeComplete, RunHasImage, Unborn, TypeOK, Phases
  <2>4. BuildRowTruthful' /\ RunsPushedImages'
    BY <1>3 DEF DeployMarkQueued, UpdateStatus, BuildRowTruthful, RunsPushedImages, TagsRecorded, Unborn, RunHasImage, SavedBeforeComplete, TypeOK, Phases
  <2> QED
    BY <2>1, <2>2, <2>3, <2>4
<1>4. CASE DeployEnqueueDeploy(d)
  <2>1. TypeOK'
    BY <1>4 DEF DeployEnqueueDeploy, Enqueue, TypeOK, Statuses, Kinds, JobState, Phases, Stages
  <2>2. Unborn'
    BY <1>4 DEF DeployEnqueueDeploy, Enqueue, Unborn, TypeOK, Kinds
  <2>3. TagsRecorded' /\ SavedBeforeComplete' /\ RunHasImage'
    BY <1>4 DEF DeployEnqueueDeploy, Enqueue, TagsRecorded, SavedBeforeComplete, RunHasImage, Unborn, TypeOK, Phases
  <2>4. BuildRowTruthful' /\ RunsPushedImages'
    BY <1>4 DEF DeployEnqueueDeploy, Enqueue, BuildRowTruthful, RunsPushedImages, TagsRecorded, Unborn, RunHasImage, SavedBeforeComplete, TypeOK, Phases
  <2> QED
    BY <2>1, <2>2, <2>3, <2>4
<1>5. CASE Rollback(d)
  <2>1. TypeOK'
    BY <1>5 DEF Rollback, IsRollback, UpdateStatus, Enqueue, TypeOK, Statuses, Kinds, JobState, Phases, Stages
  <2>2. Unborn'
    BY <1>5 DEF Rollback, IsRollback, UpdateStatus, Enqueue, Unborn, TypeOK, Kinds
  <2>3. TagsRecorded' /\ SavedBeforeComplete' /\ RunHasImage'
    BY <1>5 DEF Rollback, IsRollback, UpdateStatus, Enqueue, TagsRecorded, SavedBeforeComplete, RunHasImage, Unborn, TypeOK, Phases
  <2>4. BuildRowTruthful' /\ RunsPushedImages'
    BY <1>5 DEF Rollback, IsRollback, UpdateStatus, Enqueue, BuildRowTruthful, RunsPushedImages, TagsRecorded, Unborn, RunHasImage, SavedBeforeComplete, TypeOK, Phases
  <2> QED
    BY <2>1, <2>2, <2>3, <2>4
<1>6. CASE CancelCheck(d)
  <2>1. TypeOK'
    BY <1>6 DEF CancelCheck, Enqueue, TypeOK, Statuses, Kinds, JobState, Phases, Stages
  <2>2. Unborn'
    BY <1>6 DEF CancelCheck, Enqueue, Unborn, TypeOK, Kinds
  <2>3. TagsRecorded' /\ SavedBeforeComplete' /\ RunHasImage'
    BY <1>6 DEF CancelCheck, Enqueue, TagsRecorded, SavedBeforeComplete, RunHasImage, Unborn, TypeOK, Phases
  <2>4. BuildRowTruthful' /\ RunsPushedImages'
    BY <1>6 DEF CancelCheck, Enqueue, BuildRowTruthful, RunsPushedImages, TagsRecorded, Unborn, RunHasImage, SavedBeforeComplete, TypeOK, Phases
  <2> QED
    BY <2>1, <2>2, <2>3, <2>4
<1>7. CASE CancelWrite(d)
  <2>1. TypeOK'
    BY <1>7 DEF CancelWrite, UpdateStatus, TypeOK, Statuses, Kinds, JobState, Phases, Stages
  <2>2. Unborn'
    BY <1>7 DEF CancelWrite, UpdateStatus, Unborn, TypeOK, Kinds
  <2>3. TagsRecorded' /\ SavedBeforeComplete' /\ RunHasImage'
    BY <1>7 DEF CancelWrite, UpdateStatus, TagsRecorded, SavedBeforeComplete, RunHasImage, Unborn, TypeOK, Phases
  <2>4. BuildRowTruthful' /\ RunsPushedImages'
    BY <1>7 DEF CancelWrite, UpdateStatus, BuildRowTruthful, RunsPushedImages, TagsRecorded, Unborn, RunHasImage, SavedBeforeComplete, TypeOK, Phases
  <2> QED
    BY <2>1, <2>2, <2>3, <2>4
<1> QED
  BY <1>1, <1>2, <1>3, <1>4, <1>5, <1>6, <1>7 DEF Control

-----------------------------------------------------------------------------
(* Builder.                                                                *)

\* The builder keeps it: the artifact is saved before the tag and the build row are written.
LEMMA BuildKeepsInv == ASSUME PipelineInv, NEW d \in Deps, Build(d) PROVE PipelineInv'
<1> USE DEF PipelineInv, record, calls, jobs, docker
<1>1. CASE BuildStart(d)
  <2>1. TypeOK'
    BY <1>1 DEF BuildStart, Claim, builderSame, TypeOK, Statuses, Kinds, JobState, Phases, Stages
  <2>2. Unborn'
    BY <1>1 DEF BuildStart, Claim, builderSame, Unborn, TypeOK, Kinds
  <2>3. TagsRecorded' /\ SavedBeforeComplete' /\ RunHasImage'
    BY <1>1 DEF BuildStart, Claim, builderSame, TagsRecorded, SavedBeforeComplete, RunHasImage, Unborn, TypeOK, Phases
  <2>4. BuildRowTruthful' /\ RunsPushedImages'
    BY <1>1 DEF BuildStart, Claim, builderSame, BuildRowTruthful, RunsPushedImages, TagsRecorded, Unborn, RunHasImage, SavedBeforeComplete, TypeOK, Phases
  <2> QED
    BY <2>1, <2>2, <2>3, <2>4
<1>2. CASE BuildBegin(d)
  <2>1. TypeOK'
    <3>1. CASE BuildCancelled(d) /\ UNCHANGED builderSame
      <4>1. JobsTyped'
        BY <3>1, JobErrorTyped DEF BuildCancelled, JobsTyped, TypeOK, Kinds
      <4> QED
        BY <3>1, <4>1 DEF BuildCancelled, builderSame, JobsTyped, TypeOK
    <3>2. CASE /\ build' = [build EXCEPT ![d] = IF @ = "none" THEN "queued" ELSE @]
               /\ bpc' = [bpc EXCEPT ![d] = "mark"]
               /\ UNCHANGED <<record, jobs, faults, builderSame>>
      BY <3>2 DEF builderSame, TypeOK
    <3> QED
      BY <1>2, <3>1, <3>2 DEF BuildBegin
  <2>2. Unborn'
    BY <1>2 DEF BuildBegin, BuildCancelled, JobError, builderSame, Unborn, TypeOK, Kinds
  <2>3. TagsRecorded' /\ SavedBeforeComplete' /\ RunHasImage'
    BY <1>2 DEF BuildBegin, BuildCancelled, JobError, builderSame, TagsRecorded, SavedBeforeComplete, RunHasImage, Unborn, TypeOK, Phases
  <2>4. BuildRowTruthful' /\ RunsPushedImages'
    BY <1>2 DEF BuildBegin, BuildCancelled, JobError, builderSame, BuildRowTruthful, RunsPushedImages, TagsRecorded, Unborn, RunHasImage, SavedBeforeComplete, TypeOK, Phases
  <2> QED
    BY <2>1, <2>2, <2>3, <2>4
<1>3. CASE BuildMark(d)
  <2>1. TypeOK'
    BY <1>3 DEF BuildMark, UpdateStatus, builderSame, TypeOK, Statuses, Kinds, JobState, Phases, Stages
  <2>2. Unborn'
    BY <1>3 DEF BuildMark, UpdateStatus, builderSame, Unborn, TypeOK, Kinds
  <2>3. TagsRecorded' /\ SavedBeforeComplete' /\ RunHasImage'
    BY <1>3 DEF BuildMark, UpdateStatus, builderSame, TagsRecorded, SavedBeforeComplete, RunHasImage, Unborn, TypeOK, Phases
  <2>4. BuildRowTruthful' /\ RunsPushedImages'
    BY <1>3 DEF BuildMark, UpdateStatus, builderSame, BuildRowTruthful, RunsPushedImages, TagsRecorded, Unborn, RunHasImage, SavedBeforeComplete, TypeOK, Phases
  <2> QED
    BY <2>1, <2>2, <2>3, <2>4
<1>4. CASE BuildStage(d)
  <2>1. TypeOK'
    <3>1. CASE BuildCancelled(d) /\ UNCHANGED builderSame
      <4>1. JobsTyped'
        BY <3>1, JobErrorTyped DEF BuildCancelled, JobsTyped, TypeOK, Kinds
      <4> QED
        BY <3>1, <4>1 DEF BuildCancelled, builderSame, JobsTyped, TypeOK
    <3>2. CASE ~BuildCancelled(d)
      BY <1>4, <3>2 DEF BuildStage, Fault, NextStage, Stages, builderSame, TypeOK
    <3> QED
      BY <1>4, <3>1, <3>2 DEF BuildStage
  <2>2. Unborn'
    BY <1>4 DEF BuildStage, BuildCancelled, Fault, JobError, Stages, NextStage, builderSame, Unborn, TypeOK, Kinds
  <2>3. TagsRecorded' /\ SavedBeforeComplete' /\ RunHasImage'
    BY <1>4 DEF BuildStage, BuildCancelled, Fault, JobError, Stages, NextStage, builderSame, TagsRecorded, SavedBeforeComplete, RunHasImage, Unborn, TypeOK, Phases
  <2>4. BuildRowTruthful' /\ RunsPushedImages'
    BY <1>4 DEF BuildStage, BuildCancelled, Fault, JobError, Stages, NextStage, builderSame, BuildRowTruthful, RunsPushedImages, TagsRecorded, Unborn, RunHasImage, SavedBeforeComplete, TypeOK, Phases
  <2> QED
    BY <2>1, <2>2, <2>3, <2>4
<1>5. CASE BuildSave(d)
  <2>1. TypeOK'
    <3>1. artifacts' \subseteq Deps
      BY <1>5 DEF BuildSave, TypeOK
    <3>2. bpc' \in [Deps -> {"idle", "begin", "mark", "save", "complete", "fail"} \cup Stages]
      BY <1>5 DEF BuildSave, TypeOK
    <3>3. faults' \in Nat
      BY <1>5 DEF BuildSave, Fault, TypeOK
    <3> QED
      BY <1>5, <3>1, <3>2, <3>3 DEF BuildSave, jobs, builderSame, TypeOK
  <2>2. Unborn'
    BY <1>5 DEF BuildSave, Fault, builderSame, Unborn, TypeOK, Kinds
  <2>3. TagsRecorded' /\ SavedBeforeComplete' /\ RunHasImage'
    BY <1>5 DEF BuildSave, Fault, builderSame, TagsRecorded, SavedBeforeComplete, RunHasImage, Unborn, TypeOK, Phases
  <2>4. BuildRowTruthful' /\ RunsPushedImages'
    BY <1>5 DEF BuildSave, Fault, builderSame, BuildRowTruthful, RunsPushedImages, TagsRecorded, Unborn, RunHasImage, SavedBeforeComplete, TypeOK, Phases
  <2> QED
    BY <2>1, <2>2, <2>3, <2>4
<1>6. CASE BuildComplete(d)
  <2>1. TypeOK'
    <3>1. JobsTyped'
      BY <1>6, JobErrorTyped, JobDoneTyped DEF BuildComplete, JobsTyped, TypeOK, Kinds
    <3>2. status' \in [Deps -> Statuses] /\ image' \in [Deps -> Deps \cup {NoDep}]
      <4>1. CASE status[d] \in {"cancelled", "failed"}
        BY <1>6, <4>1 DEF BuildComplete, TypeOK
      <4>2. CASE status[d] \notin {"cancelled", "failed"}
        <5>1. status' = [status EXCEPT ![d] = "built"] /\ image' = [image EXCEPT ![d] = d]
          BY <1>6, <4>2 DEF BuildComplete, UpdateStatus
        <5> QED
          BY <5>1 DEF Statuses, TypeOK
      <4> QED
        BY <4>1, <4>2
    <3>3. bpc' = [bpc EXCEPT ![d] = "idle"] /\ (build' = [build EXCEPT ![d] = "succeeded"] \/ build' = build)
      <4>1. CASE status[d] \in {"cancelled", "failed"}
        BY <1>6, <4>1 DEF BuildComplete
      <4>2. CASE status[d] \notin {"cancelled", "failed"}
        BY <1>6, <4>2 DEF BuildComplete
      <4> QED
        BY <4>1, <4>2
    <3>4. UNCHANGED <<artifacts, faults, builderSame>>
      BY <1>6 DEF BuildComplete
    <3>5. build' \in [Deps -> {"none", "queued", "running", "succeeded", "failed", "cancelled"}]
      BY <3>3 DEF TypeOK
    <3> QED
      BY <3>1, <3>2, <3>3, <3>4, <3>5 DEF builderSame, JobsTyped, TypeOK
  <2>2. Unborn'
    BY <1>6 DEF BuildComplete, UpdateStatus, JobDone, JobError, builderSame, Unborn, TypeOK, Kinds
  <2>3. TagsRecorded' /\ SavedBeforeComplete' /\ RunHasImage'
    <3>1. d \in artifacts
      BY <1>6 DEF BuildComplete, SavedBeforeComplete
    <3>2. image' = [image EXCEPT ![d] = d] \/ image' = image
      BY <1>6 DEF BuildComplete
    <3>3. artifacts' = artifacts /\ dpc' = dpc /\ bpc' = [bpc EXCEPT ![d] = "idle"]
      BY <1>6 DEF BuildComplete, builderSame
    <3> QED
      BY <3>1, <3>2, <3>3 DEF TagsRecorded, SavedBeforeComplete, RunHasImage, TypeOK
  <2>4. BuildRowTruthful' /\ RunsPushedImages'
    BY <1>6 DEF BuildComplete, UpdateStatus, JobDone, JobError, builderSame, BuildRowTruthful, RunsPushedImages, TagsRecorded, Unborn, RunHasImage, SavedBeforeComplete, TypeOK, Phases
  <2> QED
    BY <2>1, <2>2, <2>3, <2>4
<1>7. CASE BuildFail(d)
  <2>1. TypeOK'
    BY <1>7 DEF BuildFail, MarkFailed, JobError, builderSame, TypeOK, Statuses, Kinds, JobState, Phases, Stages
  <2>2. Unborn'
    BY <1>7 DEF BuildFail, MarkFailed, JobError, builderSame, Unborn, TypeOK, Kinds
  <2>3. TagsRecorded' /\ SavedBeforeComplete' /\ RunHasImage'
    BY <1>7 DEF BuildFail, MarkFailed, JobError, builderSame, TagsRecorded, SavedBeforeComplete, RunHasImage, Unborn, TypeOK, Phases
  <2>4. BuildRowTruthful' /\ RunsPushedImages'
    BY <1>7 DEF BuildFail, MarkFailed, JobError, builderSame, BuildRowTruthful, RunsPushedImages, TagsRecorded, Unborn, RunHasImage, SavedBeforeComplete, TypeOK, Phases
  <2> QED
    BY <2>1, <2>2, <2>3, <2>4
<1>8. CASE BuilderDies(d)
  <2>1. TypeOK'
    BY <1>8 DEF BuilderDies, Fault, Enqueue, builderSame, TypeOK, Statuses, Kinds, JobState, Phases, Stages
  <2>2. Unborn'
    BY <1>8 DEF BuilderDies, Fault, Enqueue, builderSame, Unborn, TypeOK, Kinds
  <2>3. TagsRecorded' /\ SavedBeforeComplete' /\ RunHasImage'
    BY <1>8 DEF BuilderDies, Fault, Enqueue, builderSame, TagsRecorded, SavedBeforeComplete, RunHasImage, Unborn, TypeOK, Phases
  <2>4. BuildRowTruthful' /\ RunsPushedImages'
    BY <1>8 DEF BuilderDies, Fault, Enqueue, builderSame, BuildRowTruthful, RunsPushedImages, TagsRecorded, Unborn, RunHasImage, SavedBeforeComplete, TypeOK, Phases
  <2> QED
    BY <2>1, <2>2, <2>3, <2>4
<1> QED
  BY <1>1, <1>2, <1>3, <1>4, <1>5, <1>6, <1>7, <1>8 DEF Build

-----------------------------------------------------------------------------
(* Deployer.                                                               *)

\* The deployer keeps it: it never writes tags, and creates containers from an image it has.
LEMMA DeployKeepsInv == ASSUME PipelineInv, NEW d \in Deps, Deploy(d) PROVE PipelineInv'
<1> USE DEF PipelineInv, record, calls, jobs, docker
<1>1. CASE DeployStart(d)
  <2>1. TypeOK'
    BY <1>1 DEF DeployStart, Claim, deployerSame, TypeOK, Statuses, Kinds, JobState, Phases, Stages
  <2>2. Unborn'
    BY <1>1 DEF DeployStart, Claim, deployerSame, Unborn, TypeOK, Kinds
  <2>3. TagsRecorded' /\ SavedBeforeComplete' /\ RunHasImage'
    BY <1>1 DEF DeployStart, Claim, deployerSame, TagsRecorded, SavedBeforeComplete, RunHasImage, Unborn, TypeOK, Phases
  <2>4. BuildRowTruthful' /\ RunsPushedImages'
    BY <1>1 DEF DeployStart, Claim, deployerSame, BuildRowTruthful, RunsPushedImages, TagsRecorded, Unborn, RunHasImage, SavedBeforeComplete, TypeOK, Phases
  <2> QED
    BY <2>1, <2>2, <2>3, <2>4
<1>2. CASE DeployBegin(d)
  <2>1. TypeOK'
    <3>1. JobsTyped'
      BY <1>2, JobErrorTyped DEF DeployBegin, DeployError, JobsTyped, TypeOK, Kinds
    <3>2. dpc' \in [Deps -> {"idle", "begin", "check", "drain", "remove", "finish", "confirm", "fail"} \cup Phases]
      BY <1>2, SMTT(60) DEF DeployBegin, DeployError, TypeOK, Phases
    <3>3. drain' \in [Deps -> SUBSET Deps]
      BY <1>2 DEF DeployBegin, DeployError, TypeOK
    <3>4. exec' \in [Deps -> {"none", "running", "succeeded", "failed", "cancelled"}]
      BY <1>2 DEF DeployBegin, MarkExecCancelled, TypeOK
    <3>5. status' \in [Deps -> Statuses]
      BY <1>2 DEF DeployBegin, UpdateStatus, Statuses, TypeOK
    <3> QED
      BY <1>2, <3>1, <3>2, <3>3, <3>4, <3>5 DEF DeployBegin, deployerSame, JobsTyped, TypeOK
  <2>2. Unborn'
    BY <1>2 DEF DeployBegin, MarkExecCancelled, DeployError, JobError, deployerSame, Unborn, TypeOK, Kinds
  <2>3. TagsRecorded' /\ SavedBeforeComplete' /\ RunHasImage'
    BY <1>2 DEF DeployBegin, ImageFor, IsReadyToDeploy, MarkExecCancelled, DeployError, JobError, deployerSame, TagsRecorded, SavedBeforeComplete, RunHasImage, Unborn, TypeOK, Phases
  <2>4. BuildRowTruthful' /\ RunsPushedImages'
    BY <1>2 DEF DeployBegin, MarkExecCancelled, DeployError, JobError, deployerSame, BuildRowTruthful, RunsPushedImages, TagsRecorded, Unborn, RunHasImage, SavedBeforeComplete, TypeOK, Phases
  <2> QED
    BY <2>1, <2>2, <2>3, <2>4
<1>3. CASE DeployPhase(d)
  <2>1. TypeOK'
    <3>1. PhaseStatus(dpc[d]) \in Statuses /\ NextPhase[dpc[d]] \in Phases \cup {"check", "drain"}
      BY <1>3, PhaseTyped DEF DeployPhase, Statuses
    <3>2. status' \in [Deps -> Statuses]
      BY <1>3, <3>1 DEF DeployPhase, UpdateStatus, TypeOK
    <3>3. dpc' \in [Deps -> {"idle", "begin", "check", "drain", "remove", "finish", "confirm", "fail"} \cup Phases]
      BY <1>3, <3>1 DEF DeployPhase, TypeOK
    <3>4. ImageFor(d) \in Deps \cup {NoDep}
      BY DEF ImageFor, TypeOK
    <3>5. /\ boxes' \subseteq Deps /\ listed' \subseteq Deps /\ boxImage' \in [Deps -> Deps \cup {NoDep}]
          /\ faults' \in Nat /\ healthy' \subseteq Deps
      BY <1>3, <3>4, SMTT(60) DEF DeployPhase, CreateContainer, Fault, TypeOK
    <3> QED
      BY <1>3, <3>2, <3>3, <3>5 DEF DeployPhase, deployerSame, TypeOK
  <2>2. Unborn'
    <3>1. dpc[d] # "idle" /\ PhaseStatus(dpc[d]) # "none"
      BY <1>3, PhaseTyped DEF DeployPhase, Phases
    <3>2. status' = status \/ status' = [status EXCEPT ![d] = PhaseStatus(dpc[d])]
      BY <1>3 DEF DeployPhase, UpdateStatus
    <3>3. \A e \in Deps \ {d} : dpc'[e] = dpc[e]
      BY <1>3 DEF DeployPhase, TypeOK
    <3> QED
      BY <1>3, <3>1, <3>2, <3>3 DEF DeployPhase, deployerSame, Unborn, TypeOK
  <2>3. TagsRecorded' /\ SavedBeforeComplete' /\ RunHasImage'
    BY <1>3 DEF DeployPhase, UpdateStatus, PhaseStatus, NextPhase, CreateContainer, Fault, deployerSame, TagsRecorded, SavedBeforeComplete, RunHasImage, Unborn, TypeOK, Phases
  <2>4. BuildRowTruthful' /\ RunsPushedImages'
    <3>1. ImageFor(d) \in artifacts
      BY <1>3 DEF DeployPhase, ImageFor, RunHasImage, TagsRecorded, TypeOK
    <3>2. \/ boxes' = boxes /\ boxImage' = boxImage
          \/ boxes' = boxes \cup {d} /\ boxImage' = [boxImage EXCEPT ![d] = ImageFor(d)]
      BY <1>3 DEF DeployPhase, CreateContainer
    <3> QED
      BY <1>3, <3>1, <3>2 DEF DeployPhase, deployerSame, BuildRowTruthful, RunsPushedImages, TypeOK
  <2> QED
    BY <2>1, <2>2, <2>3, <2>4
<1>4. CASE DeployCheckCancel(d)
  <2>1. TypeOK'
    <3>1. JobsTyped'
      BY <1>4, JobErrorTyped DEF DeployCheckCancel, DeployError, JobsTyped, TypeOK, Kinds
    <3>2. dpc' \in [Deps -> {"idle", "begin", "check", "drain", "remove", "finish", "confirm", "fail"} \cup Phases]
      BY <1>4 DEF DeployCheckCancel, DeployError, TypeOK, Phases
    <3>3. drain' \in [Deps -> SUBSET Deps]
      BY <1>4 DEF DeployCheckCancel, DeployError, TypeOK
    <3>4. exec' \in [Deps -> {"none", "running", "succeeded", "failed", "cancelled"}]
      BY <1>4 DEF DeployCheckCancel, MarkExecCancelled, TypeOK
    <3>5. status' \in [Deps -> Statuses]
      BY <1>4 DEF DeployCheckCancel, UpdateStatus, Statuses, TypeOK
    <3> QED
      BY <1>4, <3>1, <3>2, <3>3, <3>4, <3>5 DEF DeployCheckCancel, deployerSame, JobsTyped, TypeOK
  <2>2. Unborn'
    BY <1>4 DEF DeployCheckCancel, MarkExecCancelled, DeployError, JobError, deployerSame, Unborn, TypeOK, Kinds
  <2>3. TagsRecorded' /\ SavedBeforeComplete' /\ RunHasImage'
    BY <1>4 DEF DeployCheckCancel, MarkExecCancelled, DeployError, JobError, deployerSame, TagsRecorded, SavedBeforeComplete, RunHasImage, Unborn, TypeOK, Phases
  <2>4. BuildRowTruthful' /\ RunsPushedImages'
    BY <1>4 DEF DeployCheckCancel, MarkExecCancelled, DeployError, JobError, deployerSame, BuildRowTruthful, RunsPushedImages, TagsRecorded, Unborn, RunHasImage, SavedBeforeComplete, TypeOK, Phases
  <2> QED
    BY <2>1, <2>2, <2>3, <2>4
<1>5. CASE DeployListOld(d)
  <2>1. TypeOK'
    BY <1>5 DEF DeployListOld, deployerSame, TypeOK, Statuses, Kinds, JobState, Phases, Stages
  <2>2. Unborn'
    BY <1>5 DEF DeployListOld, deployerSame, Unborn, TypeOK, Kinds
  <2>3. TagsRecorded' /\ SavedBeforeComplete' /\ RunHasImage'
    BY <1>5 DEF DeployListOld, deployerSame, TagsRecorded, SavedBeforeComplete, RunHasImage, Unborn, TypeOK, Phases
  <2>4. BuildRowTruthful' /\ RunsPushedImages'
    BY <1>5 DEF DeployListOld, deployerSame, BuildRowTruthful, RunsPushedImages, TagsRecorded, Unborn, RunHasImage, SavedBeforeComplete, TypeOK, Phases
  <2> QED
    BY <2>1, <2>2, <2>3, <2>4
<1>6. CASE DeployDrain(d)
  <2>1. TypeOK'
    BY <1>6 DEF DeployDrain, Fault, deployerSame, TypeOK, Statuses, Kinds, JobState, Phases, Stages
  <2>2. Unborn'
    BY <1>6 DEF DeployDrain, Fault, deployerSame, Unborn, TypeOK, Kinds
  <2>3. TagsRecorded' /\ SavedBeforeComplete' /\ RunHasImage'
    BY <1>6 DEF DeployDrain, Fault, deployerSame, TagsRecorded, SavedBeforeComplete, RunHasImage, Unborn, TypeOK, Phases
  <2>4. BuildRowTruthful' /\ RunsPushedImages'
    BY <1>6 DEF DeployDrain, Fault, deployerSame, BuildRowTruthful, RunsPushedImages, TagsRecorded, Unborn, RunHasImage, SavedBeforeComplete, TypeOK, Phases
  <2> QED
    BY <2>1, <2>2, <2>3, <2>4
<1>7. CASE DeployFinish(d)
  <2>1. TypeOK'
    <3>1. JobsTyped'
      BY <1>7, JobErrorTyped DEF DeployFinish, DeployError, JobsTyped, TypeOK, Kinds
    <3>2. dpc' \in [Deps -> {"idle", "begin", "check", "drain", "remove", "finish", "confirm", "fail"} \cup Phases]
      BY <1>7 DEF DeployFinish, DeployError, TypeOK, Phases
    <3>3. drain' \in [Deps -> SUBSET Deps]
      BY <1>7 DEF DeployFinish, DeployError, TypeOK
    <3>4. exec' \in [Deps -> {"none", "running", "succeeded", "failed", "cancelled"}]
      BY <1>7 DEF DeployFinish, MarkExecCancelled, TypeOK
    <3>5. status' \in [Deps -> Statuses]
      BY <1>7 DEF DeployFinish, UpdateStatus, Statuses, TypeOK
    <3> QED
      BY <1>7, <3>1, <3>2, <3>3, <3>4, <3>5 DEF DeployFinish, deployerSame, JobsTyped, TypeOK
  <2>2. Unborn'
    BY <1>7 DEF DeployFinish, UpdateStatus, DeployError, JobError, deployerSame, Unborn, TypeOK, Kinds
  <2>3. TagsRecorded' /\ SavedBeforeComplete' /\ RunHasImage'
    BY <1>7 DEF DeployFinish, UpdateStatus, DeployError, JobError, deployerSame, TagsRecorded, SavedBeforeComplete, RunHasImage, Unborn, TypeOK, Phases
  <2>4. BuildRowTruthful' /\ RunsPushedImages'
    BY <1>7 DEF DeployFinish, UpdateStatus, DeployError, JobError, deployerSame, BuildRowTruthful, RunsPushedImages, TagsRecorded, Unborn, RunHasImage, SavedBeforeComplete, TypeOK, Phases
  <2> QED
    BY <2>1, <2>2, <2>3, <2>4
<1>8. CASE DeployConfirm(d)
  <2>1. TypeOK'
    BY <1>8, SMTT(60) DEF DeployConfirm, UpdateStatus, JobDone, Fault, deployerSame, TypeOK, Statuses, Kinds, JobState, Phases, Stages
  <2>2. Unborn'
    BY <1>8 DEF DeployConfirm, UpdateStatus, JobDone, Fault, deployerSame, Unborn, TypeOK, Kinds
  <2>3. TagsRecorded' /\ SavedBeforeComplete' /\ RunHasImage'
    BY <1>8 DEF DeployConfirm, UpdateStatus, JobDone, Fault, deployerSame, TagsRecorded, SavedBeforeComplete, RunHasImage, Unborn, TypeOK, Phases
  <2>4. BuildRowTruthful' /\ RunsPushedImages'
    BY <1>8 DEF DeployConfirm, UpdateStatus, JobDone, Fault, deployerSame, BuildRowTruthful, RunsPushedImages, TagsRecorded, Unborn, RunHasImage, SavedBeforeComplete, TypeOK, Phases
  <2> QED
    BY <2>1, <2>2, <2>3, <2>4
<1>9. CASE DeployFail(d)
  <2>1. TypeOK'
    BY <1>9 DEF DeployFail, MarkFailed, DeployError, JobError, deployerSame, TypeOK, Statuses, Kinds, JobState, Phases, Stages
  <2>2. Unborn'
    BY <1>9 DEF DeployFail, MarkFailed, DeployError, JobError, deployerSame, Unborn, TypeOK, Kinds
  <2>3. TagsRecorded' /\ SavedBeforeComplete' /\ RunHasImage'
    BY <1>9 DEF DeployFail, MarkFailed, DeployError, JobError, deployerSame, TagsRecorded, SavedBeforeComplete, RunHasImage, Unborn, TypeOK, Phases
  <2>4. BuildRowTruthful' /\ RunsPushedImages'
    BY <1>9 DEF DeployFail, MarkFailed, DeployError, JobError, deployerSame, BuildRowTruthful, RunsPushedImages, TagsRecorded, Unborn, RunHasImage, SavedBeforeComplete, TypeOK, Phases
  <2> QED
    BY <2>1, <2>2, <2>3, <2>4
<1>10. CASE DeployerDies(d)
  <2>1. TypeOK'
    BY <1>10 DEF DeployerDies, Fault, Enqueue, deployerSame, TypeOK, Statuses, Kinds, JobState, Phases, Stages
  <2>2. Unborn'
    BY <1>10 DEF DeployerDies, Fault, Enqueue, deployerSame, Unborn, TypeOK, Kinds
  <2>3. TagsRecorded' /\ SavedBeforeComplete' /\ RunHasImage'
    BY <1>10 DEF DeployerDies, Fault, Enqueue, deployerSame, TagsRecorded, SavedBeforeComplete, RunHasImage, Unborn, TypeOK, Phases
  <2>4. BuildRowTruthful' /\ RunsPushedImages'
    BY <1>10 DEF DeployerDies, Fault, Enqueue, deployerSame, BuildRowTruthful, RunsPushedImages, TagsRecorded, Unborn, RunHasImage, SavedBeforeComplete, TypeOK, Phases
  <2> QED
    BY <2>1, <2>2, <2>3, <2>4
<1>11. CASE RunCancel(d)
  <2>1. TypeOK'
    BY <1>11 DEF RunCancel, MarkExecCancelled, Fault, deployerSame, TypeOK, Statuses, Kinds, JobState, Phases, Stages
  <2>2. Unborn'
    BY <1>11 DEF RunCancel, MarkExecCancelled, Fault, deployerSame, Unborn, TypeOK, Kinds
  <2>3. TagsRecorded' /\ SavedBeforeComplete' /\ RunHasImage'
    BY <1>11 DEF RunCancel, MarkExecCancelled, Fault, deployerSame, TagsRecorded, SavedBeforeComplete, RunHasImage, Unborn, TypeOK, Phases
  <2>4. BuildRowTruthful' /\ RunsPushedImages'
    BY <1>11 DEF RunCancel, MarkExecCancelled, Fault, deployerSame, BuildRowTruthful, RunsPushedImages, TagsRecorded, Unborn, RunHasImage, SavedBeforeComplete, TypeOK, Phases
  <2> QED
    BY <2>1, <2>2, <2>3, <2>4
<1> QED
  BY <1>1, <1>2, <1>3, <1>4, <1>5, <1>6, <1>7, <1>8, <1>9, <1>10, <1>11 DEF Deploy

-----------------------------------------------------------------------------
(* The theorems.                                                           *)

\* Every step of the pipeline keeps the invariant.
LEMMA PipelineInvNext == PipelineInv /\ [Next]_vars => PipelineInv'
<1> SUFFICES ASSUME PipelineInv, [Next]_vars PROVE PipelineInv'
  OBVIOUS
<1>1. CASE Next
  BY <1>1, ControlKeepsInv, BuildKeepsInv, DeployKeepsInv DEF Next
<1>2. CASE UNCHANGED vars
  BY <1>2 DEF vars, record, calls, jobs, docker, PipelineInv, TypeOK, Unborn, TagsRecorded, SavedBeforeComplete,
              RunHasImage, BuildRowTruthful, RunsPushedImages
<1> QED
  BY <1>1, <1>2

\* The invariant holds in every behaviour of the pipeline.
THEOREM PipelineInvariant == Spec => []PipelineInv
  BY PipelineInvInit, PipelineInvNext, PTL DEF Spec

\* The rows, jobs and containers of the pipeline have their types at any time.
THEOREM PipelineTypeCorrect == Spec => []TypeOK
<1>1. PipelineInv => TypeOK
  BY DEF PipelineInv
<1> QED
  BY <1>1, PipelineInvariant, PTL

\* However builds, deploys, rollbacks and cancellations interleave and fail, a container runs
\* an image whose push was recorded.
THEOREM ImagesPushed == Spec => []RunsPushedImages
<1>1. PipelineInv => RunsPushedImages
  BY DEF PipelineInv
<1> QED
  BY <1>1, PipelineInvariant, PTL

\* builder_builds never says succeeded ahead of the artifact and the control plane's tag.
THEOREM BuildRowsTrue == Spec => []BuildRowTruthful
<1>1. PipelineInv => BuildRowTruthful
  BY DEF PipelineInv
<1> QED
  BY <1>1, PipelineInvariant, PTL

\* A step that takes a deployment out of cancelled belongs to a caller that read its status
\* before it was cancelled.
LostToRunning ==
    \A d \in Deps : (status[d] = "cancelled" /\ status'[d] # "cancelled") =>
        \/ bpc[d] = "mark"
        \/ dpc[d] \in Phases \cup {"finish", "confirm"}
        \/ api[d] = "enqueued"

\* Every other step leaves a cancelled status alone: it writes another row, asks for another
\* status first, or keeps cancelled by its condition.
LEMMA LostToRunningStep == TypeOK /\ [Next]_vars => LostToRunning
<1> SUFFICES ASSUME TypeOK, [Next]_vars PROVE LostToRunning
  OBVIOUS
<1> USE DEF TypeOK, LostToRunning, record
<1>1. ASSUME NEW d \in Deps, Control(d) PROVE LostToRunning
  BY <1>1 DEF Control, DeployCreate, DeployEnqueueBuild, DeployMarkQueued, DeployEnqueueDeploy, Rollback, CancelCheck,
              CancelWrite, UpdateStatus
<1>2. ASSUME NEW d \in Deps, Build(d) PROVE LostToRunning
  BY <1>2 DEF Build, BuildStart, BuildBegin, BuildMark, BuildStage, BuildSave, BuildComplete, BuildFail, BuilderDies,
              BuildCancelled, UpdateStatus, MarkFailed
<1>3. ASSUME NEW d \in Deps, Deploy(d) PROVE LostToRunning
  BY <1>3 DEF Deploy, DeployStart, DeployBegin, DeployPhase, DeployCheckCancel, DeployListOld, DeployDrain, DeployFinish,
              DeployConfirm, DeployFail, DeployerDies, RunCancel, UpdateStatus, MarkFailed
<1>4. CASE UNCHANGED vars
  BY <1>4 DEF vars
<1> QED
  BY <1>1, <1>2, <1>3, <1>4 DEF Next

\* A cancellation is lost only to a Deploy call or a run already past its check; a job that is
\* claimed later never revives a cancelled deployment.
THEOREM CancellationsLost == Spec => CancelLostOnlyToRunning
<1>1. TypeOK /\ [Next]_vars => [LostToRunning]_vars
  BY LostToRunningStep
<1>2. Spec => [][LostToRunning]_vars
  BY <1>1, PipelineTypeCorrect, PTL DEF Spec
<1> QED
  BY <1>2 DEF LostToRunning, CancelLostOnlyToRunning

-----------------------------------------------------------------------------
(* Rolling deployment with one slot and no cancellation.                   *)

\* One deploy run at a time.
OneRun == \A d, e \in Deps : (dpc[d] # "idle" /\ dpc[e] # "idle") => d = e

\* Nobody asks for a removal.
NoRemoval == \A d \in Deps : cancel[d] = "idle" /\ job["delete"][d] = "none"

\* A run that waits for the health check has its container.
WaitsForOwn == \A d \in Deps : dpc[d] = "waiting_health" => d \in boxes

\* A run that is past the check has a healthy one, which it does not drain.
PastHealth ==
    \A d \in Deps :
        /\ dpc[d] \in {"switching_traffic", "cleanup", "drain", "remove", "finish", "confirm"} => d \in healthy
        /\ d \notin drain[d]

ServeInv == OneRun /\ NoRemoval /\ healthy \subseteq boxes /\ WaitsForOwn /\ PastHealth

\* At first nothing runs.
LEMMA ServeStart == Init => ServeInv
  BY DEF Init, ServeInv, OneRun, NoRemoval, WaitsForOwn, PastHealth, Kinds

\* What leaves the deployer alone, and enqueues or settles other jobs only, keeps it.
LEMMA ServeFrame ==
    ASSUME ServeInv, UNCHANGED <<cancel, dpc, boxes, drain, healthy>>, job'["delete"] = job["delete"]
    PROVE  ServeInv'
  BY DEF ServeInv, OneRun, NoRemoval, WaitsForOwn, PastHealth

\* The jobs of one kind are not those of another.
LEMMA DeleteJobsKept ==
    ASSUME TypeOK, NEW k \in {"build", "deploy"}, NEW d \in Deps,
           Enqueue(k, d) \/ Claim(k, d) \/ JobDone(k, d) \/ JobError(k, d)
    PROVE  job'["delete"] = job["delete"]
<1>1. job \in [Kinds -> [Deps -> JobState]] /\ "delete" \in Kinds
  BY DEF TypeOK, Kinds
<1>2. \E s : job' = [job EXCEPT ![k][d] = s]
  BY DEF Enqueue, Claim, JobDone, JobError
<1> QED
  BY <1>1, <1>2

\* The control plane's calls, without cancellations, and the builder leave the deployer alone.
LEMMA ServeElsewhere ==
    ASSUME ServeInv, TypeOK, Cancellable = {}, NEW d \in Deps, Control(d) \/ Build(d)
    PROVE  ServeInv'
<1> USE DEF record, calls, jobs, docker
<1>1. CASE Control(d)
  <2>1. ~CancelCheck(d) /\ ~CancelWrite(d)
    BY DEF CancelCheck, CancelWrite, ServeInv, NoRemoval
  <2>2. UNCHANGED <<cancel, dpc, boxes, drain, healthy>>
    BY <1>1, <2>1 DEF Control, DeployCreate, DeployEnqueueBuild, DeployMarkQueued, DeployEnqueueDeploy, Rollback
  <2>3. UNCHANGED job \/ Enqueue("build", d) \/ Enqueue("deploy", d)
    BY <1>1, <2>1 DEF Control, DeployCreate, DeployEnqueueBuild, DeployMarkQueued, DeployEnqueueDeploy, Rollback
  <2>4. job'["delete"] = job["delete"]
    BY <2>3, DeleteJobsKept
  <2> QED
    BY <2>2, <2>4, ServeFrame
<1>2. CASE Build(d)
  <2>1. UNCHANGED builderSame
    BY <1>2 DEF Build, BuildStart, BuildBegin, BuildMark, BuildStage, BuildSave, BuildComplete, BuildFail, BuilderDies
  <2>2. UNCHANGED <<cancel, dpc, boxes, drain, healthy>>
    BY <2>1 DEF builderSame
  <2>3. UNCHANGED job \/ Enqueue("build", d) \/ Claim("build", d) \/ JobDone("build", d) \/ JobError("build", d)
    BY <1>2 DEF Build, BuildStart, BuildBegin, BuildMark, BuildStage, BuildSave, BuildComplete, BuildFail, BuilderDies, BuildCancelled
  <2>4. job'["delete"] = job["delete"]
    BY <2>3, DeleteJobsKept
  <2> QED
    BY <2>2, <2>4, ServeFrame
<1> QED
  BY <1>1, <1>2

\* One run moves to a position, and the containers of the others are at most drained.
LEMMA ServeMoved ==
    ASSUME ServeInv, TypeOK, NEW d \in Deps, NEW p, dpc' = [dpc EXCEPT ![d] = p],
           p # "idle" => \A e \in Deps : dpc[e] # "idle" => e = d,
           cancel' = cancel, job'["delete"] = job["delete"],
           healthy' \subseteq boxes',
           drain' \in [Deps -> SUBSET Deps], \A e \in Deps : e \notin drain'[e],
           p = "waiting_health" => d \in boxes',
           p \in {"switching_traffic", "cleanup", "drain", "remove", "finish", "confirm"} => d \in healthy',
           dpc[d] = "idle" => UNCHANGED <<boxes, healthy>>
    PROVE  ServeInv'
<1>0. OneRun /\ NoRemoval /\ WaitsForOwn /\ PastHealth /\ dpc \in [Deps -> {"idle", "begin", "check", "drain", "remove", "finish", "confirm", "fail"} \cup Phases]
  BY DEF ServeInv, TypeOK
<1>1. \A e \in Deps : dpc'[e] = IF e = d THEN p ELSE dpc[e]
  BY <1>0
<1>2. \A e \in Deps : e # d /\ dpc[e] # "idle" => UNCHANGED <<boxes, healthy>>
  BY <1>0 DEF OneRun
<1>3. OneRun'
  BY <1>0, <1>1 DEF OneRun
<1>4. NoRemoval'
  BY <1>0 DEF NoRemoval
<1>5. WaitsForOwn'
  BY <1>0, <1>1, <1>2 DEF WaitsForOwn
<1>6. PastHealth'
  BY <1>0, <1>1, <1>2 DEF PastHealth
<1> QED
  BY <1>3, <1>4, <1>5, <1>6 DEF ServeInv

\* A deploy run keeps it: the slot is taken by one run, which drains the others' containers
\* when its own is healthy.
LEMMA ServeDeploys ==
    ASSUME ServeInv, TypeOK, Slots = 1, Cancellable = {}, IsFiniteSet(Deps), NEW d \in Deps, Deploy(d)
    PROVE  ServeInv'
<1> USE DEF jobs, docker, deployerSame, calls
<1>0. /\ OneRun /\ NoRemoval /\ healthy \subseteq boxes /\ WaitsForOwn /\ PastHealth
      /\ dpc \in [Deps -> {"idle", "begin", "check", "drain", "remove", "finish", "confirm", "fail"} \cup Phases]
      /\ drain \in [Deps -> SUBSET Deps] /\ \A e \in Deps : e \notin drain[e]
  BY DEF ServeInv, TypeOK, PastHealth
<1>1. dpc[d] # "idle" => \A e \in Deps : dpc[e] # "idle" => e = d
  BY <1>0 DEF OneRun
<1>2. CASE DeployStart(d)
  <2>1. {e \in Deps : dpc[e] # "idle"} = {}
    <3> DEFINE S == {e \in Deps : dpc[e] # "idle"}
    <3>1. IsFiniteSet(S)
      BY FS_Subset
    <3>2. Cardinality(S) \in Nat /\ Cardinality(S) < 1
      BY <1>2, <3>1, FS_CardinalityType DEF DeployStart
    <3>3. Cardinality(S) = 0
      BY <3>2
    <3> QED
      BY <3>1, <3>3, FS_EmptySet
  <2>2. dpc' = [dpc EXCEPT ![d] = "begin"] /\ UNCHANGED <<boxes, healthy, drain, cancel>>
    BY <1>2 DEF DeployStart
  <2>3. job'["delete"] = job["delete"]
    BY <1>2, DeleteJobsKept DEF DeployStart
  <2> QED
    BY <1>0, <2>1, <2>2, <2>3, ServeMoved
<1>3. ASSUME dpc[d] # "idle", DeployError(d), UNCHANGED <<boxes, healthy, cancel>> PROVE ServeInv'
  <2>1. dpc' = [dpc EXCEPT ![d] = "idle"] /\ drain' = [drain EXCEPT ![d] = {}]
    BY <1>3 DEF DeployError
  <2>2. job'["delete"] = job["delete"]
    BY <1>3, DeleteJobsKept DEF DeployError
  <2>3. drain' \in [Deps -> SUBSET Deps] /\ \A e \in Deps : e \notin drain'[e]
    BY <1>0, <2>1
  <2> QED
    BY <1>0, <1>3, <2>1, <2>2, <2>3, ServeMoved
<1>4. CASE DeployBegin(d)
  <2>1. dpc[d] = "begin" /\ UNCHANGED <<boxes, healthy, cancel>>
    BY <1>4 DEF DeployBegin
  <2>2. CASE DeployError(d)
    BY <1>3, <2>1, <2>2
  <2>3. CASE dpc' = [dpc EXCEPT ![d] = "scheduling"] /\ UNCHANGED <<jobs, drain>>
    BY <1>0, <1>1, <2>1, <2>3, ServeMoved
  <2> QED
    BY <1>4, <2>2, <2>3 DEF DeployBegin
<1>5. CASE DeployPhase(d)
  <2>1. dpc[d] \in Phases /\ dpc[d] # "idle" /\ UNCHANGED <<job, drain, cancel>>
    BY <1>5 DEF DeployPhase, Phases
  <2>2. CASE dpc' = [dpc EXCEPT ![d] = "fail"] /\ UNCHANGED <<boxes, healthy>>
    BY <1>0, <1>1, <2>1, <2>2, ServeMoved
  <2>3. CASE /\ dpc' = [dpc EXCEPT ![d] = NextPhase[dpc[d]]]
             /\ IF dpc[d] = "creating_container" THEN CreateContainer(d) ELSE UNCHANGED <<docker, faults>>
             /\ healthy' = IF dpc[d] = "waiting_health" THEN healthy \cup ({d} \cap boxes) ELSE healthy
    <3>1. /\ boxes' = IF dpc[d] = "creating_container" THEN boxes \cup {d} ELSE boxes
          /\ dpc[d] = "waiting_health" => d \in boxes
      BY <1>0, <2>3 DEF CreateContainer, WaitsForOwn
    <3>2. healthy' \subseteq boxes'
      BY <1>0, <2>3, <3>1
    <3>3. /\ NextPhase[dpc[d]] = "waiting_health" => dpc[d] = "creating_container"
          /\ NextPhase[dpc[d]] = "switching_traffic" => dpc[d] = "waiting_health"
          /\ NextPhase[dpc[d]] \in {"cleanup", "drain"} => dpc[d] \in {"switching_traffic", "cleanup"}
          /\ NextPhase[dpc[d]] \notin {"remove", "finish", "confirm", "idle"}
      BY <2>1 DEF Phases, NextPhase
    <3>4. dpc[d] \in {"switching_traffic", "cleanup"} => d \in healthy
      BY <1>0 DEF PastHealth
    <3>5. NextPhase[dpc[d]] \in {"switching_traffic", "cleanup", "drain", "remove", "finish", "confirm"} => d \in healthy'
      BY <2>3, <3>1, <3>3, <3>4
    <3>6. NextPhase[dpc[d]] = "waiting_health" => d \in boxes'
      BY <3>1, <3>3
    <3> QED
      BY <1>0, <1>1, <2>1, <2>3, <3>2, <3>5, <3>6, ServeMoved
  <2> QED
    BY <1>5, <2>2, <2>3 DEF DeployPhase
<1>6. CASE DeployCheckCancel(d)
  <2>1. dpc[d] = "check" /\ UNCHANGED <<boxes, healthy, cancel>>
    BY <1>6 DEF DeployCheckCancel
  <2>2. CASE DeployError(d)
    BY <1>3, <2>1, <2>2
  <2>3. CASE dpc' = [dpc EXCEPT ![d] = "resources_reserved"] /\ UNCHANGED <<jobs, drain>>
    BY <1>0, <1>1, <2>1, <2>3, ServeMoved
  <2> QED
    BY <1>6, <2>2, <2>3 DEF DeployCheckCancel
<1>7. CASE DeployListOld(d)
  <2>1. /\ dpc[d] = "drain" /\ drain' = [drain EXCEPT ![d] = listed \ {d}] /\ dpc' = [dpc EXCEPT ![d] = "remove"]
        /\ UNCHANGED <<job, boxes, healthy, cancel>>
    BY <1>7 DEF DeployListOld
  <2>2. drain' \in [Deps -> SUBSET Deps] /\ \A e \in Deps : e \notin drain'[e]
    BY <1>0, <2>1 DEF TypeOK
  <2>3. d \in healthy
    BY <1>0, <2>1 DEF PastHealth
  <2> QED
    BY <1>0, <1>1, <2>1, <2>2, <2>3, ServeMoved
<1>8. CASE DeployDrain(d)
  <2>1. PICK drained \in SUBSET drain[d] : boxes' = boxes \ drained /\ healthy' = healthy \ drained
    BY <1>8 DEF DeployDrain
  <2>2. /\ dpc[d] = "remove" /\ drain' = [drain EXCEPT ![d] = {}] /\ dpc' = [dpc EXCEPT ![d] = "finish"]
        /\ UNCHANGED <<job, cancel>>
    BY <1>8 DEF DeployDrain
  <2>3. drain' \in [Deps -> SUBSET Deps] /\ \A e \in Deps : e \notin drain'[e]
    BY <1>0, <2>2
  <2>4. d \in healthy' /\ healthy' \subseteq boxes'
    BY <1>0, <2>1, <2>2 DEF PastHealth
  <2> QED
    BY <1>0, <1>1, <2>2, <2>3, <2>4, ServeMoved
<1>9. CASE DeployFinish(d)
  <2>1. dpc[d] = "finish" /\ UNCHANGED <<boxes, healthy, cancel>>
    BY <1>9 DEF DeployFinish
  <2>2. d \in healthy
    BY <1>0, <2>1 DEF PastHealth
  <2>3. CASE DeployError(d)
    BY <1>3, <2>1, <2>3
  <2>4. CASE dpc' = [dpc EXCEPT ![d] = "confirm"] /\ UNCHANGED <<jobs, drain>>
    BY <1>0, <1>1, <2>1, <2>2, <2>4, ServeMoved
  <2> QED
    BY <1>9, <2>3, <2>4 DEF DeployFinish
<1>10. CASE DeployConfirm(d)
  <2>1. dpc' = [dpc EXCEPT ![d] = "idle"] /\ UNCHANGED <<boxes, healthy, cancel, drain>>
    BY <1>10 DEF DeployConfirm
  <2>2. job'["delete"] = job["delete"]
    BY <1>10, DeleteJobsKept DEF DeployConfirm
  <2> QED
    BY <1>0, <2>1, <2>2, ServeMoved
<1>11. CASE DeployFail(d)
  BY <1>3, <1>11 DEF DeployFail
<1>12. CASE DeployerDies(d)
  <2>1. dpc' = [dpc EXCEPT ![d] = "idle"] /\ drain' = [drain EXCEPT ![d] = {}] /\ UNCHANGED <<boxes, healthy, cancel>>
    BY <1>12 DEF DeployerDies
  <2>2. job'["delete"] = job["delete"]
    BY <1>12, DeleteJobsKept DEF DeployerDies
  <2>3. drain' \in [Deps -> SUBSET Deps] /\ \A e \in Deps : e \notin drain'[e]
    BY <1>0, <2>1
  <2> QED
    BY <1>0, <2>1, <2>2, <2>3, ServeMoved
<1>13. ~RunCancel(d)
  BY <1>0 DEF RunCancel, NoRemoval
<1> QED
  BY <1>2, <1>4, <1>5, <1>6, <1>7, <1>8, <1>9, <1>10, <1>11, <1>12, <1>13 DEF Deploy

\* With one slot and no cancellation every step keeps it.
LEMMA ServeStep ==
    ASSUME Slots = 1, Cancellable = {}, IsFiniteSet(Deps), ServeInv, TypeOK, [Next]_vars
    PROVE  ServeInv'
<1>1. CASE Next
  BY <1>1, ServeElsewhere, ServeDeploys DEF Next
<1>2. CASE UNCHANGED vars
  BY <1>2, ServeFrame DEF vars, calls, jobs, docker
<1> QED
  BY <1>1, <1>2

\* In every behaviour of such a deployer.
LEMMA ServeAlways == ASSUME Slots = 1, Cancellable = {}, IsFiniteSet(Deps) PROVE Spec => [](ServeInv /\ TypeOK)
<1>1. ServeInv /\ TypeOK /\ [Next]_vars => ServeInv'
  BY ServeStep
<1> QED
  BY <1>1, ServeStart, PipelineTypeCorrect, PTL DEF Spec

\* The step of ServingKept.
ServesOn == healthy # {} => healthy' # {}

\* Containers lose their health only to a drain, and the run that drains has a healthy one.
LEMMA ServesOnStep == ServeInv /\ TypeOK /\ [Next]_vars => [ServesOn]_vars
<1> SUFFICES ASSUME ServeInv, TypeOK, Next PROVE ServesOn
  OBVIOUS
<1> USE DEF ServesOn, docker
<1>1. PICK d \in Deps : Control(d) \/ Build(d) \/ Deploy(d)
  BY DEF Next
<1>2. CASE Control(d)
  BY <1>2 DEF Control, DeployCreate, DeployEnqueueBuild, DeployMarkQueued, DeployEnqueueDeploy, Rollback, CancelCheck,
              CancelWrite
<1>3. CASE Build(d)
  BY <1>3 DEF Build, BuildStart, BuildBegin, BuildMark, BuildStage, BuildSave, BuildComplete, BuildFail, BuilderDies,
              builderSame
<1>4. CASE DeployDrain(d)
  <2>1. PICK drained \in SUBSET drain[d] : healthy' = healthy \ drained
    BY <1>4 DEF DeployDrain
  <2>2. d \in healthy /\ d \notin drain[d]
    BY <1>4 DEF DeployDrain, ServeInv, PastHealth
  <2> QED
    BY <2>1, <2>2
<1>5. CASE DeployPhase(d)
  BY <1>5 DEF DeployPhase
<1>6. ~RunCancel(d)
  BY DEF RunCancel, ServeInv, NoRemoval
<1>7. CASE Deploy(d) /\ ~DeployDrain(d) /\ ~DeployPhase(d)
  BY <1>6, <1>7 DEF Deploy, DeployStart, DeployBegin, DeployCheckCancel, DeployListOld, DeployFinish, DeployConfirm,
                    DeployFail, DeployerDies
<1> QED
  BY <1>1, <1>2, <1>3, <1>4, <1>5, <1>7

\* With one slot and no cancellation a project that serves never stops serving: failed health
\* checks, deployer deaths and retries never take its last healthy container.
THEOREM ServingNeverStops == ASSUME Slots = 1, Cancellable = {}, IsFiniteSet(Deps) PROVE Spec => ServingKept
<1>1. Spec => [][ServesOn]_vars
  BY ServesOnStep, ServeAlways, PTL DEF Spec
<1> QED
  BY <1>1 DEF ServesOn, ServingKept

\* The step of LiveWhenServing.
TurnsLiveServing ==
    \A d \in Deps : (status[d] # "live" /\ status'[d] = "live") => d \in healthy /\ d \in boxes

\* Only the last two writes of a run say live, and the run is past its health check then.
LEMMA TurnsLiveStep == ServeInv /\ TypeOK /\ [Next]_vars => [TurnsLiveServing]_vars
<1> SUFFICES ASSUME ServeInv, TypeOK, Next PROVE TurnsLiveServing
  OBVIOUS
<1> USE DEF TurnsLiveServing, TypeOK, record
<1>1. PICK d \in Deps : Control(d) \/ Build(d) \/ Deploy(d)
  BY DEF Next
<1>2. CASE Control(d)
  BY <1>2 DEF Control, DeployCreate, DeployEnqueueBuild, DeployMarkQueued, DeployEnqueueDeploy, Rollback, CancelCheck,
              CancelWrite, UpdateStatus
<1>3. CASE Build(d)
  BY <1>3 DEF Build, BuildStart, BuildBegin, BuildMark, BuildStage, BuildSave, BuildComplete, BuildFail, BuilderDies,
              BuildCancelled, UpdateStatus, MarkFailed
<1>4. CASE dpc[d] \in {"finish", "confirm"} /\ (DeployFinish(d) \/ DeployConfirm(d))
  <2>1. d \in healthy /\ d \in boxes
    BY <1>4 DEF ServeInv, PastHealth
  <2>2. \A e \in Deps : e # d => status'[e] = status[e]
    BY <1>4 DEF DeployFinish, DeployConfirm, UpdateStatus
  <2> QED
    BY <2>1, <2>2
<1>5. CASE DeployPhase(d)
  <2>1. PhaseStatus(dpc[d]) # "live"
    BY DEF PhaseStatus
  <2> QED
    BY <1>5, <2>1 DEF DeployPhase, UpdateStatus
<1>6. CASE Deploy(d) /\ ~DeployFinish(d) /\ ~DeployConfirm(d) /\ ~DeployPhase(d)
  BY <1>6 DEF Deploy, DeployStart, DeployBegin, DeployCheckCancel, DeployListOld, DeployDrain, DeployFail, DeployerDies,
              RunCancel, MarkFailed
<1> QED
  BY <1>1, <1>2, <1>3, <1>4, <1>5, <1>6 DEF DeployFinish, DeployConfirm

\* With one slot and no cancellation a deployment turns live only while its own container is
\* up and has passed its health check.
THEOREM LiveMeansServing == ASSUME Slots = 1, Cancellable = {}, IsFiniteSet(Deps) PROVE Spec => LiveWhenServing
<1>1. Spec => [][TurnsLiveServing]_vars
  BY TurnsLiveStep, ServeAlways, PTL DEF Spec
<1> QED
  BY <1>1 DEF TurnsLiveServing, LiveWhenServing
=============================================================================
