------------------------------ MODULE SleepWake ------------------------------
(* Sleep and wake of a project's deployments: the idle timers of ops/autosleep, *)
(* Pause, Resume and Restart of the control plane, and the jobs of the           *)
(* deployments queue that stop the containers or deploy again.                   *)
EXTENDS Naturals, FiniteSets

CONSTANTS
    SDeps,     \* deployments of the project, numbered in their order
    MaxPauses  \* bound on requests to pause or resume

ASSUME SleepAssumption == SDeps \subseteq Nat \ {0} /\ MaxPauses \in Nat

VARIABLES
    conts,    \* deploy_containers: the row of each deployment's container
    alive,    \* containers that really run
    timers,   \* rows of the autosleep queue; their key is sleep:<deployment>
    marks,    \* ops_sleep_events: how often each deployment was said to sleep
    sleeps,   \* rows of the deployments queue: sleep jobs by key, and those without
    sleeper,  \* containers that running sleep jobs have listed and not stopped yet
    pauses, stopErrors

swvars == <<conts, alive, timers, marks, sleeps, sleeper, pauses, stopErrors>>

SleepInit ==
    /\ conts = [d \in SDeps |-> "none"] /\ alive = {}
    /\ timers = [d \in SDeps |-> "none"]
    /\ marks = [d \in SDeps |-> 0]
    /\ sleeps = {} /\ sleeper = {}
    /\ pauses = 0 /\ stopErrors = {}

\* A deployment succeeds: its container runs (the pipeline's part).
Deployed(d) ==
    /\ conts[d] = "none" /\ \A e \in SDeps : e < d => conts[e] # "none"
    /\ conts' = [conts EXCEPT ![d] = "running"] /\ alive' = alive \cup {d}
    /\ UNCHANGED <<timers, marks, sleeps, sleeper, pauses, stopErrors>>

\* EnqueueSleep: an enterprise plan has no threshold; the key is there for good, so a
\* deployment has one timer in its life.
EnqueueSleep(d) ==
    /\ conts[d] = "running" /\ timers[d] = "none"
    /\ timers' = [timers EXCEPT ![d] = "delayed"]
    /\ UNCHANGED <<conts, alive, marks, sleeps, sleeper, pauses, stopErrors>>

IdleThreshold(d) ==
    /\ timers[d] = "delayed"
    /\ timers' = [timers EXCEPT ![d] = "due"]
    /\ UNCHANGED <<conts, alive, marks, sleeps, sleeper, pauses, stopErrors>>

\* ExecuteSleep records the event; the job may start over after a crash.
RecordSleepEvent(d) ==
    /\ timers[d] \in {"due", "marked"} /\ marks[d] < 2
    /\ marks' = [marks EXCEPT ![d] = @ + 1]
    /\ timers' = [timers EXCEPT ![d] = "marked"]
    /\ UNCHANGED <<conts, alive, sleeps, sleeper, pauses, stopErrors>>

MutSchedSleep(d) == sleeps \cup {[key |-> d, n |-> marks[d], done |-> FALSE]}

\* The key sched-sleep:<deployment> is taken by a row of any status.
SchedSleep(d) == IF \E j \in sleeps : j.key = d THEN sleeps ELSE sleeps \cup {[key |-> d, n |-> 0, done |-> FALSE]}

MutExecuteSleep(d) ==
    /\ timers[d] \in {"due", "marked"}
    /\ sleeps' \in {sleeps, SchedSleep(d)}
    /\ timers' = [timers EXCEPT ![d] = "done"]
    /\ UNCHANGED <<conts, alive, marks, sleeper, pauses, stopErrors>>

\* Then it enqueues the scheduler's job; an error of that is logged and the job succeeds.
\* A worker that dies before the row is settled leaves it to be run again.
ExecuteSleep(d) ==
    /\ timers[d] = "marked"
    /\ sleeps' \in {sleeps, SchedSleep(d)}
    /\ timers' \in {timers, [timers EXCEPT ![d] = "done"]}
    /\ UNCHANGED <<conts, alive, marks, sleeper, pauses, stopErrors>>

\* PauseProject, ResumeProject and RestartProject of the control plane.
ProjectRequest == pauses < MaxPauses /\ pauses' = pauses + 1

\* Pause: a sleep job without a key or a deployment id.
Pause ==
    /\ ProjectRequest
    /\ sleeps' = sleeps \cup {[key |-> 0, n |-> pauses', done |-> FALSE]}
    /\ UNCHANGED <<conts, alive, timers, marks, sleeper, stopErrors>>

\* Resume and Restart enqueue a wake job for the latest deployment; RunWake calls RunDeploy
\* with an empty job id, which the execution row's UUID column refuses: the job dies.
Restart ==
    /\ ProjectRequest
    /\ \E d \in SDeps : conts[d] # "none"
    /\ UNCHANGED <<conts, alive, timers, marks, sleeps, sleeper, stopErrors>>

\* RunSleep: the active containers of the whole project, whichever deployment asked.
RunSleep ==
    /\ \E j \in sleeps : ~j.done /\ sleeps' = (sleeps \ {j}) \cup {[j EXCEPT !.done = TRUE]}
    /\ sleeper' = sleeper \cup {d \in SDeps : conts[d] = "running"}
    /\ UNCHANGED <<conts, alive, timers, marks, pauses, stopErrors>>

\* Stop, then MarkStopped; the errors of both are ignored.
StopContainer(d) ==
    /\ d \in sleeper
    /\ sleeper' = sleeper \ {d}
    /\ \/ alive' = alive \ {d} /\ UNCHANGED stopErrors
       \/ stopErrors' = stopErrors \cup {d} /\ UNCHANGED alive
    /\ conts' \in {conts, [conts EXCEPT ![d] = "stopped"]}
    /\ UNCHANGED <<timers, marks, sleeps, pauses>>

SleepNext ==
    \/ Pause \/ Restart \/ RunSleep
    \/ \E d \in SDeps :
        Deployed(d) \/ EnqueueSleep(d) \/ IdleThreshold(d) \/ RecordSleepEvent(d) \/ ExecuteSleep(d) \/ StopContainer(d)

SleepSpec == SleepInit /\ [][SleepNext]_swvars

-----------------------------------------------------------------------------
(* Properties *)

\* However often its job runs, an idle deployment is put to sleep by one job, and only
\* after the event that says so was written.
IdleSleepsOnce ==
    \A d \in SDeps :
        /\ Cardinality({j \in sleeps : j.key = d}) <= 1
        /\ (\E j \in sleeps : j.key = d) => marks[d] > 0

\* A row that says stopped is of a container that stopped, or whose stop failed.
StoppedRowTruthful == \A d \in SDeps : (conts[d] = "stopped" /\ d \in alive) => d \in stopErrors

\* An idle deployment is put to sleep once and after its event, and stopped rows are true.
SleepsTrue == IdleSleepsOnce /\ StoppedRowTruthful
=============================================================================
