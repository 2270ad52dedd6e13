---------------------------- MODULE RuntimeAgent ----------------------------
(* The runtime agents: the containers of each node's Docker, the table         *)
(* runtime_containers, which all agents share and which does not say whose a   *)
(* container is, the lifecycle requests and the recovery passes. Errors of      *)
(* statements are ignored throughout; those of Docker end a request.           *)
EXTENDS Naturals, FiniteSets

CONSTANTS
    Nodes,      \* agents
    NoNode,     \* no agent
    Containers, \* container ids, never given out twice
    Apps,       \* deployments
    Clients,    \* requests to the agents
    AMaxCalls,  \* bound on requests
    AMaxFaults  \* bound on failing requests to Docker, statements, restarts and losses

VARIABLES
    docker,   \* each container: its node, its deployment and its state, one of unused,
              \* created, running, exited and gone
    records,  \* runtime_containers: the status, "none" without a row
    areqs,    \* what each request is doing
    recovery, \* each agent's pass: what Docker listed, and the rows left
    crossing, \* containers that two requests worked on at once, or a step failed for
    slipped,  \* containers created while a pass of their node was between its two lists
    foreign,  \* containers that a pass of another node marked
    acalls, afaults

avars == <<docker, records, areqs, recovery, crossing, slipped, foreign, acalls, afaults>>

NoRequest == [at |-> "idle", on |-> NoNode]
NoRecovery == [at |-> "idle", known |-> {}, todo |-> {}]

AgentInit ==
    /\ docker = [c \in Containers |-> [node |-> NoNode, app |-> NoNode, state |-> "unused"]]
    /\ records = [c \in Containers |-> "none"]
    /\ areqs = [p \in Clients |-> NoRequest]
    /\ recovery = [n \in Nodes |-> NoRecovery]
    /\ crossing = {} /\ slipped = {} /\ foreign = {} /\ acalls = 0 /\ afaults = 0

AFault == afaults < AMaxFaults /\ afaults' = afaults + 1
Present(c) == docker[c].state \in {"created", "running", "exited"}

\* A request for a container begins, or another one is working on it.
Begins(p, at, c) ==
    /\ areqs[p] = NoRequest /\ acalls < AMaxCalls /\ acalls' = acalls + 1
    /\ areqs' = [areqs EXCEPT ![p] = [at |-> at, on |-> c]]
    /\ crossing' = IF \E q \in Clients \ {p} : areqs[q].on = c THEN crossing \union {c} ELSE crossing
Continues(p, at) == areqs' = [areqs EXCEPT ![p].at = at]
Ends(p) == areqs' = [areqs EXCEPT ![p] = NoRequest]

\* SetStatus: the row, if there is one, and the transition in one transaction.
SetStatus(c, status) == records' = [records EXCEPT ![c] = IF @ = "none" THEN @ ELSE status]

\* A step on the row whose error is ignored.
Recorded(p, c, status) ==
    \/ SetStatus(c, status) /\ UNCHANGED <<crossing, afaults>>
    \/ AFault /\ crossing' = crossing \union {c} /\ UNCHANGED records

-----------------------------------------------------------------------------
(* Lifecycle *)

\* Create: the image is pulled and the container created under the name of its
\* deployment, which must be free on the node.
CreateContainer(p, n, app, c) ==
    /\ docker[c].state = "unused"
    /\ \A k \in Containers : Present(k) => docker[k].node # n \/ docker[k].app # app
    /\ Begins(p, "created", c)
    /\ docker' = [docker EXCEPT ![c] = [node |-> n, app |-> app, state |-> "created"]]
    /\ slipped' = IF recovery[n].at = "rows" THEN slipped \union {c} ELSE slipped
    /\ UNCHANGED <<records, recovery, foreign, afaults>>

\* UpsertContainer, then SetStatus to the same status.
UpsertContainer(p) ==
    LET c == areqs[p].on IN
    /\ areqs[p].at = "created"
    /\ \/ records' = [records EXCEPT ![c] = "created"] /\ UNCHANGED <<crossing, afaults>>
       \/ AFault /\ crossing' = crossing \union {c} /\ UNCHANGED records
    /\ Ends(p)
    /\ UNCHANGED <<docker, recovery, slipped, foreign, acalls>>

\* Start: Docker, then the row.
StartContainer(p, c) ==
    /\ Present(c)
    /\ Begins(p, "started", c)
    /\ docker' = [docker EXCEPT ![c].state = "running"]
    /\ UNCHANGED <<records, recovery, slipped, foreign, afaults>>

\* The last step of a start, a restart, a stop and a removal.
EndRequest(p) ==
    LET q == areqs[p]
        status == [started |-> "running", restarted |-> "running", stopped |-> "stopped", removed |-> "deleted"]
    IN
    /\ q.at \in DOMAIN status
    /\ Recorded(p, q.on, status[q.at])
    /\ Ends(p)
    /\ UNCHANGED <<docker, recovery, slipped, foreign, acalls>>

\* Stop and Restart announce themselves in the row. Restart needs a row; its limit does
\* not bind, since nothing counts restarts.
StopContainer(p, c) ==
    /\ docker[c].state # "unused"
    /\ Begins(p, "stopping", c)
    /\ \/ SetStatus(c, "stopping") /\ UNCHANGED afaults
       \/ AFault /\ UNCHANGED records
    /\ UNCHANGED <<docker, recovery, slipped, foreign>>
RestartContainer(p, c) ==
    /\ records[c] # "none"
    /\ Begins(p, "restarting", c)
    /\ \/ SetStatus(c, "restarting") /\ UNCHANGED afaults
       \/ AFault /\ UNCHANGED records
    /\ UNCHANGED <<docker, recovery, slipped, foreign>>

\* Docker stops or restarts the container; an error leaves the row as announced.
DockerStopsOrRestarts(p) ==
    LET c == areqs[p].on
        stops == areqs[p].at = "stopping"
    IN
    /\ areqs[p].at \in {"stopping", "restarting"}
    /\ \/ /\ Present(c)
          /\ docker' = [docker EXCEPT ![c].state = IF ~stops THEN "running" ELSE IF @ = "running" THEN "exited" ELSE @]
          /\ Continues(p, IF stops THEN "stopped" ELSE "restarted")
          /\ UNCHANGED <<crossing, afaults>>
       \/ ~Present(c) /\ Ends(p) /\ UNCHANGED <<docker, crossing, afaults>>
       \/ AFault /\ Ends(p) /\ crossing' = crossing \union {c} /\ UNCHANGED docker
    /\ UNCHANGED <<records, recovery, slipped, foreign, acalls>>

\* Remove: Docker stops and removes the container, running or not.
RemoveContainer(p, c) ==
    /\ Present(c)
    /\ Begins(p, "removed", c)
    /\ docker' = [docker EXCEPT ![c].state = "gone"]
    /\ UNCHANGED <<records, recovery, slipped, foreign, afaults>>

\* Docker stops the container and fails to remove it: the row is not touched.
RemoveFails(c) ==
    /\ Present(c) /\ acalls < AMaxCalls /\ acalls' = acalls + 1 /\ AFault
    /\ docker' = [docker EXCEPT ![c].state = IF @ = "running" THEN "exited" ELSE @]
    /\ crossing' = crossing \union {c}
    /\ UNCHANGED <<records, areqs, recovery, slipped, foreign>>

-----------------------------------------------------------------------------
(* Recovery *)

MutListRunning(n) == {c \in Containers : docker[c].state = "running" /\ docker[c].node = n}

\* ListManagedContainers: stopped ones too.
ListManaged(n) == {c \in Containers : Present(c) /\ docker[c].node = n}

\* reconcile: first what Docker has,
RecoveryLists(n) ==
    /\ recovery[n].at = "idle"
    /\ recovery' = [recovery EXCEPT ![n] = [at |-> "rows", known |-> ListManaged(n), todo |-> {}]]
    /\ UNCHANGED <<docker, records, areqs, crossing, slipped, foreign, acalls, afaults>>

\* A pass that looks at the rows that were never started.
MutListActive == {c \in Containers : records[c] = "created"}

\* then the rows that are running,
ListActive == {c \in Containers : records[c] = "running"}

RecoveryReads(n) ==
    /\ recovery[n].at = "rows"
    /\ recovery' = [recovery EXCEPT ![n] =
                        IF ListActive \subseteq @.known THEN NoRecovery
                        ELSE [at |-> "mark", known |-> @.known, todo |-> ListActive \ @.known]]
    /\ UNCHANGED <<docker, records, areqs, crossing, slipped, foreign, acalls, afaults>>

\* then one by one those that Docker did not list become failed.
RecoveryMarks(n) ==
    /\ recovery[n].at = "mark"
    /\ \E c \in recovery[n].todo :
        /\ \/ SetStatus(c, "failed") /\ UNCHANGED afaults
           \/ AFault /\ UNCHANGED records
        /\ foreign' = IF docker[c].node # n THEN foreign \union {c} ELSE foreign
        /\ crossing' = IF \E p \in Clients : areqs[p].on = c THEN crossing \union {c} ELSE crossing
        /\ recovery' = [recovery EXCEPT ![n] = IF @.todo = {c} THEN NoRecovery
                                                       ELSE [at |-> "mark", known |-> @.known, todo |-> @.todo \ {c}]]
    /\ UNCHANGED <<docker, areqs, slipped, acalls>>

\* An agent stops with its pass and with its requests.
AgentStops(n) ==
    /\ AFault
    /\ recovery' = [recovery EXCEPT ![n] = NoRecovery]
    /\ LET cut == {p \in Clients : areqs[p] # NoRequest /\ docker[areqs[p].on].node = n} IN
        /\ areqs' = [p \in Clients |-> IF p \in cut THEN NoRequest ELSE areqs[p]]
        /\ crossing' = crossing \union {areqs[p].on : p \in cut}
    /\ UNCHANGED <<docker, records, slipped, foreign, acalls>>

\* A container disappears from Docker by other hands.
ContainerLost(c) ==
    /\ Present(c) /\ AFault
    /\ docker' = [docker EXCEPT ![c].state = "gone"]
    /\ UNCHANGED <<records, areqs, recovery, crossing, slipped, foreign, acalls>>

AgentNext ==
    \/ \E n \in Nodes : RecoveryLists(n) \/ RecoveryReads(n) \/ RecoveryMarks(n) \/ AgentStops(n)
    \/ \E c \in Containers : ContainerLost(c) \/ RemoveFails(c)
    \/ \E p \in Clients :
        \/ UpsertContainer(p) \/ DockerStopsOrRestarts(p) \/ EndRequest(p)
        \/ \E c \in Containers :
            \/ StartContainer(p, c) \/ StopContainer(p, c) \/ RestartContainer(p, c) \/ RemoveContainer(p, c)
            \/ \E n \in Nodes, app \in Apps : CreateContainer(p, n, app, c)

AgentSpec == AgentInit /\ [][AgentNext]_avars

\* The ticker keeps the passes going, and a request that has begun goes on.
AgentFair(n) == RecoveryLists(n) \/ RecoveryReads(n) \/ RecoveryMarks(n)
RequestFair(p) == UpsertContainer(p) \/ DockerStopsOrRestarts(p) \/ EndRequest(p)

-----------------------------------------------------------------------------
(* Properties *)

\* A container whose row says deleted is gone from Docker, whatever overlapped or failed.
DeletedIsGone == \A c \in Containers : records[c] = "deleted" => docker[c].state = "gone"

\* A running container has a failed row only if it was created between the two lists of a
\* pass, or if the pass of another node, which cannot know it, marked it.
FailedIsMissing ==
    \A c \in Containers :
        (records[c] = "failed" /\ docker[c].state = "running") => c \in slipped \union foreign \union crossing

\* A container that Docker has lost does not stay running in the table.
MissingNoticed ==
    \A c \in Containers : (records[c] = "running" /\ docker[c].state = "gone") ~> (records[c] # "running")
=============================================================================
