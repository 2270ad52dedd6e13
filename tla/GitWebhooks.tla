---------------------------- MODULE GitWebhooks ----------------------------
(* Connected git repositories and the webhooks of their providers               *)
(* (controlplane/gitrepo, controlplane/webhook), over the projects: a delivery  *)
(* is recorded, its repository is looked up by URL, and its project deployed.   *)
EXTENDS Projects, Sequences, SequencesExt

CONSTANTS
    RepoIds,      \* repository rows
    Urls,         \* repository URLs, as sequences
    Deliveries,   \* deliveries that providers make, over and over: [id, provider, sig, event, url]
    Configured,   \* the providers whose secret is configured
    MaxReceived,  \* bound: how often deliveries are received
    MaxDeploys    \* bound: deployments

VARIABLES
    repos,        \* controlplane_git_repositories
    recorded,     \* controlplane_webhook_deliveries: the deliveries taken on
    passes,       \* how often each delivery got past its record
    answers,      \* the answers each delivery was given
    received,     \* how many deliveries were received
    deployments,  \* controlplane_deployments: the project of each, and the delivery or request that made it
    greqs         \* what each running request has read

gvars == <<projects, preqs, repos, recorded, passes, answers, received, deployments, greqs>>

RepoRow == [project : ProjIds, url : Urls, clone : Urls, connected : BOOLEAN]

ASSUME GitAssumption == NoRow \notin RepoRow

GIdle == [op |-> "idle"]

GitInit ==
    /\ repos = [r \in RepoIds |-> NoRow]
    /\ recorded = {} /\ received = 0 /\ deployments = << >>
    /\ passes = [d \in Deliveries |-> 0]
    /\ answers = [d \in Deliveries |-> {}]
    /\ greqs = [w \in Clerks |-> GIdle]

\* The projects that repositories are connected to, as Projects leaves them.
GitProjects ==
    /\ projects \in [ProjIds -> [org : Orgs, slug : Bases \X (1..Cardinality(ProjIds)), status : {"active", "archived"}, deleted : {FALSE}]]
    /\ OneProjectPerSlug
    /\ preqs = [w \in Clerks |-> PIdle]

GTo(w, req) == greqs' = [greqs EXCEPT ![w] = req]
GDone(w) == GTo(w, GIdle)

-----------------------------------------------------------------------------
(* Repositories *)

\* The rows that count for a project: connected ones.
Connections(p) == {r \in RepoIds : repos[r] # NoRow /\ repos[r].project = p /\ repos[r].connected}

RepositoryRoute(w, req) ==
    /\ greqs[w] = GIdle /\ GTo(w, req)
    /\ UNCHANGED <<projects, preqs, repos, recorded, passes, answers, received, deployments>>

\* Connect: the first statement of the transaction disconnects the rows it sees.
ConnectReplace(p, u) == [op |-> "connect", project |-> p, url |-> u, replaced |-> Connections(p)]

ConnectRepository(w, p, u) == RepositoryRoute(w, ConnectReplace(p, u))

\* controlplane_git_repos_project_uniq: a row that another transaction has committed since is in the way.
ConnectFits(w) == Connections(greqs[w].project) \subseteq greqs[w].replaced

\* The insert, and the commit of both; or neither.
ConnectInsert(w, r) ==
    /\ greqs[w].op = "connect" /\ repos[r] = NoRow
    /\ repos' = IF ~ConnectFits(w) THEN repos
                ELSE [x \in RepoIds |->
                        CASE x = r -> [project |-> greqs[w].project, url |-> greqs[w].url, clone |-> greqs[w].url, connected |-> TRUE]
                          [] x # r /\ x \in greqs[w].replaced -> [repos[x] EXCEPT !.connected = FALSE]
                          [] OTHER -> repos[x]]
    /\ GDone(w)
    /\ UNCHANGED <<projects, preqs, recorded, passes, answers, received, deployments>>

\* Update and Disconnect read the project's connected row first, GetByProject.
UpdateRepository(w, p, u) == \E r \in Connections(p) : RepositoryRoute(w, [op |-> "update", id |-> r, url |-> u])

DisconnectRepository(w, p) == \E r \in Connections(p) : RepositoryRoute(w, [op |-> "disconnect", id |-> r])

\* Store.Update goes by the id, connected or not.
UpdateRepo(w) ==
    /\ greqs[w].op = "update"
    /\ repos' = [repos EXCEPT ![greqs[w].id].clone = greqs[w].url]
    /\ GDone(w)
    /\ UNCHANGED <<projects, preqs, recorded, passes, answers, received, deployments>>

\* Store.Disconnect: the row it read, if that is still connected.
Disconnect(w) ==
    /\ greqs[w].op = "disconnect"
    /\ repos' = [repos EXCEPT ![greqs[w].id].connected = FALSE]
    /\ GDone(w)
    /\ UNCHANGED <<projects, preqs, recorded, passes, answers, received, deployments>>

-----------------------------------------------------------------------------
(* Webhooks *)

\* verify: nothing is checked without a configured secret, and a GitHub delivery without a
\* signature passes.
Verify(d) == d.provider \notin Configured \/ d.sig = "good" \/ (d.provider = "github" /\ d.sig = "none")

WAnswer(w, d, a) == GDone(w) /\ answers' = [answers EXCEPT ![d] = @ \union {a}]

MutRecordDelivery(d) == TRUE

\* recordDelivery: controlplane_webhook_delivery_uniq refuses what is recorded.
RecordDelivery(d) == \A x \in recorded : x.provider # d.provider \/ x.id # d.id

\* Handle, up to the record: providers deliver again when they got no answer they like,
\* and a duplicate is answered as if it had been handled.
Handle(w, d) ==
    /\ greqs[w] = GIdle /\ received < MaxReceived
    /\ received' = received + 1
    /\ \/ /\ Verify(d) /\ RecordDelivery(d)
          /\ recorded' = recorded \union {d} /\ passes' = [passes EXCEPT ![d] = @ + 1]
          /\ GTo(w, [op |-> "handle", delivery |-> d]) /\ UNCHANGED answers
       \/ /\ Verify(d) /\ ~RecordDelivery(d)
          /\ WAnswer(w, d, "accepted") /\ UNCHANGED <<recorded, passes>>
       \/ /\ ~Verify(d)
          /\ WAnswer(w, d, "rejected") /\ UNCHANGED <<recorded, passes>>
    /\ UNCHANGED <<projects, preqs, repos, deployments>>

\* handleGitHub, handleGitLab, handleBitbucket: which deliveries ask for a deployment.
IsPush(d) ==
    CASE d.provider = "github" -> d.event \in {"push", "release", "create"}
      [] d.provider = "gitlab" -> d.event = "push"
      [] d.provider = "bitbucket" -> d.event # "empty"

\* findRepoByURL: one of the connected rows that have the URL, or that start with it.
FindRepoByURL(u) ==
    {r \in RepoIds : repos[r] # NoRow /\ repos[r].connected /\ (repos[r].url = u \/ repos[r].clone = u \/ IsPrefix(u, repos[r].url))}

\* triggerDeploy: events that are no push and unknown repositories are accepted and ignored.
TriggerDeploy(w) ==
    /\ greqs[w].op = "handle"
    /\ LET d == greqs[w].delivery IN
       \/ /\ ~IsPush(d) \/ FindRepoByURL(d.url) = {}
          /\ WAnswer(w, d, "accepted")
       \/ /\ IsPush(d)
          /\ \E r \in FindRepoByURL(d.url) : GTo(w, [op |-> "deploy", delivery |-> d, project |-> repos[r].project, org |-> NoRow])
          /\ UNCHANGED answers
    /\ UNCHANGED <<projects, preqs, repos, recorded, passes, received, deployments>>

\* AssertOrgMatch: the request carries an organization, and it is the one asked for.
AssertOrgMatch(ctxOrg, o) == ctxOrg # NoRow /\ ctxOrg = o

\* The route of a member's own deployment; its context carries the organization.
DeployRoute(w, o, p) ==
    RepositoryRoute(w, [op |-> "deploy", delivery |-> NoRow, project |-> p, org |-> o])

\* Deploy, DeployFromWebhook: the caller's context, the project's row and its status are checked.
DeployCheck(w) ==
    /\ greqs[w].op = "deploy"
    /\ LET q == greqs[w] IN
       IF AssertOrgMatch(q.org, projects[q.project].org) /\ ProjectFound(q.org, q.project) /\ IsLive(q.project)
       THEN GTo(w, [q EXCEPT !.op = "deploy2"]) /\ UNCHANGED answers
       ELSE IF q.delivery = NoRow THEN GDone(w) /\ UNCHANGED answers ELSE WAnswer(w, q.delivery, "error")
    /\ UNCHANGED <<projects, preqs, repos, recorded, passes, received, deployments>>

\* Deploy writes the deployment; the rest of its life is DeploymentPipeline's.
CreateDeployment(w) ==
    /\ greqs[w].op = "deploy2" /\ Len(deployments) < MaxDeploys
    /\ deployments' = Append(deployments, [project |-> greqs[w].project, by |-> greqs[w].delivery])
    /\ IF greqs[w].delivery = NoRow THEN GDone(w) /\ UNCHANGED answers ELSE WAnswer(w, greqs[w].delivery, "accepted")
    /\ UNCHANGED <<projects, preqs, repos, recorded, passes, received>>

\* The server dies, or a statement fails; the provider gets an error or no answer.
GitRequestFails(w) ==
    /\ greqs[w] # GIdle /\ GDone(w)
    /\ UNCHANGED <<projects, preqs, repos, recorded, passes, answers, received, deployments>>

GitNext ==
    \E w \in Clerks :
        \/ UpdateRepo(w) \/ Disconnect(w)
        \/ TriggerDeploy(w) \/ DeployCheck(w) \/ CreateDeployment(w) \/ GitRequestFails(w)
        \/ \E p \in ProjIds, u \in Urls : ConnectRepository(w, p, u) \/ UpdateRepository(w, p, u)
        \/ \E p \in ProjIds : DisconnectRepository(w, p) \/ \E o \in Orgs : DeployRoute(w, o, p)
        \/ \E r \in RepoIds : ConnectInsert(w, r)
        \/ \E d \in Deliveries : Handle(w, d)

-----------------------------------------------------------------------------
(* Properties *)

\* The rows are those that gitrepo.Store, webhook.Service and deployment.Repository write.
GitTypeOK ==
    /\ \A r \in RepoIds : repos[r] # NoRow => repos[r] \in RepoRow
    /\ recorded \subseteq Deliveries
    /\ \A d \in Deliveries : answers[d] \subseteq {"accepted", "rejected", "error"}

\* However connections race, a project has at most one connected repository.
OneConnection == \A p \in ProjIds : Cardinality(Connections(p)) <= 1

\* A delivery that comes several times, at once or one after the other, is handled once.
DeliveryHandledOnce == \A d \in Deliveries : passes[d] <= 1

\* "DeployFromWebhook creates a deployment triggered by a git webhook": a delivery that
\* failed, and was accepted when the provider sent it again, has its deployment by then.
RetryDeploys ==
    \A d \in Deliveries :
        {"error", "accepted"} \subseteq answers[d] => \E i \in DOMAIN deployments : deployments[i].by = d
=============================================================================
