------------------------------- MODULE MCLive -------------------------------
(* The cron processes, the runtime agents and the migrations side by side: a   *)
(* behaviour is one of these, under the fairness of that part.                *)
EXTENDS CronScheduler, RuntimeAgent, Migrations

CONSTANTS api, agent, proxy

VARIABLE part

MCCronJobs == [hourly |-> "@hourly", daily |-> "@daily"]

\* The agent and the proxy each add a version to the list they share.
MCWanted == (api :> <<1>>) @@ (agent :> <<1, 2, 3>>) @@ (proxy :> <<1, 2, 4>>)

MCInit ==
    /\ part \in {"cron", "agents", "migrations"}
    /\ CronInit /\ AgentInit /\ MigrationsInit

MCNext ==
    \/ part = "cron" /\ CronNext /\ UNCHANGED <<part, avars, mvars>>
    \/ part = "agents" /\ AgentNext /\ UNCHANGED <<part, crvars, mvars>>
    \/ part = "migrations" /\ MigrationsNext /\ UNCHANGED <<part, crvars, avars>>

\* The fair steps of a part may be enabled in its initial state.
MCFairness ==
    /\ WF_crvars(part = "cron" /\ LockExpires /\ ~Leading(leader))
    /\ \A n \in Crons : SF_crvars(part = "cron" /\ CronStep(n))
    /\ \A n \in Nodes : WF_avars(part = "agents" /\ AgentFair(n))
    /\ \A p \in Clients : WF_avars(part = "agents" /\ RequestFair(p))
    /\ WF_mvars(part = "migrations" /\ BootFair)

MCSpec == MCInit /\ [][MCNext]_<<part, crvars, avars, mvars>> /\ MCFairness
=============================================================================
