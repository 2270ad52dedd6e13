------------------------------ MODULE MCServing ------------------------------
(* What goes on inside the processes that serve: the rolling replacement of     *)
(* containers, the event bus and the streaming hub, side by side. A behaviour   *)
(* is one of these, and the bus is scheduled fairly.                           *)
EXTENDS MCDeploymentPipeline, EventBus, StreamHub

VARIABLE part

MCInit ==
    /\ part \in {"pipeline", "bus", "hub"}
    /\ Init /\ BusInit /\ HubInit

MCNext ==
    \/ part = "pipeline" /\ Next /\ UNCHANGED <<part, bvars, hvars>>
    \/ part = "bus" /\ BusNext /\ UNCHANGED <<part, vars, hvars>>
    \/ part = "hub" /\ HubNext /\ UNCHANGED <<part, vars, bvars>>

MCSpec == MCInit /\ [][MCNext]_<<part, vars, bvars, hvars>> /\ WF_bvars(BusFair)
=============================================================================
