------------------------------- MODULE MCEdge -------------------------------
(* The parts that place containers and expose them, side by side: a behaviour  *)
(* is one of the edge routes', one of the scheduler's or one placement.        *)
EXTENDS EdgeRoutes, Scheduler, Placement

CONSTANTS h1, t1

VARIABLE part

MCTag == [h \in Hosts |-> t1]
MCCapacity == [n \in Servers |-> 1]

\* Servers that are empty, full in one respect or overcommitted, with and without GPUs.
MCShapes ==
    {<<2, 0, 0, 0, 0>>, <<2, 1, 0, 1, 0>>, <<2, 1, 2, 0, 1>>, <<3, 1, 1, 1, 1>>,
     <<1, 0, 1, 2, 0>>, <<1, 2, 0, 0, 1>>, <<3, 2, 0, 1, 0>>, <<4, 1, 2, 1, 0>>}
MCServer(i, shape) ==
    [node |-> <<"n1", "n2", "n3">>[i], region |-> <<"r1", "r1", "r2">>[i], zone |-> <<"z1", "z2", "z1">>[i],
     cores |-> shape[1], cpu |-> shape[2], memory |-> 2, mem |-> shape[3], slots |-> 2, count |-> shape[4], gpus |-> shape[5]]
MCFleets == {<<MCServer(1, a), MCServer(2, b), MCServer(3, c)>> : a, b, c \in MCShapes}

MCPlain == [cpu |-> 1, mem |-> 1, gpu |-> FALSE, label |-> "", region |-> "", zone |-> "", min |-> 0, max |-> 0, idlen |-> 36, algorithm |-> ""]
MCAlgorithms ==
    {"first_fit", "best_fit", "worst_fit", "first_fit_decreasing", "best_fit_decreasing", "least_loaded", "most_loaded",
     "balanced", "affinity", "anti_affinity", "region_aware", "az_aware", "gpu", "warm_node", "cold_node"}
MCRequests ==
    {[MCPlain EXCEPT !.algorithm = a] : a \in MCAlgorithms}
    \union {[MCPlain EXCEPT !.algorithm = a, !.label = l] : a \in {"affinity", "anti_affinity"}, l \in {"r2", "n1", "r3"}}
    \union {[MCPlain EXCEPT !.algorithm = a, !.region = "r2", !.zone = z] : a \in {"region_aware", "az_aware"}, z \in {"z1", "z2"}}
    \union {[MCPlain EXCEPT !.min = lo, !.max = hi, !.gpu = TRUE] : lo \in {5, 6}, hi \in {5, 8, 40}}

MCVars == <<part, vars, schedVars, plvars>>

MCInit ==
    /\ part \in {"edge", "scheduler", "placement"}
    /\ Init /\ SchedInit
    /\ IF part = "placement" THEN PlacementInit ELSE fleet = <<>> /\ request = MCPlain /\ placed = {}

InEdge(A) == part = "edge" /\ A /\ UNCHANGED <<part, schedVars, plvars>>
InScheduler(A) == part = "scheduler" /\ A /\ UNCHANGED <<part, vars, plvars>>
InPlacement(A) == part = "placement" /\ A /\ UNCHANGED <<part, vars, schedVars>>

MCNext == InEdge(Next) \/ InScheduler(SchedNext) \/ InPlacement(PlacementNext)

\* The fairness of the parts: calls that have begun go on, and the tickers keep firing.
MCFairness ==
    /\ \A p \in Procs : WF_MCVars(InEdge(Progress(p)))
    /\ WF_MCVars(InEdge(ReconcileList)) /\ WF_MCVars(InEdge(ReconcilePatch)) /\ WF_MCVars(InEdge(ReconcilePost))
    /\ WF_MCVars(InScheduler(Reconcile))

MCSpec == MCInit /\ [][MCNext]_MCVars /\ MCFairness
=============================================================================
