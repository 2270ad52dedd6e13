----------------------------- MODULE Placement ------------------------------
(* The placement algorithms of the scheduler (scheduler/placement): which of   *)
(* the listed servers each of them takes for a request, and on which port.     *)
(* Amounts are whole requests' worth; the capacities include the overcommit.   *)
(* Sorting is not stable, so that any order that respects the key may come out,*)
(* and a selection is a set of possible results.                              *)
EXTENDS Integers, Sequences, Functions

CONSTANTS
    Fleets,     \* the server lists to place on
    Requests,   \* the requests to place
    PortBase,   \* the port range of a request that gives none begins here,
    PortSpan    \* and is that long

\* Of a server as it is listed, the capacities and what is taken of them.
Server ==
    [node : STRING, region : STRING, zone : STRING, cores : Int, cpu : Int, memory : Int, mem : Int,
     slots : Int, count : Int, gpus : Int]

\* A request after Simulate has replaced amounts that are not positive by the defaults,
\* which the configuration keeps positive.
Request ==
    [cpu : Nat \ {0}, mem : Nat \ {0}, gpu : BOOLEAN, label : STRING, region : STRING, zone : STRING,
     min : Int, max : Int, idlen : Nat, algorithm : STRING]

ASSUME PlacementAssumption ==
    /\ Fleets \subseteq Seq(Server) /\ Requests \subseteq Request
    /\ PortBase \in Nat \ {0} /\ PortSpan \in Nat

VARIABLES fleet, request, placed

plvars == <<fleet, request, placed>>

NoPlace == [server |-> [node |-> ""], port |-> 0]

\* The largest multiple that the capacities divide.
Scale == 12

-----------------------------------------------------------------------------
(* Servers *)

\* AvailableCPU, AvailableMemoryMB, AvailableSlots: what is left, at least nothing.
AtLeast0(x) == IF x < 0 THEN 0 ELSE x
AvailableCPU(s) == AtLeast0(s.cores - s.cpu)
AvailableMemory(s) == AtLeast0(s.memory - s.mem)
AvailableSlots(s) == AtLeast0(s.slots - s.count)

\* fits; the listed servers are healthy or degraded.
FitsRequest(s, r) ==
    /\ AvailableCPU(s) >= r.cpu
    /\ AvailableMemory(s) >= r.mem
    /\ AvailableSlots(s) > 0
    /\ r.gpu => s.gpus > 0

\* loadScore, times three and the scale.
LoadScore(s) ==
    IF s.cores <= 0 THEN 3 * Scale
    ELSE (Scale * s.cpu) \div s.cores
         + (IF s.memory > 0 THEN (Scale * s.mem) \div s.memory ELSE 0)
         + (IF s.slots > 0 THEN (Scale * s.count) \div s.slots ELSE 0)

\* pickPort: from the length of the deployment id, since no port is ever in use.
PickPort(r) ==
    LET min == IF r.min <= 0 THEN PortBase ELSE r.min
        max == IF r.max <= min THEN min + PortSpan ELSE r.max
    IN  min + (r.idlen % (max - min + 1))

-----------------------------------------------------------------------------
(* Placers *)

\* The first that fits, of the listed servers at the positions that a filter has kept.
FirstFitOf(servers, kept, r) ==
    {servers[i] : i \in {i \in kept : /\ FitsRequest(servers[i], r)
                                     /\ \A j \in kept : j < i => ~FitsRequest(servers[j], r)}}
FirstFit(servers, r) == FirstFitOf(servers, DOMAIN servers, r)

\* The loop that keeps the best so far: a position of 1..n with the least score of those in
\* fitting, the first of them since the comparison is strict, and 0 when none fits.
LeastOf(n, fitting, score) ==
    LET best[k \in 0..n] ==
            IF k = 0 THEN 0
            ELSE IF k \in fitting /\ (best[k - 1] = 0 \/ score[k] < score[best[k - 1]]) THEN k
            ELSE best[k - 1]
    IN  best[n]

Fitting(servers, r) == {i \in DOMAIN servers : FitsRequest(servers[i], r)}
ServerAt(servers, i) == IF i = 0 THEN {} ELSE {servers[i]}

MutBestFit(servers, r) ==
    ServerAt(servers, LeastOf(Len(servers), Fitting(servers, r), [i \in DOMAIN servers |-> servers[i].cores - r.cpu]))

\* The least waste of CPU, or the most; what fits wastes at least 0, more than the -1 that the
\* second loop begins with.
BestFit(servers, r) ==
    ServerAt(servers, LeastOf(Len(servers), Fitting(servers, r), [i \in DOMAIN servers |-> AvailableCPU(servers[i]) - r.cpu]))
WorstFit(servers, r) ==
    ServerAt(servers, LeastOf(Len(servers), Fitting(servers, r), [i \in DOMAIN servers |-> r.cpu - AvailableCPU(servers[i])]))

\* The lists that sort.Slice may leave, for a key by position.
SortedBy(servers, key) ==
    {[i \in DOMAIN servers |-> servers[p[i]]] :
        p \in {p \in Bijection(DOMAIN servers, DOMAIN servers) : \A i, j \in DOMAIN servers : i < j => key[p[i]] <= key[p[j]]}}

ByFreeCPU(servers) == SortedBy(servers, [i \in DOMAIN servers |-> -AvailableCPU(servers[i])])
FirstFitDecreasing(servers, r) == UNION {FirstFit(q, r) : q \in ByFreeCPU(servers)}
BestFitDecreasing(servers, r) == UNION {BestFit(q, r) : q \in ByFreeCPU(servers)}

LeastLoaded(servers, r) == UNION {FirstFit(q, r) : q \in SortedBy(servers, [i \in DOMAIN servers |-> LoadScore(servers[i])])}
MostLoaded(servers, r) == UNION {FirstFit(q, r) : q \in SortedBy(servers, [i \in DOMAIN servers |-> -LoadScore(servers[i])])}
Balanced(servers, r) == LeastLoaded(servers, r)
WarmNode(servers, r) == UNION {FirstFit(q, r) : q \in SortedBy(servers, [i \in DOMAIN servers |-> -servers[i].count])}
ColdNode(servers, r) == UNION {FirstFit(q, r) : q \in SortedBy(servers, [i \in DOMAIN servers |-> servers[i].count])}

\* A filter that would leave nothing is not applied.
Filtered(kept, wanted) == IF kept \cap wanted = {} THEN kept ELSE kept \cap wanted

\* The label names a region or a node; "" is no label.
Labelled(s, r) == s.region = r.label \/ s.node = r.label
LabelledAt(servers, r) == {i \in DOMAIN servers : Labelled(servers[i], r)}
Affinity(servers, r) ==
    FirstFitOf(servers, IF r.label = "" THEN DOMAIN servers ELSE Filtered(DOMAIN servers, LabelledAt(servers, r)), r)
AntiAffinity(servers, r) ==
    FirstFitOf(servers, IF r.label = "" THEN DOMAIN servers ELSE Filtered(DOMAIN servers, DOMAIN servers \ LabelledAt(servers, r)), r)

RegionAwareOf(servers, kept, r) ==
    FirstFitOf(servers, IF r.region = "" THEN kept ELSE Filtered(kept, {i \in kept : servers[i].region = r.region}), r)
RegionAware(servers, r) == RegionAwareOf(servers, DOMAIN servers, r)
ZonedAt(servers, r) == {i \in DOMAIN servers : servers[i].zone = r.zone}
AZAware(servers, r) ==
    RegionAwareOf(servers, IF r.zone = "" THEN DOMAIN servers ELSE Filtered(DOMAIN servers, ZonedAt(servers, r)), r)

\* Only servers with a GPU; none is an error.
GPU(servers, r) == FirstFitOf(servers, {i \in DOMAIN servers : servers[i].gpus > 0}, [r EXCEPT !.gpu = TRUE])

\* The registry; an unknown name means least_loaded.
Select(servers, r) ==
    CASE r.algorithm = "first_fit" -> FirstFit(servers, r)
      [] r.algorithm = "best_fit" -> BestFit(servers, r)
      [] r.algorithm = "worst_fit" -> WorstFit(servers, r)
      [] r.algorithm = "first_fit_decreasing" -> FirstFitDecreasing(servers, r)
      [] r.algorithm = "best_fit_decreasing" -> BestFitDecreasing(servers, r)
      [] r.algorithm = "most_loaded" -> MostLoaded(servers, r)
      [] r.algorithm = "balanced" -> Balanced(servers, r)
      [] r.algorithm = "affinity" -> Affinity(servers, r)
      [] r.algorithm = "anti_affinity" -> AntiAffinity(servers, r)
      [] r.algorithm = "region_aware" -> RegionAware(servers, r)
      [] r.algorithm = "az_aware" -> AZAware(servers, r)
      [] r.algorithm = "gpu" -> GPU(servers, r)
      [] r.algorithm = "warm_node" -> WarmNode(servers, r)
      [] r.algorithm = "cold_node" -> ColdNode(servers, r)
      [] OTHER -> LeastLoaded(servers, r)

-----------------------------------------------------------------------------
(* One placement, as Simulate answers it *)

PlacementInit == fleet \in Fleets /\ request \in Requests /\ placed = {}

Simulate ==
    /\ placed = {}
    /\ \/ \E s \in Select(fleet, request) : placed' = {[server |-> s, port |-> PickPort(request)]}
       \/ Select(fleet, request) = {} /\ placed' = {NoPlace}
    /\ UNCHANGED <<fleet, request>>

PlacementNext == Simulate

PlacementSpec == PlacementInit /\ [][PlacementNext]_plvars

-----------------------------------------------------------------------------
(* Properties *)

\* What a request needs, without the clamps and the filters of the code.
HasRoom(s, r) ==
    /\ s.cpu + r.cpu <= s.cores /\ s.mem + r.mem <= s.memory /\ s.count < s.slots
    /\ (r.gpu \/ r.algorithm = "gpu") => s.gpus > 0

Choosable == {s \in Range(fleet) : HasRoom(s, request)}

\* Every algorithm takes a server with room, and gives up only when none has room or
\* when its filter has dropped the ones that do.
PlacedWithRoom ==
    \A p \in placed :
        IF p # NoPlace THEN p.server \in Choosable
        ELSE Choosable # {} => request.algorithm \in {"affinity", "anti_affinity", "region_aware", "az_aware"}

\* What each algorithm is named for, when s is taken and t has room as well.
NamedFor(s, t, r) ==
    /\ r.algorithm \in {"best_fit", "best_fit_decreasing"} => s.cores - s.cpu <= t.cores - t.cpu
    /\ r.algorithm \in {"worst_fit", "first_fit_decreasing"} => s.cores - s.cpu >= t.cores - t.cpu
    /\ r.algorithm \in {"least_loaded", "balanced"} => LoadScore(s) <= LoadScore(t)
    /\ r.algorithm = "most_loaded" => LoadScore(s) >= LoadScore(t)
    /\ r.algorithm = "warm_node" => s.count >= t.count
    /\ r.algorithm = "cold_node" => s.count <= t.count
    /\ (r.algorithm = "affinity" /\ r.label # "" /\ Labelled(t, r)) => Labelled(s, r)
    /\ (r.algorithm = "anti_affinity" /\ r.label # "" /\ ~Labelled(t, r)) => ~Labelled(s, r)
    /\ (r.algorithm = "region_aware" /\ r.region # "" /\ t.region = r.region) => s.region = r.region
    /\ (r.algorithm = "az_aware" /\ r.zone # "" /\ t.zone = r.zone) => s.zone = r.zone

PlacedBest == \A p \in placed \ {NoPlace} : \A t \in Choosable : NamedFor(p.server, t, request)

\* first_fit takes the first of the list with room.
PlacedFirst ==
    request.algorithm = "first_fit" =>
        \A p \in placed \ {NoPlace} :
            \E i \in DOMAIN fleet : fleet[i] = p.server /\ \A j \in 1..(i - 1) : ~HasRoom(fleet[j], request)

\* The port lies in the range of the request, if that is one.
PortInRange ==
    \A p \in placed \ {NoPlace} :
        (request.min > 0 /\ request.max > request.min) => p.port \in request.min..request.max

\* Whatever the fleet and the request, Select answers with a server that has room, that is
\* what the algorithm is named for, and with a port of the range.
PlacedWell == PlacedWithRoom /\ PlacedBest /\ PlacedFirst /\ PortInRange
=============================================================================
