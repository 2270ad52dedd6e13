----------------------------- MODULE Scheduler -----------------------------
(***************************************************************************)
(* The scheduler: the rows of scheduler_servers and scheduler_reservations, *)
(* the Reserve and Release calls of deploy runs, the heartbeats of the      *)
(* runtime agents and the reconcile loop.                                   *)
(*                                                                         *)
(* Every statement or transaction is a step.  All requests ask for the      *)
(* default CPU and memory (the deployer's client sends neither), so a       *)
(* server's capacity, overcommit included, is the number of requests that   *)
(* fit.  Which of the fitting servers is taken depends on the algorithm and *)
(* is left open.                                                           *)
(***************************************************************************)
EXTENDS Naturals, FiniteSets

CONSTANTS
    Servers,     \* node ids
    NoServer,    \* no node
    Deps,        \* deployments
    Callers,       \* concurrent requests to the scheduler
    Leased,      \* deployments whose runs never overlap: the job lease held
    Capacity,    \* requests that fit on each server
    MaxSlots,    \* max_containers of a server
    MaxMissed,   \* MissedHeartbeats
    MaxCalls,    \* bound: calls in all
    MaxLapses    \* bound: reservations that outlive their TTL

ASSUME SchedulerAssumption ==
    /\ NoServer \notin Servers
    /\ IsFiniteSet(Callers) /\ Callers # {}
    /\ IsFiniteSet(Deps)
    /\ Capacity \in [Servers -> Nat]
    /\ MaxSlots \in Nat
    /\ MaxMissed \in Nat \ {0}
    /\ MaxCalls \in Nat
    /\ MaxLapses \in Nat

VARIABLES
    health,     \* health_status of each server: none before its first heartbeat, up
                \* for healthy and degraded, which nothing tells apart
    reserved,   \* reserved_cpu and reserved_memory_mb, in requests
    count,      \* container_count
    missed,     \* missed_beats
    fresh,      \* last_heartbeat is within the threshold
    status,     \* status of each deployment's reservation, none before the first
    server,     \* its server_id
    stale,      \* its expires_at has passed
    schedOp,         \* the call each request is in
    pass,       \* where the reconcile loop is
    schedCalls,      \* calls so far
    lapses      \* TTLs that ran out so far

servers == <<health, reserved, count, missed, fresh>>
reservations == <<status, server, stale>>
schedVars == <<servers, reservations, schedOp, pass, schedCalls, lapses>>

SchedIdle == [pc |-> "idle"]
Calls == [pc : {"list", "create", "release"}, dep : Deps, on : Servers \cup {NoServer}]

\* The rows of servers and reservations and the calls are well formed, and missed_beats stays
\* within MissedHeartbeats.
SchedTypeOK ==
    /\ health \in [Servers -> {"none", "up", "offline"}]
    /\ reserved \in [Servers -> Nat]
    /\ count \in [Servers -> Nat]
    /\ missed \in [Servers -> 0..MaxMissed]
    /\ fresh \in [Servers -> BOOLEAN]
    /\ status \in [Deps -> {"none", "active", "released"}]
    /\ server \in [Deps -> Servers \cup {NoServer}]
    /\ stale \in [Deps -> BOOLEAN]
    /\ schedOp \in [Callers -> Calls \cup {SchedIdle}]
    /\ pass \in {"expire", "missed", "offline"}
    /\ schedCalls \in Nat
    /\ lapses \in Nat

SchedInit ==
    /\ health = [n \in Servers |-> "none"]
    /\ reserved = [n \in Servers |-> 0]
    /\ count = [n \in Servers |-> 0]
    /\ missed = [n \in Servers |-> 0]
    /\ fresh = [n \in Servers |-> FALSE]
    /\ status = [d \in Deps |-> "none"]
    /\ server = [d \in Deps |-> NoServer]
    /\ stale = [d \in Deps |-> FALSE]
    /\ schedOp = [p \in Callers |-> SchedIdle]
    /\ pass = "expire"
    /\ schedCalls = 0
    /\ lapses = 0

Up(n) == health[n] = "up"
Less1(k) == IF k = 0 THEN 0 ELSE k - 1       \* GREATEST(0, k - 1)

-----------------------------------------------------------------------------
(* Reserve and Release.                                                    *)

SchedCall(p, d) ==
    /\ schedOp[p] = SchedIdle
    /\ d \in Leased => \A q \in Callers : schedOp[q] # SchedIdle => schedOp[q].dep # d
    /\ schedCalls < MaxCalls /\ schedCalls' = schedCalls + 1
SchedReturn(p) == schedOp' = [schedOp EXCEPT ![p] = SchedIdle]

\* Engine.Reserve: an active reservation is answered as it is.
ReserveCheck(p, d) ==
    /\ SchedCall(p, d)
    /\ status[d] # "active"
    /\ schedOp' = [schedOp EXCEPT ![p] = [pc |-> "list", dep |-> d, on |-> NoServer]]
    /\ UNCHANGED <<servers, reservations, pass, lapses>>

\* Mutant: a server that is full by one still fits.
MutFits(n) == Up(n) /\ reserved[n] <= Capacity[n] /\ count[n] < MaxSlots
\* fits on a server that ListHealthyServers returns.
Fits(n) == Up(n) /\ reserved[n] < Capacity[n] /\ count[n] < MaxSlots

ReservePlace(p) ==
    /\ schedOp[p].pc = "list"
    /\ \/ \E n \in Servers :
            /\ Fits(n)
            /\ schedOp' = [schedOp EXCEPT ![p].pc = "create", ![p].on = n]
       \/ ~(\E n \in Servers : Fits(n)) /\ SchedReturn(p)
    /\ UNCHANGED <<servers, reservations, pass, schedCalls, lapses>>

\* CreateReservation, a transaction: the row is inserted or, on a conflict,
\* made active again; the server is charged either way.
\* Mutant: a reservation made again is not charged.
MutCreateReservation(p) ==
    LET d == schedOp[p].dep
        n == schedOp[p].on IN
    /\ schedOp[p].pc = "create"
    /\ status' = [status EXCEPT ![d] = "active"]
    /\ server' = [server EXCEPT ![d] = n]
    /\ stale' = [stale EXCEPT ![d] = FALSE]
    /\ reserved' = [reserved EXCEPT ![n] = IF status[d] = "none" THEN @ + 1 ELSE @]
    /\ count' = [count EXCEPT ![n] = @ + 1]
    /\ SchedReturn(p)
    /\ UNCHANGED <<health, missed, fresh, pass, schedCalls, lapses>>
CreateReservation(p) ==
    LET d == schedOp[p].dep
        n == schedOp[p].on IN
    /\ schedOp[p].pc = "create"
    /\ status' = [status EXCEPT ![d] = "active"]
    /\ server' = [server EXCEPT ![d] = n]
    /\ stale' = [stale EXCEPT ![d] = FALSE]
    /\ reserved' = [reserved EXCEPT ![n] = @ + 1]
    /\ count' = [count EXCEPT ![n] = @ + 1]
    /\ SchedReturn(p)
    /\ UNCHANGED <<health, missed, fresh, pass, schedCalls, lapses>>

\* ReleaseReservation: the read of the row, without a lock; nothing to do unless
\* it is active.
ReleaseSelect(p, d) ==
    /\ SchedCall(p, d)
    /\ status[d] = "active"
    /\ schedOp' = [schedOp EXCEPT ![p] = [pc |-> "release", dep |-> d, on |-> server[d]]]
    /\ UNCHANGED <<servers, reservations, pass, lapses>>

\* The rest of the transaction: the row if it is still active, and the server
\* in any case.
ReleaseWrite(p) ==
    LET d == schedOp[p].dep
        n == schedOp[p].on IN
    /\ schedOp[p].pc = "release"
    /\ status' = [status EXCEPT ![d] = IF @ = "active" THEN "released" ELSE @]
    /\ reserved' = [reserved EXCEPT ![n] = Less1(@)]
    /\ count' = [count EXCEPT ![n] = Less1(@)]
    /\ SchedReturn(p)
    /\ UNCHANGED <<health, missed, fresh, server, stale, pass, schedCalls, lapses>>

\* The client gives up or the process dies: what is not committed is undone.
Abort(p) ==
    /\ schedOp[p] # SchedIdle
    /\ SchedReturn(p)
    /\ UNCHANGED <<servers, reservations, pass, schedCalls, lapses>>

-----------------------------------------------------------------------------
(* Heartbeats and the reconcile loop.                                      *)

Heartbeat(n, c) ==
    /\ health' = [health EXCEPT ![n] = "up"]
    /\ count' = [count EXCEPT ![n] = c]
    /\ missed' = [missed EXCEPT ![n] = 0]
    /\ fresh' = [fresh EXCEPT ![n] = TRUE]
    /\ UNCHANGED <<reserved, reservations, schedOp, pass, schedCalls, lapses>>

\* Time passes without a heartbeat; a reservation outlives its TTL.
Silence(n) ==
    /\ fresh[n]
    /\ fresh' = [fresh EXCEPT ![n] = FALSE]
    /\ UNCHANGED <<health, reserved, count, missed, reservations, schedOp, pass, schedCalls, lapses>>
Lapse(d) ==
    /\ status[d] = "active" /\ ~stale[d]
    /\ lapses < MaxLapses /\ lapses' = lapses + 1
    /\ stale' = [stale EXCEPT ![d] = TRUE]
    /\ UNCHANGED <<servers, status, server, schedOp, pass, schedCalls>>

\* Reconcile: ExpireStaleReservations writes while its own query is still open on
\* the transaction's connection, which the driver refuses, so with a stale
\* reservation the pass ends there with nothing changed.
\* Mutant: a pass that has nothing to expire ends there.
MutReconcileExpire ==
    /\ pass = "expire"
    /\ UNCHANGED schedVars
ReconcileExpire ==
    /\ pass = "expire"
    /\ ~(\E d \in Deps : status[d] = "active" /\ stale[d])
    /\ pass' = "missed"
    /\ UNCHANGED <<servers, reservations, schedOp, schedCalls, lapses>>

\* MarkMissedHeartbeats, its two statements.
MarkMissed ==
    /\ pass = "missed"
    /\ missed' = [n \in Servers |-> IF Up(n) /\ ~fresh[n] THEN missed[n] + 1 ELSE missed[n]]
    /\ pass' = "offline"
    /\ UNCHANGED <<health, reserved, count, fresh, reservations, schedOp, schedCalls, lapses>>
MarkOffline ==
    /\ pass = "offline"
    /\ health' = [n \in Servers |->
                    IF missed[n] >= MaxMissed /\ health[n] # "none" THEN "offline" ELSE health[n]]
    /\ pass' = "expire"
    /\ UNCHANGED <<reserved, count, missed, fresh, reservations, schedOp, schedCalls, lapses>>

Reconcile == ReconcileExpire \/ MarkMissed \/ MarkOffline

SchedNext ==
    \/ \E p \in Callers :
        \/ \E d \in Deps : ReserveCheck(p, d) \/ ReleaseSelect(p, d)
        \/ ReservePlace(p)
        \/ CreateReservation(p)
        \/ ReleaseWrite(p)
        \/ Abort(p)
    \/ \E n \in Servers, c \in 0..MaxSlots : Heartbeat(n, c)
    \/ \E n \in Servers : Silence(n)
    \/ \E d \in Deps : Lapse(d)
    \/ ReconcileExpire
    \/ MarkMissed
    \/ MarkOffline

SchedSpec == SchedInit /\ [][SchedNext]_schedVars

\* The ticker keeps the loop going; nothing makes agents, clients or time move.
SchedFairSpec == SchedSpec /\ WF_schedVars(Reconcile)

-----------------------------------------------------------------------------
(* Properties.                                                             *)

Active(n) == {d \in Deps : status[d] = "active" /\ server[d] = n}
Placing(n) == {p \in Callers : schedOp[p].pc = "create" /\ schedOp[p].on = n}

\* As long as the calls of one deployment do not overlap, what the servers are
\* charged is what the active reservations hold, through aborted calls, lapsed
\* TTLs and servers that come and go.
Accounting ==
    Leased = Deps => \A n \in Servers : reserved[n] = Cardinality(Active(n))

\* Reserve reads the free capacity before the transaction that takes it.  What
\* concurrent requests can overrun a server by is one request each.
OverrunBounded ==
    \A n \in Servers : reserved[n] + Cardinality(Placing(n)) < Capacity[n] + Cardinality(Callers)

\* A server is only taken offline while it is silent, even when a heartbeat comes
\* between the two statements of MarkMissedHeartbeats.
OfflineOnlySilent ==
    [][\A n \in Servers : (Up(n) /\ health'[n] = "offline") => ~fresh[n]]_schedVars

\* A server that stays silent is taken offline, unless a stale reservation stops
\* every pass before it looks at heartbeats.
SilentGoesOffline ==
    \A n \in Servers :
        <>[](~fresh[n] /\ \A d \in Deps : ~(status[d] = "active" /\ stale[d]))
            => <>[](~Up(n))
=============================================================================
