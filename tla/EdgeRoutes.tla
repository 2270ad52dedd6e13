----------------------------- MODULE EdgeRoutes -----------------------------
(***************************************************************************)
(* The proxy manager's routes: the rows of proxy_routes, the configuration *)
(* of the Caddy server in front of the containers, and the three parties   *)
(* that write both: calls of the route engine (proxy/route), calls of the  *)
(* traffic switcher (proxy/traffic), and the reconciler's route pass       *)
(* (proxy/recovery), which runs beside them.                               *)
(*                                                                         *)
(* Every statement on a row and every request to Caddy is a step.  Only    *)
(* the fields that decide where a request goes are kept.                   *)
(***************************************************************************)
EXTENDS Naturals, FiniteSets

CONSTANTS
    Hosts,       \* hostnames
    Upstreams,   \* container addresses
    NoUp,        \* the empty upstream
    Tags,        \* Caddy's @id tags
    Tag,         \* the tag of a hostname
    Procs,       \* concurrent requests to the proxy manager
    MaxOps,      \* bound: calls in all
    MaxFaults    \* bound: failing requests and statements, restarts

ASSUME EdgeAssumption ==
    /\ NoUp \notin Upstreams
    /\ Tag \in [Hosts -> Tags]
    /\ MaxOps \in Nat
    /\ MaxFaults \in Nat

VARIABLES
    row,     \* the newest proxy_routes row of each hostname
    caddy,   \* the route Caddy holds under each tag
    op,      \* the call each request is in
    todo,    \* configurations the reconciler has read and not yet pushed
    posting, \* the one it is appending after a failed PATCH, if any
    given,   \* history: upstreams a row of the hostname, deleted ones too, has had
    calls,   \* calls so far
    faults   \* failures so far

vars == <<row, caddy, op, todo, posting, given, calls, faults>>

RouteStatus == {"pending", "active", "draining", "removed", "error"}
Ups == Upstreams \cup {NoUp}
Config == [host : Hosts, up : Ups, canary : Ups]
NoConfig == [host |-> "none"]

\* gen tells the rows of one hostname apart: a hostname deleted and created again
\* gets a new id.  A weight matters only by being positive.
Row == [gen : Nat, live : BOOLEAN, status : RouteStatus, up : Ups, prev : Ups,
        weighted : BOOLEAN]
NoRow == [gen |-> 0, live |-> FALSE, status |-> "removed", up |-> NoUp, prev |-> NoUp,
          weighted |-> FALSE]

\* A call keeps what it has read of the row (rt) and what it is going to write.
Idle == [pc |-> "idle"]
Busy == [pc : {"load", "write", "upsert", "patch", "post", "status", "caddy", "soft"},
         kind : {"create", "update", "switch", "delete"}, host : Hosts, rt : Row,
         ok : BOOLEAN]

\* Rows, calls, the reconciler's list and Caddy's objects are what the engine, the switcher and
\* the client write.
TypeOK ==
    /\ row \in [Hosts -> Row]
    /\ caddy \in [Tags -> Config \cup {NoConfig}]
    /\ op \in [Procs -> Busy \cup {Idle}]
    /\ todo \subseteq Config
    /\ posting \subseteq Config
    /\ given \in [Hosts -> SUBSET Upstreams]
    /\ calls \in Nat
    /\ faults \in Nat

Init ==
    /\ row = [h \in Hosts |-> NoRow]
    /\ caddy = [t \in Tags |-> NoConfig]
    /\ op = [p \in Procs |-> Idle]
    /\ todo = {}
    /\ posting = {}
    /\ given = [h \in Hosts |-> {}]
    /\ calls = 0
    /\ faults = 0

Fault == faults < MaxFaults /\ faults' = faults + 1
Call(p) == op[p] = Idle /\ calls < MaxOps /\ calls' = calls + 1
Enter(p, k, pc, h, rt) ==
    op' = [op EXCEPT ![p] = [pc |-> pc, kind |-> k, host |-> h, rt |-> rt, ok |-> TRUE]]
Goto(p, pc) == op' = [op EXCEPT ![p].pc = pc]
Return(p) == op' = [op EXCEPT ![p] = Idle]
SetRow(h, r) ==
    /\ row' = [row EXCEPT ![h] = r]
    /\ given' = [given EXCEPT ![h] = @ \cup ({r.up} \ {NoUp})]

-----------------------------------------------------------------------------
(* Caddy.                                                                  *)

\* toCaddyConfig and buildRoute: the second upstream only with a weight.
Cfg(h, r) == [host |-> h, up |-> r.up, canary |-> IF r.weighted THEN r.prev ELSE NoUp]

\* caddy.Client.UpsertRoute: PATCH of the object with the tag; on any error, POST
\* of a new object.  Caddy knows at most one object of a tag: it answers a PATCH
\* without one and a POST with one by an error.  A request or its answer may be
\* lost; the client takes both for an error.
Known(c) == caddy[Tag[c.host]] # NoConfig
SetCaddy(c) == caddy' = [caddy EXCEPT ![Tag[c.host]] = c]

PatchOk(c) == Known(c) /\ SetCaddy(c) /\ UNCHANGED faults
PatchError(c) ==
    \/ ~Known(c) /\ UNCHANGED <<caddy, faults>>
    \/ Fault /\ (UNCHANGED caddy \/ (Known(c) /\ SetCaddy(c)))
PostOk(c) == ~Known(c) /\ SetCaddy(c) /\ UNCHANGED faults
PostError(c) ==
    \/ Known(c) /\ UNCHANGED <<caddy, faults>>
    \/ Fault /\ (UNCHANGED caddy \/ (~Known(c) /\ SetCaddy(c)))

-----------------------------------------------------------------------------
(* Route engine.                                                           *)

\* Engine.Create: UpsertRoute, a new row or the live one overwritten; then the
\* push; then the status, whose error is ignored.
CreateRoute(p, h, u) ==
    LET r == [gen |-> IF row[h].live THEN row[h].gen ELSE row[h].gen + 1, live |-> TRUE,
              status |-> "pending", up |-> u, prev |-> NoUp, weighted |-> FALSE] IN
    /\ Call(p)
    /\ SetRow(h, r)
    /\ Enter(p, "create", "patch", h, r)
    /\ UNCHANGED <<caddy, todo, posting, faults>>

\* SetRouteStatus by id, deleted or not.  Create ignores its error; Delete ends.
SetRouteStatus(p) ==
    LET o == op[p]
        status == IF o.kind = "delete" THEN "draining" ELSE IF o.ok THEN "active" ELSE "error"
    IN
    /\ o.pc = "status"
    /\ \/ /\ row' = [row EXCEPT ![o.host].status =
                        IF row[o.host].gen = o.rt.gen THEN status ELSE @]
          /\ IF o.kind = "delete" THEN Goto(p, "caddy") ELSE Return(p)
          /\ UNCHANGED faults
       \/ Fault /\ Return(p) /\ UNCHANGED row
    /\ UNCHANGED <<caddy, todo, posting, given, calls>>

\* Engine.Update: the whole row is read, changed and written back.
UpdateRead(p, h, u) ==
    /\ Call(p)
    /\ row[h].live
    /\ Enter(p, "update", "upsert", h, [row[h] EXCEPT !.up = IF u = NoUp THEN @ ELSE u])
    /\ UNCHANGED <<row, caddy, todo, posting, given, faults>>
UpdateUpsert(p) ==
    LET o == op[p] IN
    /\ o.pc = "upsert"
    /\ IF row[o.host].live
       THEN SetRow(o.host, [o.rt EXCEPT !.gen = row[o.host].gen]) /\ Goto(p, "patch")
       ELSE Return(p) /\ UNCHANGED <<row, given>>
    /\ UNCHANGED <<caddy, todo, posting, calls, faults>>

\* Engine.Delete: mark the row draining, remove the route from Caddy whether that
\* works or not, and delete the row.
DeleteRead(p, h) ==
    /\ Call(p)
    /\ row[h].live
    /\ Enter(p, "delete", "status", h, row[h])
    /\ UNCHANGED <<row, caddy, todo, posting, given, faults>>
DeleteCaddy(p) ==
    LET o == op[p] IN
    /\ o.pc = "caddy"
    /\ \/ caddy' = [caddy EXCEPT ![Tag[o.host]] = NoConfig] /\ UNCHANGED faults
       \/ UNCHANGED caddy /\ Fault
    /\ Goto(p, "soft")
    /\ UNCHANGED <<row, todo, posting, given, calls>>
SoftDeleteRoute(p) ==
    LET o == op[p] IN
    /\ o.pc = "soft"
    /\ row' = [row EXCEPT ![o.host] =
                 IF @.gen = o.rt.gen THEN [@ EXCEPT !.live = FALSE, !.status = "removed"] ELSE @]
    /\ Return(p)
    /\ UNCHANGED <<caddy, todo, posting, given, calls, faults>>

-----------------------------------------------------------------------------
(* Traffic switcher.                                                       *)

\* What each call asks Switch for: the new and the previous upstream (NoUp: take
\* the row's) and whether a weight applies.  A direct Switch leaves previous and
\* mode to their defaults; one that fills them in asks for a blue-green or canary.
Wanted(h, new, prev, weighted) ==
    [row[h] EXCEPT !.up = new, !.prev = prev, !.weighted = weighted]

SwitchTo(p, h, u) ==
    /\ Call(p)
    /\ Enter(p, "switch", "load", h, Wanted(h, u, NoUp, FALSE))
    /\ UNCHANGED <<row, caddy, todo, posting, given, faults>>
BlueGreen(p, h, u) ==
    /\ Call(p)
    /\ row[h].live
    /\ Enter(p, "switch", "load", h, Wanted(h, u, row[h].up, FALSE))
    /\ UNCHANGED <<row, caddy, todo, posting, given, faults>>
Canary(p, h, u) ==
    /\ Call(p)
    /\ row[h].live
    /\ Enter(p, "switch", "load", h, Wanted(h, row[h].up, u, TRUE))
    /\ UNCHANGED <<row, caddy, todo, posting, given, faults>>
Rollback(p, h) ==
    /\ Call(p)
    /\ row[h].live /\ row[h].prev # NoUp
    /\ Enter(p, "switch", "load", h, Wanted(h, row[h].prev, row[h].up, FALSE))
    /\ UNCHANGED <<row, caddy, todo, posting, given, faults>>

\* Switch: read the row again, write the switch to it, push.
\* Mutant: pushed before it is persisted.
MutSwitchLoad(p) ==
    LET o == op[p] IN
    /\ o.pc = "load"
    /\ IF row[o.host].live
       THEN op' = [op EXCEPT ![p].pc = "patch", ![p].rt.gen = row[o.host].gen,
                             ![p].rt.prev = IF @ = NoUp THEN row[o.host].up ELSE @]
       ELSE Return(p)
    /\ UNCHANGED <<row, caddy, todo, posting, given, calls, faults>>
SwitchLoad(p) ==
    LET o == op[p] IN
    /\ o.pc = "load"
    /\ IF row[o.host].live
       THEN op' = [op EXCEPT ![p].pc = "write", ![p].rt.gen = row[o.host].gen,
                             ![p].rt.prev = IF @ = NoUp THEN row[o.host].up ELSE @]
       ELSE Return(p)
    /\ UNCHANGED <<row, caddy, todo, posting, given, calls, faults>>

UpdateRouteTraffic(p) ==
    LET o == op[p] IN
    /\ o.pc = "write"
    /\ row' = [row EXCEPT ![o.host] =
                 IF @.gen = o.rt.gen
                 THEN [@ EXCEPT !.up = o.rt.up, !.weighted = o.rt.weighted, !.prev = o.rt.prev]
                 ELSE @]
    /\ given' = [given EXCEPT ![o.host] = @ \cup {o.rt.up}]
    /\ Goto(p, "patch")
    /\ UNCHANGED <<caddy, todo, posting, calls, faults>>

\* The push that ends Create, Update and Switch.
Pushed(p, ok) ==
    IF op[p].kind = "create" THEN op' = [op EXCEPT ![p].pc = "status", ![p].ok = ok]
                             ELSE Return(p)
Patch(p) ==
    LET c == Cfg(op[p].host, op[p].rt) IN
    /\ op[p].pc = "patch"
    /\ (PatchOk(c) /\ Pushed(p, TRUE)) \/ (PatchError(c) /\ Goto(p, "post"))
    /\ UNCHANGED <<row, todo, posting, given, calls>>
Post(p) ==
    LET c == Cfg(op[p].host, op[p].rt) IN
    /\ op[p].pc = "post"
    /\ (PostOk(c) /\ Pushed(p, TRUE)) \/ (PostError(c) /\ Pushed(p, FALSE))
    /\ UNCHANGED <<row, todo, posting, given, calls>>

\* Drain: the status only.
Drain(h) ==
    /\ row[h].live /\ row[h].status # "draining"
    /\ calls < MaxOps /\ calls' = calls + 1
    /\ row' = [row EXCEPT ![h].status = "draining"]
    /\ UNCHANGED <<caddy, op, todo, posting, given, faults>>

-----------------------------------------------------------------------------
(* Reconciler: Engine.ReconcileAll, over and over.                         *)

\* Mutant: a draining route is not kept up while it drains.
MutListActiveRoutes == {h \in Hosts : row[h].live /\ row[h].status = "active"}
ListActiveRoutes == {h \in Hosts : row[h].live /\ row[h].status \in {"active", "draining"}}

ReconcileList ==
    /\ todo = {} /\ posting = {}
    /\ todo' = {Cfg(h, row[h]) : h \in ListActiveRoutes}
    /\ UNCHANGED <<row, caddy, op, posting, given, calls, faults>>
ReconcilePatch ==
    \E c \in todo :
        /\ posting = {}
        /\ (PatchOk(c) /\ UNCHANGED posting) \/ (PatchError(c) /\ posting' = {c})
        /\ todo' = todo \ {c}
        /\ UNCHANGED <<row, op, given, calls>>
ReconcilePost ==
    \E c \in posting :
        /\ PostOk(c) \/ PostError(c)
        /\ posting' = {}
        /\ UNCHANGED <<row, op, todo, given, calls>>

-----------------------------------------------------------------------------
(* The proxy manager dies with everything it was doing; Caddy comes back    *)
(* with no routes.                                                          *)

Crash ==
    /\ Fault
    /\ op' = [p \in Procs |-> Idle]
    /\ todo' = {} /\ posting' = {}
    /\ UNCHANGED <<row, caddy, given, calls>>
CaddyRestart ==
    /\ Fault
    /\ caddy' = [t \in Tags |-> NoConfig]
    /\ UNCHANGED <<row, op, todo, posting, given, calls>>

Progress(p) ==
    \/ SetRouteStatus(p)
    \/ UpdateUpsert(p)
    \/ DeleteCaddy(p)
    \/ SoftDeleteRoute(p)
    \/ SwitchLoad(p)
    \/ UpdateRouteTraffic(p)
    \/ Patch(p)
    \/ Post(p)

Start(p, h) ==
    \/ \E u \in Upstreams :
         CreateRoute(p, h, u) \/ SwitchTo(p, h, u) \/ BlueGreen(p, h, u) \/ Canary(p, h, u)
    \/ \E u \in Ups : UpdateRead(p, h, u)
    \/ Rollback(p, h)
    \/ DeleteRead(p, h)

Next ==
    \/ \E p \in Procs : Progress(p) \/ \E h \in Hosts : Start(p, h)
    \/ \E h \in Hosts : Drain(h)
    \/ ReconcileList
    \/ ReconcilePatch
    \/ ReconcilePost
    \/ Crash
    \/ CaddyRestart

Spec == Init /\ [][Next]_vars

\* A call that has begun goes on, and the reconciler's ticker keeps firing.
Fairness ==
    /\ \A p \in Procs : WF_vars(Progress(p))
    /\ WF_vars(ReconcileList)
    /\ WF_vars(ReconcilePatch)
    /\ WF_vars(ReconcilePost)

FairSpec == Spec /\ Fairness

-----------------------------------------------------------------------------
(* Properties.                                                             *)

\* The database first: whatever the order in which calls, the reconciler and lost
\* answers reach Caddy, it never sends traffic to an upstream that no row of the
\* hostname, live or deleted, has had.
DatabaseFirst ==
    \A h \in Hosts : LET c == caddy[Tag[h]] IN
        (c # NoConfig /\ c.host = h) => c.up \in given[h]

\* Rollback reverts to something: outside a canary the recorded previous upstream
\* is one the hostname has been served from, through concurrent switches too.
RollbackTargetKnown ==
    \A h \in Hosts :
        (row[h].live /\ ~row[h].weighted /\ row[h].prev # NoUp) => row[h].prev \in given[h]

\* The reconciler heals: once the calls and faults are over, Caddy comes to hold,
\* and keeps, what the row of every active or draining hostname says.
Converges ==
    <>[](\A h \in Hosts :
            (row[h].live /\ row[h].status \in {"active", "draining"})
                => caddy[Tag[h]] = Cfg(h, row[h]))
=============================================================================
