----------------------------- MODULE EdgeProofs -----------------------------
(* Proofs about the proxy manager's routes and about the scheduler, for any   *)
(* hostnames, upstreams and tags, any fleet and deployments, any number of    *)
(* concurrent requests, and any failures.                                     *)
EXTENDS EdgeRoutes, Scheduler, FiniteSetTheorems, TLAPS

USE EdgeAssumption

-----------------------------------------------------------------------------
(* The inductive invariant: every upstream that can still reach Caddy, or the *)
(* previous upstream of a row, is in the history of its hostname.            *)

\* A live row serves from a known upstream and, outside a canary, came from one.
RowsKnown ==
    \A h \in Hosts : row[h].live =>
        /\ row[h].up \in given[h]
        /\ (~row[h].weighted /\ row[h].prev # NoUp) => row[h].prev \in given[h]

\* What a call is about to write to a row names an upstream, and what it is about to push
\* has been written.
CallsKnown ==
    \A p \in Procs :
        /\ op[p].pc \in {"upsert", "load", "write"} =>
            /\ op[p].rt.up \in Upstreams
            /\ (~op[p].rt.weighted /\ op[p].rt.prev # NoUp) => op[p].rt.prev \in given[op[p].host]
        /\ op[p].pc \in {"patch", "post"} => op[p].rt.up \in given[op[p].host]

\* What the reconciler has read, and what Caddy holds, was written before.
PushesKnown ==
    /\ \A c \in todo \cup posting : c.up \in given[c.host]
    /\ \A t \in Tags : caddy[t] # NoConfig => (caddy[t] \in Config /\ caddy[t].up \in given[caddy[t].host])

EdgeInv == TypeOK /\ RowsKnown /\ CallsKnown /\ PushesKnown

\* Empty tables and an empty Caddy satisfy the invariant.
LEMMA EdgeInvInit == Init => EdgeInv
<1> SUFFICES ASSUME Init PROVE EdgeInv
  OBVIOUS
<1>1. NoRow \in Row
  BY DEF NoRow, Row, RouteStatus, Ups
<1>2. TypeOK
  BY <1>1 DEF Init, TypeOK
<1>3. RowsKnown /\ CallsKnown /\ PushesKnown
  BY DEF Init, RowsKnown, CallsKnown, PushesKnown, NoRow, Idle
<1> QED
  BY <1>2, <1>3 DEF EdgeInv

-----------------------------------------------------------------------------
(* Calls.                                                                  *)

\* A call that is at one of its positions is not idle, and has the type of one.
LEMMA BusyCall ==
  ASSUME TypeOK, NEW p \in Procs, op[p].pc # "idle"
  PROVE op[p] \in Busy
  BY DEF TypeOK, Idle

\* The configuration of a row has its type, and its upstream is the row's.
LEMMA CfgTyped ==
  ASSUME NEW h \in Hosts, NEW r \in Row
  PROVE Cfg(h, r) \in Config /\ Cfg(h, r).up = r.up /\ Cfg(h, r).host = h
  BY DEF Cfg, Config, Row, Ups

\* What a switch asks for is a row with other upstreams.
LEMMA WantedTyped ==
  ASSUME TypeOK, NEW h \in Hosts, NEW new \in Ups, NEW prev \in Ups, NEW w \in BOOLEAN
  PROVE /\ Wanted(h, new, prev, w) \in Row
        /\ Wanted(h, new, prev, w).up = new /\ Wanted(h, new, prev, w).prev = prev
        /\ Wanted(h, new, prev, w).weighted = w
  BY DEF Wanted, TypeOK, Row

\* A call that begins has the type of one.
LEMMA EnterTyped ==
  ASSUME TypeOK, NEW p \in Procs, NEW k \in {"create", "update", "switch", "delete"}, NEW h \in Hosts, NEW r \in Row,
         NEW pc \in {"load", "upsert", "patch", "status"}, Enter(p, k, pc, h, r), Call(p)
  PROVE op' \in [Procs -> Busy \cup {Idle}] /\ calls' \in Nat
  BY DEF Enter, Call, TypeOK, Busy

\* A push, or one that is lost, leaves under every tag a configuration that was there or the
\* pushed one.
LEMMA PushOutcome ==
  ASSUME TypeOK, NEW c \in Config, PatchOk(c) \/ PatchError(c) \/ PostOk(c) \/ PostError(c)
  PROVE /\ caddy' \in [Tags -> Config \cup {NoConfig}]
        /\ faults' \in Nat
        /\ \A t \in Tags : caddy'[t] = caddy[t] \/ caddy'[t] = c
<1>1. Tag[c.host] \in Tags
  BY DEF Config
<1>2. caddy' = caddy \/ caddy' = [caddy EXCEPT ![Tag[c.host]] = c]
  BY DEF PatchOk, PatchError, PostOk, PostError, SetCaddy
<1>3. faults' = faults \/ faults' = faults + 1
  BY DEF PatchOk, PatchError, PostOk, PostError, Fault
<1> QED
  BY <1>1, <1>2, <1>3 DEF TypeOK

\* Create writes the upstream to the row before it pushes it.
LEMMA CreateRouteKeepsInv ==
  ASSUME EdgeInv, NEW p \in Procs, NEW h \in Hosts, NEW u \in Upstreams, CreateRoute(p, h, u)
  PROVE EdgeInv'
<1> USE DEF EdgeInv
<1>2. TypeOK'
  BY SMTT(30) DEF CreateRoute, Call, SetRow, Enter, TypeOK, Row, RouteStatus, Ups, Busy, Idle
<1>3. RowsKnown'
  BY SMTT(30) DEF CreateRoute, Call, SetRow, Enter, TypeOK, RowsKnown, CallsKnown, Row, Ups, Busy
<1>4. CallsKnown'
  BY SMTT(30) DEF CreateRoute, Call, SetRow, Enter, TypeOK, RowsKnown, CallsKnown, Row, Ups, Busy, Idle
<1>5. PushesKnown'
  BY SMTT(30) DEF CreateRoute, Call, SetRow, Enter, TypeOK, PushesKnown, Config, Busy
<1> QED
  BY <1>2, <1>3, <1>4, <1>5

\* Update reads a live row, which has an upstream.
LEMMA UpdateReadKeepsInv ==
  ASSUME EdgeInv, NEW p \in Procs, NEW h \in Hosts, NEW u \in Ups, UpdateRead(p, h, u)
  PROVE EdgeInv'
<1> USE DEF EdgeInv
<1>2. TypeOK'
  BY SMTT(30) DEF UpdateRead, Call, Enter, TypeOK, Row, RouteStatus, Ups, Busy, Idle
<1>3. RowsKnown'
  BY SMTT(30) DEF UpdateRead, Call, Enter, TypeOK, RowsKnown, CallsKnown, Row, Ups, Busy
<1>4. CallsKnown'
  BY SMTT(30) DEF UpdateRead, Call, Enter, TypeOK, RowsKnown, CallsKnown, Row, Ups, Busy, Idle
<1>5. PushesKnown'
  BY SMTT(30) DEF UpdateRead, Call, Enter, TypeOK, PushesKnown, Config, Busy
<1> QED
  BY <1>2, <1>3, <1>4, <1>5

\* A plain switch names its upstream.
LEMMA SwitchToKeepsInv ==
  ASSUME EdgeInv, NEW p \in Procs, NEW h \in Hosts, NEW u \in Upstreams, SwitchTo(p, h, u)
  PROVE EdgeInv'
<1> USE DEF EdgeInv
<1>2. TypeOK'
  <2>1. u \in Ups /\ NoUp \in Ups
    BY DEF TypeOK, Row, Ups
  <2>2. op' \in [Procs -> Busy \cup {Idle}] /\ calls' \in Nat
    BY <2>1, WantedTyped, EnterTyped DEF SwitchTo
  <2> QED
    BY <2>2 DEF SwitchTo, TypeOK
<1>3. RowsKnown'
  BY SMTT(30) DEF SwitchTo, Call, Enter, Wanted, TypeOK, RowsKnown, CallsKnown, Row, Ups, Busy
<1>4. CallsKnown'
  BY SMTT(30) DEF SwitchTo, Call, Enter, Wanted, TypeOK, RowsKnown, CallsKnown, Row, Ups, Busy, Idle
<1>5. PushesKnown'
  BY SMTT(30) DEF SwitchTo, Call, Enter, Wanted, TypeOK, PushesKnown, Config, Busy
<1> QED
  BY <1>2, <1>3, <1>4, <1>5

\* A blue-green switch records the upstream it leaves.
LEMMA BlueGreenKeepsInv ==
  ASSUME EdgeInv, NEW p \in Procs, NEW h \in Hosts, NEW u \in Upstreams, BlueGreen(p, h, u)
  PROVE EdgeInv'
<1> USE DEF EdgeInv
<1>2. TypeOK'
  <2>1. u \in Ups /\ row[h].up \in Ups
    BY DEF TypeOK, Row, Ups
  <2>2. op' \in [Procs -> Busy \cup {Idle}] /\ calls' \in Nat
    BY <2>1, WantedTyped, EnterTyped DEF BlueGreen
  <2> QED
    BY <2>2 DEF BlueGreen, TypeOK
<1>3. RowsKnown'
  BY SMTT(30) DEF BlueGreen, Call, Enter, Wanted, TypeOK, RowsKnown, CallsKnown, Row, Ups, Busy
<1>4. CallsKnown'
  BY SMTT(30) DEF BlueGreen, Call, Enter, Wanted, TypeOK, RowsKnown, CallsKnown, Row, Ups, Busy, Idle
<1>5. PushesKnown'
  BY SMTT(30) DEF BlueGreen, Call, Enter, Wanted, TypeOK, PushesKnown, Config, Busy
<1> QED
  BY <1>2, <1>3, <1>4, <1>5

\* A canary keeps the upstream, and records the new one with a weight.
LEMMA CanaryKeepsInv ==
  ASSUME EdgeInv, NEW p \in Procs, NEW h \in Hosts, NEW u \in Upstreams, Canary(p, h, u)
  PROVE EdgeInv'
<1> USE DEF EdgeInv
<1>2. TypeOK'
  <2>1. row[h].up \in Ups /\ u \in Ups
    BY DEF TypeOK, Row, Ups
  <2>2. op' \in [Procs -> Busy \cup {Idle}] /\ calls' \in Nat
    BY <2>1, WantedTyped, EnterTyped DEF Canary
  <2> QED
    BY <2>2 DEF Canary, TypeOK
<1>3. RowsKnown'
  BY SMTT(30) DEF Canary, Call, Enter, Wanted, TypeOK, RowsKnown, CallsKnown, Row, Ups, Busy
<1>4. CallsKnown'
  BY SMTT(30) DEF Canary, Call, Enter, Wanted, TypeOK, RowsKnown, CallsKnown, Row, Ups, Busy, Idle
<1>5. PushesKnown'
  BY SMTT(30) DEF Canary, Call, Enter, Wanted, TypeOK, PushesKnown, Config, Busy
<1> QED
  BY <1>2, <1>3, <1>4, <1>5

\* A rollback swaps the two upstreams of a live row.
LEMMA RollbackKeepsInv ==
  ASSUME EdgeInv, NEW p \in Procs, NEW h \in Hosts, Rollback(p, h)
  PROVE EdgeInv'
<1> USE DEF EdgeInv
<1>2. TypeOK'
  <2>1. row[h].prev \in Ups /\ row[h].up \in Ups
    BY DEF TypeOK, Row, Ups
  <2>2. op' \in [Procs -> Busy \cup {Idle}] /\ calls' \in Nat
    BY <2>1, WantedTyped, EnterTyped DEF Rollback
  <2> QED
    BY <2>2 DEF Rollback, TypeOK
<1>3. RowsKnown'
  BY SMTT(30) DEF Rollback, Call, Enter, Wanted, TypeOK, RowsKnown, CallsKnown, Row, Ups, Busy
<1>4. CallsKnown'
  BY SMTT(30) DEF Rollback, Call, Enter, Wanted, TypeOK, RowsKnown, CallsKnown, Row, Ups, Busy, Idle
<1>5. PushesKnown'
  BY SMTT(30) DEF Rollback, Call, Enter, Wanted, TypeOK, PushesKnown, Config, Busy
<1> QED
  BY <1>2, <1>3, <1>4, <1>5

\* Delete keeps what it has read.
LEMMA DeleteReadKeepsInv ==
  ASSUME EdgeInv, NEW p \in Procs, NEW h \in Hosts, DeleteRead(p, h)
  PROVE EdgeInv'
<1> USE DEF EdgeInv
<1>2. TypeOK'
  BY SMTT(30) DEF DeleteRead, Call, Enter, TypeOK, Row, RouteStatus, Ups, Busy, Idle
<1>3. RowsKnown'
  BY SMTT(30) DEF DeleteRead, Call, Enter, TypeOK, RowsKnown, CallsKnown, Row, Ups, Busy
<1>4. CallsKnown'
  BY SMTT(30) DEF DeleteRead, Call, Enter, TypeOK, RowsKnown, CallsKnown, Row, Ups, Busy, Idle
<1>5. PushesKnown'
  BY SMTT(30) DEF DeleteRead, Call, Enter, TypeOK, PushesKnown, Config, Busy
<1> QED
  BY <1>2, <1>3, <1>4, <1>5

\* A status names no upstream.
LEMMA SetRouteStatusKeepsInv ==
  ASSUME EdgeInv, NEW p \in Procs, SetRouteStatus(p)
  PROVE EdgeInv'
<1> USE DEF EdgeInv
<1>1. op[p] \in Busy
  BY BusyCall DEF SetRouteStatus
<1>2. TypeOK'
  <2>1. op' \in [Procs -> Busy \cup {Idle}]
    BY <1>1 DEF SetRouteStatus, Goto, Return, TypeOK, Busy
  <2>2. row' = row \/ \E x \in RouteStatus : row' = [row EXCEPT ![op[p].host].status = x]
    BY <1>1 DEF SetRouteStatus, TypeOK, Row, RouteStatus, Busy
  <2>3. row' \in [Hosts -> Row]
    BY <1>1, <2>2 DEF TypeOK, Row, Busy
  <2>4. faults' \in Nat
    BY DEF SetRouteStatus, Fault, TypeOK
  <2> QED
    BY <2>1, <2>3, <2>4 DEF SetRouteStatus, TypeOK
<1>3. RowsKnown'
  BY <1>1, SMTT(120) DEF SetRouteStatus, Goto, Return, Fault, TypeOK, RowsKnown, CallsKnown, Row, Ups, Busy
<1>4. CallsKnown'
  BY <1>1, SMTT(120) DEF SetRouteStatus, Goto, Return, Fault, TypeOK, RowsKnown, CallsKnown, Row, Ups, Busy, Idle
<1>5. PushesKnown'
  BY <1>1, SMTT(30) DEF SetRouteStatus, Goto, Return, Fault, TypeOK, PushesKnown, Config, Busy
<1> QED
  BY <1>2, <1>3, <1>4, <1>5

\* The write of Update comes before its push.
LEMMA UpdateUpsertKeepsInv ==
  ASSUME EdgeInv, NEW p \in Procs, UpdateUpsert(p)
  PROVE EdgeInv'
<1> USE DEF EdgeInv
<1>1. op[p] \in Busy
  BY BusyCall DEF UpdateUpsert
<1>2. TypeOK'
  BY <1>1, SMTT(30) DEF UpdateUpsert, SetRow, Goto, Return, TypeOK, Row, RouteStatus, Ups, Busy, Idle
<1>3. RowsKnown'
  BY <1>1, SMTT(30) DEF UpdateUpsert, SetRow, Goto, Return, TypeOK, RowsKnown, CallsKnown, Row, Ups, Busy
<1>4. CallsKnown'
  BY <1>1, SMTT(120) DEF UpdateUpsert, SetRow, Goto, Return, TypeOK, RowsKnown, CallsKnown, Row, Ups, Busy, Idle
<1>5. PushesKnown'
  BY <1>1, SMTT(30) DEF UpdateUpsert, SetRow, Goto, Return, TypeOK, PushesKnown, Config, Busy
<1> QED
  BY <1>2, <1>3, <1>4, <1>5

\* Delete empties a tag, or fails to.
LEMMA DeleteCaddyKeepsInv ==
  ASSUME EdgeInv, NEW p \in Procs, DeleteCaddy(p)
  PROVE EdgeInv'
<1> USE DEF EdgeInv
<1>1. op[p] \in Busy
  BY BusyCall DEF DeleteCaddy
<1>2. TypeOK'
  BY <1>1, SMTT(120) DEF DeleteCaddy, Goto, Fault, TypeOK, Row, RouteStatus, Ups, Busy, Idle
<1>3. RowsKnown'
  BY <1>1, SMTT(30) DEF DeleteCaddy, Goto, Fault, TypeOK, RowsKnown, CallsKnown, Row, Ups, Busy
<1>4. CallsKnown'
  BY <1>1, SMTT(30) DEF DeleteCaddy, Goto, Fault, TypeOK, RowsKnown, CallsKnown, Row, Ups, Busy, Idle
<1>5. PushesKnown'
  BY <1>1, SMTT(30) DEF DeleteCaddy, Goto, Fault, TypeOK, PushesKnown, Config, Busy
<1> QED
  BY <1>2, <1>3, <1>4, <1>5

\* A deleted row keeps its history.
LEMMA SoftDeleteRouteKeepsInv ==
  ASSUME EdgeInv, NEW p \in Procs, SoftDeleteRoute(p)
  PROVE EdgeInv'
<1> USE DEF EdgeInv
<1>1. op[p] \in Busy
  BY BusyCall DEF SoftDeleteRoute
<1>2. TypeOK'
  <2>1. [row[op[p].host] EXCEPT !.live = FALSE, !.status = "removed"] \in Row
    BY <1>1, ZenonT(60) DEF TypeOK, Row, RouteStatus, Busy
  <2>2. row' \in [Hosts -> Row]
    BY <1>1, <2>1 DEF SoftDeleteRoute, TypeOK, Busy
  <2> QED
    BY <2>2 DEF SoftDeleteRoute, Return, TypeOK
<1>3. RowsKnown'
  BY <1>1, SMTT(30) DEF SoftDeleteRoute, Return, TypeOK, RowsKnown, CallsKnown, Row, Ups, Busy
<1>4. CallsKnown'
  BY <1>1, SMTT(30) DEF SoftDeleteRoute, Return, TypeOK, RowsKnown, CallsKnown, Row, Ups, Busy, Idle
<1>5. PushesKnown'
  BY <1>1, SMTT(30) DEF SoftDeleteRoute, Return, TypeOK, PushesKnown, Config, Busy
<1> QED
  BY <1>2, <1>3, <1>4, <1>5

\* A switch takes the upstream of a live row for the previous one.
LEMMA SwitchLoadKeepsInv ==
  ASSUME EdgeInv, NEW p \in Procs, SwitchLoad(p)
  PROVE EdgeInv'
<1> USE DEF EdgeInv
<1>1. op[p] \in Busy
  BY BusyCall DEF SwitchLoad
<1>2. TypeOK'
  BY <1>1, SMTT(30) DEF SwitchLoad, Return, TypeOK, Row, RouteStatus, Ups, Busy, Idle
<1>3. RowsKnown'
  BY <1>1, SMTT(30) DEF SwitchLoad, Return, TypeOK, RowsKnown, CallsKnown, Row, Ups, Busy
<1>4. CallsKnown'
  <2>1. CASE ~row[op[p].host].live
    BY <2>1 DEF SwitchLoad, Return, TypeOK, CallsKnown, Idle
  <2>2. CASE row[op[p].host].live
    <3>1. /\ op'[p].pc = "write" /\ op'[p].host = op[p].host
          /\ op'[p].rt.up = op[p].rt.up /\ op'[p].rt.weighted = op[p].rt.weighted
          /\ op'[p].rt.prev = IF op[p].rt.prev = NoUp THEN row[op[p].host].up ELSE op[p].rt.prev
      BY <1>1, <2>2 DEF SwitchLoad, TypeOK, Busy, Row
    <3>2. \A q \in Procs \ {p} : op'[q] = op[q]
      BY <2>2 DEF SwitchLoad, TypeOK
    <3>3. row[op[p].host].up \in given[op[p].host]
      BY <1>1, <2>2 DEF RowsKnown, Busy
    <3>4. op[p].pc = "load" /\ given' = given
      BY DEF SwitchLoad
    <3> QED
      BY <1>1, <3>1, <3>2, <3>3, <3>4 DEF CallsKnown
  <2> QED
    BY <2>1, <2>2
<1>5. PushesKnown'
  BY <1>1, SMTT(30) DEF SwitchLoad, Return, TypeOK, PushesKnown, Config, Busy
<1> QED
  BY <1>2, <1>3, <1>4, <1>5

\* The write of a switch comes before its push.
LEMMA UpdateRouteTrafficKeepsInv ==
  ASSUME EdgeInv, NEW p \in Procs, UpdateRouteTraffic(p)
  PROVE EdgeInv'
<1> USE DEF EdgeInv
<1>1. op[p] \in Busy
  BY BusyCall DEF UpdateRouteTraffic
<1>2. TypeOK'
  <2>1. op[p].rt.up \in Upstreams /\ op[p].rt \in Row
    BY <1>1 DEF UpdateRouteTraffic, CallsKnown, Busy
  <2>2. [row[op[p].host] EXCEPT !.up = op[p].rt.up, !.weighted = op[p].rt.weighted, !.prev = op[p].rt.prev] \in Row
    BY <1>1, <2>1 DEF TypeOK, Row, Busy
  <2>3. row' \in [Hosts -> Row]
    BY <1>1, <2>2 DEF UpdateRouteTraffic, TypeOK, Busy
  <2>4. op' \in [Procs -> Busy \cup {Idle}] /\ given' \in [Hosts -> SUBSET Upstreams]
    BY <1>1, <2>1 DEF UpdateRouteTraffic, Goto, TypeOK, Busy
  <2> QED
    BY <2>3, <2>4 DEF UpdateRouteTraffic, TypeOK
<1>3. RowsKnown'
  BY <1>1, SMTT(30) DEF UpdateRouteTraffic, Goto, TypeOK, RowsKnown, CallsKnown, Row, Ups, Busy
<1>4. CallsKnown'
  BY <1>1, SMTT(30) DEF UpdateRouteTraffic, Goto, TypeOK, RowsKnown, CallsKnown, Row, Ups, Busy, Idle
<1>5. PushesKnown'
  BY <1>1, SMTT(30) DEF UpdateRouteTraffic, Goto, TypeOK, PushesKnown, Config, Busy
<1> QED
  BY <1>2, <1>3, <1>4, <1>5

-----------------------------------------------------------------------------
(* Pushes.                                                                 *)

\* After a push a call is over, or writes its status.
LEMMA PushedTyped ==
  ASSUME TypeOK, NEW p \in Procs, op[p] \in Busy, NEW ok \in BOOLEAN, Pushed(p, ok)
  PROVE /\ op' \in [Procs -> Busy \cup {Idle}]
        /\ op'[p].pc \in {"idle", "status"}
        /\ \A q \in Procs \ {p} : op'[q] = op[q]
  BY DEF Pushed, Return, TypeOK, Busy, Idle

\* What Patch and Post of a call push has been written to its row.
LEMMA CallPushKeepsInv ==
  ASSUME EdgeInv, NEW p \in Procs, Patch(p) \/ Post(p)
  PROVE EdgeInv'
<1> DEFINE c == Cfg(op[p].host, op[p].rt)
<1> USE DEF EdgeInv
<1>1. op[p] \in Busy /\ op[p].pc \in {"patch", "post"}
  BY BusyCall DEF Patch, Post
<1>2. op[p].host \in Hosts /\ op[p].rt \in Row
  BY <1>1 DEF Busy
<1>3. c \in Config /\ c.up = op[p].rt.up /\ c.host = op[p].host
  BY <1>2, CfgTyped
<1>4. c.up \in given[c.host]
  BY <1>1, <1>3 DEF CallsKnown
<1>5. /\ caddy' \in [Tags -> Config \cup {NoConfig}] /\ faults' \in Nat
      /\ \A t \in Tags : caddy'[t] = caddy[t] \/ caddy'[t] = c
  <2> HIDE DEF c
  <2>1. PatchOk(c) \/ PatchError(c) \/ PostOk(c) \/ PostError(c)
    BY DEF Patch, Post, c
  <2> QED
    BY <1>3, <2>1, PushOutcome
<1>6. Pushed(p, TRUE) \/ Pushed(p, FALSE) \/ Goto(p, "post")
  BY DEF Patch, Post
<1>7. UNCHANGED <<row, todo, posting, given, calls>>
  BY DEF Patch, Post
<1>8. /\ op' \in [Procs -> Busy \cup {Idle}]
      /\ op'[p].pc \in {"idle", "status"} \/ (op'[p].pc = "post" /\ op'[p].rt = op[p].rt /\ op'[p].host = op[p].host)
      /\ \A q \in Procs \ {p} : op'[q] = op[q]
  <2>1. CASE Pushed(p, TRUE) \/ Pushed(p, FALSE)
    BY <1>1, <2>1, PushedTyped
  <2>2. CASE Goto(p, "post")
    BY <1>1, <2>2 DEF Goto, TypeOK, Busy
  <2> QED
    BY <1>6, <2>1, <2>2
<1>9. TypeOK'
  BY <1>5, <1>7, <1>8 DEF TypeOK
<1>10. RowsKnown'
  BY <1>7 DEF RowsKnown
<1>11. CallsKnown'
  BY <1>1, <1>7, <1>8 DEF CallsKnown
<1>12. PushesKnown'
  BY <1>3, <1>4, <1>5, <1>7 DEF PushesKnown
<1> QED
  BY <1>9, <1>10, <1>11, <1>12

-----------------------------------------------------------------------------
(* The reconciler, and what fails around it.                               *)

\* The reconciler reads live rows only.
LEMMA ReconcileListKeepsInv == ASSUME EdgeInv, ReconcileList PROVE EdgeInv'
<1> USE DEF EdgeInv
<1>1. ASSUME NEW h \in ListActiveRoutes
      PROVE Cfg(h, row[h]) \in Config /\ Cfg(h, row[h]).up \in given[Cfg(h, row[h]).host]
  <2>1. h \in Hosts /\ row[h].live /\ row[h] \in Row
    BY <1>1 DEF ListActiveRoutes, TypeOK
  <2>2. Cfg(h, row[h]) \in Config /\ Cfg(h, row[h]).up = row[h].up /\ Cfg(h, row[h]).host = h
    BY <2>1, CfgTyped
  <2> QED
    BY <2>1, <2>2 DEF RowsKnown
<1>2. \A c \in todo' : c \in Config /\ c.up \in given[c.host]
  BY <1>1 DEF ReconcileList
<1> QED
  BY <1>2 DEF ReconcileList, TypeOK, RowsKnown, CallsKnown, PushesKnown

\* It pushes what it has read.
LEMMA ReconcilePushKeepsInv ==
  ASSUME EdgeInv, ReconcilePatch \/ ReconcilePost
  PROVE EdgeInv'
<1> USE DEF EdgeInv
<1>1. PICK c \in todo \cup posting :
        /\ PatchOk(c) \/ PatchError(c) \/ PostOk(c) \/ PostError(c)
        /\ todo' \subseteq todo /\ posting' \subseteq posting \cup {c}
        /\ UNCHANGED <<row, op, given, calls>>
  BY DEF ReconcilePatch, ReconcilePost
<1>2. c \in Config /\ c.up \in given[c.host]
  BY DEF TypeOK, PushesKnown
<1>3. /\ caddy' \in [Tags -> Config \cup {NoConfig}] /\ faults' \in Nat
      /\ \A t \in Tags : caddy'[t] = caddy[t] \/ caddy'[t] = c
  BY <1>1, <1>2, PushOutcome
<1>4. TypeOK' /\ RowsKnown' /\ CallsKnown'
  BY <1>1, <1>2, <1>3 DEF TypeOK, RowsKnown, CallsKnown
<1>5. PushesKnown'
  BY <1>1, <1>2, <1>3 DEF PushesKnown
<1> QED
  BY <1>4, <1>5

\* Crashes forget what was to be pushed, Drain writes a status.
LEMMA RestKeepsInv ==
  ASSUME EdgeInv, Crash \/ CaddyRestart \/ (\E h \in Hosts : Drain(h))
  PROVE EdgeInv'
<1> USE DEF EdgeInv
<1>1. CASE Crash
  BY <1>1 DEF Crash, Fault, TypeOK, RowsKnown, CallsKnown, PushesKnown, Idle
<1>2. CASE CaddyRestart
  BY <1>2 DEF CaddyRestart, Fault, TypeOK, RowsKnown, CallsKnown, PushesKnown
<1>3. ASSUME NEW h \in Hosts, Drain(h) PROVE EdgeInv'
  <2>1. [row[h] EXCEPT !.status = "draining"] \in Row
    BY DEF TypeOK, Row, RouteStatus
  <2>2. TypeOK'
    BY <1>3, <2>1 DEF Drain, TypeOK
  <2>3. RowsKnown' /\ CallsKnown' /\ PushesKnown'
    BY <1>3 DEF Drain, TypeOK, Row, RowsKnown, CallsKnown, PushesKnown
  <2> QED
    BY <2>2, <2>3
<1> QED
  BY <1>1, <1>2, <1>3

-----------------------------------------------------------------------------
(* The theorems.                                                           *)

\* Every step of a call, of the reconciler and of the failures keeps the invariant.
LEMMA EdgeInvNext == EdgeInv /\ [Next]_vars => EdgeInv'
<1> SUFFICES ASSUME EdgeInv, [Next]_vars PROVE EdgeInv'
  OBVIOUS
<1>1. ASSUME NEW p \in Procs, Progress(p) PROVE EdgeInv'
  BY <1>1, SetRouteStatusKeepsInv, UpdateUpsertKeepsInv, DeleteCaddyKeepsInv, SoftDeleteRouteKeepsInv, SwitchLoadKeepsInv,
     UpdateRouteTrafficKeepsInv, CallPushKeepsInv DEF Progress
<1>2. ASSUME NEW p \in Procs, NEW h \in Hosts, Start(p, h) PROVE EdgeInv'
  BY <1>2, CreateRouteKeepsInv, SwitchToKeepsInv, BlueGreenKeepsInv, CanaryKeepsInv, UpdateReadKeepsInv, RollbackKeepsInv,
     DeleteReadKeepsInv DEF Start
<1>3. CASE UNCHANGED vars
  BY <1>3 DEF vars, EdgeInv, TypeOK, RowsKnown, CallsKnown, PushesKnown
<1> QED
  BY <1>1, <1>2, <1>3, ReconcileListKeepsInv, ReconcilePushKeepsInv, RestKeepsInv DEF Next

\* The invariant holds in every behaviour of the proxy manager.
THEOREM EdgeInvariant == Spec => []EdgeInv
  BY EdgeInvInit, EdgeInvNext, PTL DEF Spec

\* Rows, calls and Caddy's configuration have their types at any time.
THEOREM EdgeTypeCorrect == Spec => []TypeOK
<1>1. EdgeInv => TypeOK
  BY DEF EdgeInv
<1> QED
  BY <1>1, EdgeInvariant, PTL

\* Caddy never sends traffic to an upstream that no row of the hostname has had, whatever is
\* lost, repeated or overtaken between the table and Caddy.
THEOREM EdgeDatabaseFirst == Spec => []DatabaseFirst
<1>1. EdgeInv => DatabaseFirst
  BY DEF EdgeInv, PushesKnown, DatabaseFirst
<1> QED
  BY <1>1, EdgeInvariant, PTL

\* Outside a canary, what Rollback would go back to has been served.
THEOREM RollbackKnown == Spec => []RollbackTargetKnown
<1>1. EdgeInv => RollbackTargetKnown
  BY DEF EdgeInv, RowsKnown, RollbackTargetKnown
<1> QED
  BY <1>1, EdgeInvariant, PTL

HIDE EdgeAssumption
USE SchedulerAssumption

-----------------------------------------------------------------------------
(* Types, and what missed_beats can be.                                    *)

\* An online server has missed fewer beats than take it offline, except between
\* the two statements of MarkMissedHeartbeats.
MissedBound ==
    \A n \in Servers : (Up(n) /\ pass # "offline") => missed[n] < MaxMissed

\* Beats are only missed by silent servers, and a heartbeat clears them.
FreshHasNone == \A n \in Servers : fresh[n] => missed[n] = 0

Health == SchedTypeOK /\ MissedBound /\ FreshHasNone

\* The empty tables satisfy the invariant about types and missed beats.
LEMMA HealthInit == SchedInit => Health
  BY DEF SchedInit, Health, SchedTypeOK, MissedBound, FreshHasNone, Up, SchedIdle

\* Every statement, heartbeat and pass of the reconcile loop keeps it.
LEMMA HealthNext == Health /\ [SchedNext]_schedVars => Health'
<1> SUFFICES ASSUME Health, [SchedNext]_schedVars PROVE Health'
  OBVIOUS
<1> USE DEF Health, SchedTypeOK, MissedBound, FreshHasNone, Up, Calls, servers, reservations
<1>1. ASSUME NEW p \in Callers, NEW d \in Deps, ReserveCheck(p, d) PROVE Health'
  BY <1>1 DEF ReserveCheck, SchedCall
<1>2. ASSUME NEW p \in Callers, NEW d \in Deps, ReleaseSelect(p, d) PROVE Health'
  BY <1>2 DEF ReleaseSelect, SchedCall
<1>3. ASSUME NEW p \in Callers, ReservePlace(p) PROVE Health'
  <2>1. schedOp[p] \in Calls
    BY <1>3 DEF ReservePlace, SchedIdle
  <2>2. schedOp' \in [Callers -> Calls \cup {SchedIdle}]
    BY <1>3, <2>1 DEF ReservePlace, SchedReturn
  <2> QED
    BY <1>3, <2>2 DEF ReservePlace
<1>4. ASSUME NEW p \in Callers, CreateReservation(p) PROVE Health'
  <2>1. schedOp[p] \in Calls
    BY <1>4 DEF CreateReservation, SchedIdle
  <2>2. schedOp[p].dep \in Deps /\ schedOp[p].on \in Servers \cup {NoServer}
    BY <2>1
  <2>3. /\ status' \in [Deps -> {"none", "active", "released"}]
        /\ server' \in [Deps -> Servers \cup {NoServer}]
    BY <1>4, <2>2 DEF CreateReservation
  <2>5. stale' \in [Deps -> BOOLEAN]
    BY <1>4, Zenon DEF CreateReservation
  <2>4. reserved' \in [Servers -> Nat] /\ count' \in [Servers -> Nat]
    <3>1. \A m \in Servers : reserved[m] + 1 \in Nat /\ count[m] + 1 \in Nat
      OBVIOUS
    <3>2. reserved' = [m \in Servers |-> IF m = schedOp[p].on THEN reserved[m] + 1 ELSE reserved[m]]
      BY <1>4, Zenon DEF CreateReservation
    <3>3. count' = [m \in Servers |-> IF m = schedOp[p].on THEN count[m] + 1 ELSE count[m]]
      BY <1>4, Zenon DEF CreateReservation
    <3> QED
      BY <3>1, <3>2, <3>3
  <2> QED
    BY <1>4, <2>3, <2>4, <2>5 DEF CreateReservation, SchedReturn
<1>5. ASSUME NEW p \in Callers, ReleaseWrite(p) PROVE Health'
  <2>1. schedOp[p] \in Calls
    BY <1>5 DEF ReleaseWrite, SchedIdle
  <2>2. \A k \in Nat : Less1(k) \in Nat
    BY DEF Less1
  <2>3. reserved' \in [Servers -> Nat] /\ count' \in [Servers -> Nat]
    BY <1>5, <2>2 DEF ReleaseWrite
  <2> QED
    BY <1>5, <2>1, <2>3 DEF ReleaseWrite, SchedReturn
<1>6. ASSUME NEW p \in Callers, Abort(p) PROVE Health'
  BY <1>6 DEF Abort, SchedReturn
<1>7. ASSUME NEW n \in Servers, NEW c \in 0..MaxSlots, Heartbeat(n, c) PROVE Health'
  BY <1>7 DEF Heartbeat
<1>8. ASSUME NEW n \in Servers, Silence(n) PROVE Health'
  BY <1>8 DEF Silence
<1>9. ASSUME NEW d \in Deps, Lapse(d) PROVE Health'
  BY <1>9 DEF Lapse
<1>10. CASE ReconcileExpire
  BY <1>10 DEF ReconcileExpire
<1>11. CASE MarkMissed
  BY <1>11 DEF MarkMissed
<1>12. CASE MarkOffline
  BY <1>12 DEF MarkOffline
<1>13. CASE UNCHANGED schedVars
  BY <1>13 DEF schedVars
<1> QED
  BY <1>1, <1>2, <1>3, <1>4, <1>5, <1>6, <1>7, <1>8, <1>9, <1>10, <1>11, <1>12, <1>13
  DEF SchedNext

\* The rows, calls and the pass of the reconcile loop are always well typed; in
\* particular missed_beats never passes MissedHeartbeats.
THEOREM SchedulerTypes == SchedSpec => []SchedTypeOK
<1>1. Health => SchedTypeOK
  BY DEF Health
<1> QED
  BY <1>1, HealthInit, HealthNext, PTL DEF SchedSpec

\* MarkMissedHeartbeats takes only silent servers offline, whatever heartbeats
\* arrive between its two statements.
THEOREM OnlySilentServersGo == SchedSpec => OfflineOnlySilent
<1> DEFINE A == \A n \in Servers : (Up(n) /\ health'[n] = "offline") => ~fresh[n]
<1>1. Health /\ [SchedNext]_schedVars => [A]_schedVars
  <2> SUFFICES ASSUME Health, SchedNext, NEW n \in Servers, Up(n), health'[n] = "offline"
               PROVE  ~fresh[n]
    OBVIOUS
  <2> USE DEF Health, SchedTypeOK, Up
  <2>1. CASE MarkOffline
    <3>1. missed[n] >= MaxMissed
      BY <2>1 DEF MarkOffline
    <3> QED
      BY <3>1 DEF FreshHasNone
  <2>2. CASE ~MarkOffline
    BY <2>2 DEF SchedNext, ReserveCheck, ReleaseSelect, ReservePlace, CreateReservation,
                ReleaseWrite, Abort, Heartbeat, Silence, Lapse, ReconcileExpire,
                MarkMissed, servers
  <2> QED
    BY <2>1, <2>2
<1> QED
  BY <1>1, HealthInit, HealthNext, PTL DEF SchedSpec, OfflineOnlySilent

-----------------------------------------------------------------------------
(* Overrun.                                                                *)

Overrun == SchedTypeOK /\ OverrunBounded

\* Sets of requests are finite and no larger than all of them.
LEMMA SomeProcs ==
    ASSUME NEW S \in SUBSET Callers
    PROVE  /\ IsFiniteSet(S) /\ Cardinality(S) \in Nat /\ Cardinality(Callers) \in Nat
           /\ Cardinality(S) <= Cardinality(Callers)
  BY FS_Subset, FS_CardinalityType

\* Nothing is reserved at first, and there is at least one request slot.
LEMMA OverrunInit == SchedInit => Overrun
<1> SUFFICES ASSUME SchedInit PROVE Overrun
  OBVIOUS
<1>1. SchedTypeOK
  BY HealthInit DEF Health
<1>2. \A n \in Servers : Placing(n) = {}
  BY DEF SchedInit, Placing, SchedIdle
<1>3. Cardinality(Callers) \in Nat /\ Cardinality(Callers) # 0
  BY FS_EmptySet, FS_CardinalityType
<1>4. \A n \in Servers : reserved[n] = 0
  BY DEF SchedInit
<1> QED
  BY <1>1, <1>2, <1>3, <1>4, FS_EmptySet DEF Overrun, OverrunBounded

\* A step that puts no request between placement and transaction, and charges
\* no server, keeps the bound.
LEMMA OverrunKept ==
    ASSUME SchedTypeOK, SchedTypeOK', OverrunBounded, NEW n \in Servers,
           reserved'[n] <= reserved[n], Placing(n)' \subseteq Placing(n)
    PROVE  reserved'[n] + Cardinality(Placing(n)') < Capacity[n] + Cardinality(Callers)
<1>1. Placing(n) \in SUBSET Callers
  BY DEF Placing
<1>2. IsFiniteSet(Placing(n)) /\ Cardinality(Placing(n)) \in Nat /\ Cardinality(Callers) \in Nat
  BY <1>1, SomeProcs
<1>3. Cardinality(Placing(n)') <= Cardinality(Placing(n)) /\ IsFiniteSet(Placing(n)')
  BY <1>2, FS_Subset
<1>4. Cardinality(Placing(n)') \in Nat
  BY <1>3, FS_CardinalityType
<1>5. reserved[n] \in Nat /\ reserved'[n] \in Nat /\ Capacity[n] \in Nat
  BY DEF SchedTypeOK
<1>6. reserved[n] + Cardinality(Placing(n)) < Capacity[n] + Cardinality(Callers)
  BY DEF OverrunBounded
<1> QED
  BY <1>2, <1>3, <1>4, <1>5, <1>6

\* Every step keeps the bound: Reserve found room when it placed, and the
\* transaction turns a placed request into a charged one.
LEMMA OverrunNext == Overrun /\ Health /\ [SchedNext]_schedVars => Overrun'
<1> SUFFICES ASSUME Overrun, Health, [SchedNext]_schedVars PROVE Overrun'
  OBVIOUS
<1>0. SchedTypeOK /\ SchedTypeOK' /\ OverrunBounded
  BY HealthNext DEF Health, Overrun
<1> SUFFICES ASSUME NEW n \in Servers
             PROVE  reserved'[n] + Cardinality(Placing(n)') < Capacity[n] + Cardinality(Callers)
  BY <1>0 DEF Overrun, OverrunBounded
<1>1. ASSUME NEW p \in Callers, NEW d \in Deps, ReserveCheck(p, d) \/ ReleaseSelect(p, d)
      PROVE  reserved'[n] <= reserved[n] /\ Placing(n)' \subseteq Placing(n)
  BY <1>0, <1>1 DEF ReserveCheck, ReleaseSelect, SchedCall, Placing, servers, SchedTypeOK
<1>2. ASSUME NEW p \in Callers, ReservePlace(p)
      PROVE  reserved'[n] + Cardinality(Placing(n)') < Capacity[n] + Cardinality(Callers)
  <2>1. CASE Fits(n)
    <3>1. Placing(n)' \in SUBSET Callers
      BY DEF Placing
    <3>2. reserved' = reserved /\ reserved[n] < Capacity[n]
      BY <1>2, <2>1 DEF ReservePlace, Fits, servers
    <3> QED
      BY <1>0, <3>1, <3>2, SomeProcs DEF SchedTypeOK
  <2>2. CASE ~Fits(n)
    <3>1. reserved' = reserved
      BY <1>2 DEF ReservePlace, servers
    <3>2. Placing(n)' \subseteq Placing(n)
      BY <1>0, <1>2, <2>2, SMTT(60) DEF ReservePlace, Placing, SchedReturn, SchedIdle, SchedTypeOK, Calls
    <3> QED
      BY <1>0, <3>1, <3>2, OverrunKept DEF SchedTypeOK
  <2> QED
    BY <2>1, <2>2
<1>3. ASSUME NEW p \in Callers, CreateReservation(p)
      PROVE  reserved'[n] + Cardinality(Placing(n)') < Capacity[n] + Cardinality(Callers)
  <2>1. Placing(n)' = Placing(n) \ {p}
    BY <1>0, <1>3 DEF CreateReservation, Placing, SchedReturn, SchedIdle, SchedTypeOK
  <2>2. CASE schedOp[p].on = n
    <3>1. p \in Placing(n)
      BY <1>3, <2>2 DEF CreateReservation, Placing
    <3>2. reserved'[n] = reserved[n] + 1
      BY <1>0, <1>3, <2>2 DEF CreateReservation, SchedTypeOK
    <3>3. Placing(n) \in SUBSET Callers
      BY DEF Placing
    <3>4. IsFiniteSet(Placing(n)) /\ Cardinality(Placing(n)) \in Nat /\ Cardinality(Callers) \in Nat
      BY <3>3, SomeProcs
    <3>5. Cardinality(Placing(n)') = Cardinality(Placing(n)) - 1
      BY <2>1, <3>1, <3>4, FS_RemoveElement, ZenonT(60)
    <3>6. reserved[n] + Cardinality(Placing(n)) < Capacity[n] + Cardinality(Callers)
      BY <1>0 DEF OverrunBounded
    <3> QED
      BY <1>0, <3>2, <3>4, <3>5, <3>6 DEF SchedTypeOK
  <2>3. CASE schedOp[p].on # n
    <3>1. reserved'[n] = reserved[n]
      BY <1>0, <1>3, <2>3 DEF CreateReservation, SchedTypeOK
    <3>2. reserved'[n] <= reserved[n]
      BY <1>0, <3>1 DEF SchedTypeOK
    <3>3. Placing(n)' \subseteq Placing(n)
      BY <2>1
    <3> QED
      BY <1>0, <3>2, <3>3, OverrunKept
  <2> QED
    BY <2>2, <2>3
<1>4. ASSUME NEW p \in Callers, ReleaseWrite(p)
      PROVE  reserved'[n] <= reserved[n] /\ Placing(n)' \subseteq Placing(n)
  <2>1. reserved'[n] <= reserved[n]
    BY <1>0, <1>4 DEF ReleaseWrite, Less1, SchedTypeOK
  <2>2. Placing(n)' \subseteq Placing(n)
    BY <1>0, <1>4 DEF ReleaseWrite, Placing, SchedReturn, SchedIdle, SchedTypeOK
  <2> QED
    BY <2>1, <2>2
<1>5. ASSUME NEW p \in Callers, Abort(p)
      PROVE  reserved'[n] <= reserved[n] /\ Placing(n)' \subseteq Placing(n)
  BY <1>0, <1>5 DEF Abort, Placing, SchedReturn, SchedIdle, servers, SchedTypeOK
<1>6. ASSUME UNCHANGED <<reserved, schedOp>>
      PROVE  reserved'[n] <= reserved[n] /\ Placing(n)' \subseteq Placing(n)
  BY <1>0, <1>6 DEF Placing, SchedTypeOK
<1>7. \/ UNCHANGED <<reserved, schedOp>>
      \/ \E p \in Callers :
           \/ \E d \in Deps : ReserveCheck(p, d) \/ ReleaseSelect(p, d)
           \/ ReservePlace(p) \/ CreateReservation(p) \/ ReleaseWrite(p) \/ Abort(p)
  BY DEF SchedNext, Heartbeat, Silence, Lapse, ReconcileExpire, MarkMissed, MarkOffline,
         servers, schedVars
<1> QED
  BY <1>0, <1>1, <1>2, <1>3, <1>4, <1>5, <1>6, <1>7, OverrunKept

\* Although Reserve checks the free capacity before it takes it, a server is never
\* overrun by more than one request per concurrent caller.
THEOREM OverrunIsBounded == SchedSpec => []OverrunBounded
<1>1. Overrun => OverrunBounded
  BY DEF Overrun
<1> QED
  BY <1>1, HealthInit, HealthNext, OverrunInit, OverrunNext, PTL DEF SchedSpec

-----------------------------------------------------------------------------
(* Accounting.                                                             *)

\* The calls of one deployment do not overlap, and a call under way still finds
\* the reservation as it read it.
OneCall ==
    \A p, q \in Callers : (p # q /\ schedOp[p] # SchedIdle /\ schedOp[q] # SchedIdle) => schedOp[p].dep # schedOp[q].dep
ReadIsCurrent ==
    \A p \in Callers :
        /\ schedOp[p].pc \in {"list", "create"} => status[schedOp[p].dep] # "active"
        /\ schedOp[p].pc = "release" =>
              status[schedOp[p].dep] = "active" /\ server[schedOp[p].dep] = schedOp[p].on
Charged == \A n \in Servers : reserved[n] = Cardinality(Active(n))

Ledger == Leased = Deps => OneCall /\ ReadIsCurrent /\ Charged

\* Nothing is reserved and nothing is charged at first.
LEMMA LedgerInit == SchedInit => Ledger
<1> SUFFICES ASSUME SchedInit PROVE OneCall /\ ReadIsCurrent /\ Charged
  BY DEF Ledger
<1>1. OneCall /\ ReadIsCurrent
  BY DEF SchedInit, OneCall, ReadIsCurrent, SchedIdle
<1>2. \A n \in Servers : Active(n) = {} /\ reserved[n] = 0
  BY DEF SchedInit, Active
<1> QED
  BY <1>1, <1>2, FS_EmptySet DEF Charged

\* Sets of deployments are finite.
LEMMA SomeDeps ==
    ASSUME NEW S \in SUBSET Deps
    PROVE  IsFiniteSet(S) /\ Cardinality(S) \in Nat
  BY FS_Subset, FS_CardinalityType

\* Every step keeps the ledger: CreateReservation adds one active reservation and
\* one charge, ReleaseReservation takes one of each away.
LEMMA LedgerNext == Ledger /\ SchedTypeOK /\ SchedTypeOK' /\ [SchedNext]_schedVars => Ledger'
<1> SUFFICES ASSUME SchedTypeOK, SchedTypeOK', [SchedNext]_schedVars, Leased = Deps,
                    OneCall, ReadIsCurrent, Charged
             PROVE  OneCall' /\ ReadIsCurrent' /\ Charged'
  BY DEF Ledger
<1>1. ASSUME UNCHANGED <<reserved, status, server, schedOp>>
      PROVE  OneCall' /\ ReadIsCurrent' /\ Charged'
  BY <1>1 DEF OneCall, ReadIsCurrent, Charged, Active
<1>2. ASSUME UNCHANGED <<reserved, status, server>> PROVE Charged'
  BY <1>2 DEF Charged, Active
<1>3. ASSUME NEW p \in Callers, NEW d \in Deps, ReserveCheck(p, d) \/ ReleaseSelect(p, d)
      PROVE  OneCall' /\ ReadIsCurrent' /\ Charged'
  <2>1. Charged'
    BY <1>2, <1>3 DEF ReserveCheck, ReleaseSelect, servers, reservations
  <2>2. \A q \in Callers : schedOp[q] # SchedIdle => schedOp[q].dep # d
    BY <1>3 DEF ReserveCheck, ReleaseSelect, SchedCall
  <2>3. schedOp'[p].dep = d /\ \A q \in Callers : q # p => schedOp'[q] = schedOp[q]
    BY <1>3 DEF ReserveCheck, ReleaseSelect, SchedTypeOK
  <2>4. OneCall'
    BY <2>2, <2>3 DEF OneCall
  <2>5. ReadIsCurrent'
    <3>1. CASE ReserveCheck(p, d)
      BY <3>1 DEF ReserveCheck, ReadIsCurrent, reservations, SchedTypeOK
    <3>2. CASE ReleaseSelect(p, d)
      BY <3>2 DEF ReleaseSelect, ReadIsCurrent, reservations, SchedTypeOK
    <3> QED
      BY <1>3, <3>1, <3>2
  <2> QED
    BY <2>1, <2>4, <2>5
<1>4. ASSUME NEW p \in Callers, ReservePlace(p)
      PROVE  OneCall' /\ ReadIsCurrent' /\ Charged'
  <2>1. Charged'
    BY <1>2, <1>4 DEF ReservePlace, servers, reservations
  <2>2. schedOp[p] \in Calls
    BY <1>4 DEF ReservePlace, SchedTypeOK, SchedIdle
  <2>3. CASE SchedReturn(p)
    BY <1>4, <2>1, <2>3 DEF ReservePlace, SchedReturn, OneCall, ReadIsCurrent, SchedIdle,
                            reservations, SchedTypeOK
  <2>4. CASE \E n \in Servers : schedOp' = [schedOp EXCEPT ![p].pc = "create", ![p].on = n]
    <3>1. PICK n \in Servers : schedOp' = [schedOp EXCEPT ![p].pc = "create", ![p].on = n]
      BY <2>4
    <3>2. schedOp'[p].dep = schedOp[p].dep /\ schedOp'[p].pc = "create"
      BY <2>2, <3>1 DEF SchedTypeOK, Calls
    <3>3. \A q \in Callers : q # p => schedOp'[q] = schedOp[q]
      BY <3>1 DEF SchedTypeOK
    <3>4. schedOp[p] # SchedIdle /\ schedOp[p].pc = "list"
      BY <1>4 DEF ReservePlace, SchedIdle
    <3>5. OneCall'
      BY <3>2, <3>3, <3>4 DEF OneCall
    <3>6. status' = status /\ server' = server
      BY <1>4 DEF ReservePlace, reservations
    <3>7. ReadIsCurrent'
      BY <3>2, <3>3, <3>4, <3>6 DEF ReadIsCurrent
    <3> QED
      BY <2>1, <3>5, <3>7
  <2> QED
    BY <1>4, <2>3, <2>4 DEF ReservePlace
<1>5. ASSUME NEW p \in Callers, Abort(p)
      PROVE  OneCall' /\ ReadIsCurrent' /\ Charged'
  <2>1. Charged'
    BY <1>2, <1>5 DEF Abort, servers, reservations
  <2> QED
    BY <1>5, <2>1 DEF Abort, SchedReturn, OneCall, ReadIsCurrent, SchedIdle, reservations, SchedTypeOK
<1>6. ASSUME NEW p \in Callers, schedOp[p] # SchedIdle, SchedReturn(p),
             \A d \in Deps : d # schedOp[p].dep => status'[d] = status[d] /\ server'[d] = server[d]
      PROVE  OneCall' /\ ReadIsCurrent'
  <2>1. schedOp'[p] = SchedIdle /\ \A q \in Callers : q # p => schedOp'[q] = schedOp[q]
    BY <1>6 DEF SchedReturn, SchedTypeOK
  <2>2. OneCall'
    BY <2>1 DEF OneCall
  <2>3. ASSUME NEW q \in Callers, q # p, schedOp[q] # SchedIdle
        PROVE  /\ status'[schedOp[q].dep] = status[schedOp[q].dep]
               /\ server'[schedOp[q].dep] = server[schedOp[q].dep]
    <3>1. schedOp[q].dep \in Deps /\ schedOp[q].dep # schedOp[p].dep
      BY <1>6, <2>3 DEF OneCall, SchedTypeOK, Calls
    <3> QED
      BY <1>6, <3>1
  <2>4. ReadIsCurrent'
    BY <2>1, <2>3 DEF ReadIsCurrent, SchedIdle
  <2> QED
    BY <2>2, <2>4
<1>7. ASSUME NEW p \in Callers, CreateReservation(p)
      PROVE  OneCall' /\ ReadIsCurrent' /\ Charged'
  <2> DEFINE d == schedOp[p].dep
             n == schedOp[p].on
  <2>1. schedOp[p] \in Calls /\ schedOp[p] # SchedIdle /\ d \in Deps
    BY <1>7 DEF CreateReservation, SchedTypeOK, SchedIdle, Calls
  <2>2. \A e \in Deps : e # d => status'[e] = status[e] /\ server'[e] = server[e]
    BY <1>7 DEF CreateReservation, SchedTypeOK
  <2>3. status[d] # "active" /\ status'[d] = "active" /\ server'[d] = n
    BY <1>7, <2>1 DEF CreateReservation, ReadIsCurrent, SchedTypeOK
  <2>4. ASSUME NEW m \in Servers PROVE reserved'[m] = Cardinality(Active(m)')
    <3>0. Active(m) \in SUBSET Deps
      BY DEF Active
    <3>1. CASE m = n
      <4>1. Active(m)' = Active(m) \cup {d} /\ d \notin Active(m)
        BY <2>1, <2>2, <2>3, <3>1 DEF Active
      <4>2. reserved'[m] = reserved[m] + 1
        BY <1>7, <3>1 DEF CreateReservation, SchedTypeOK
      <4>3. IsFiniteSet(Active(m))
        BY <3>0, SomeDeps
      <4>4. Cardinality(Active(m) \cup {d}) = Cardinality(Active(m)) + 1
        BY <4>1, <4>3, FS_AddElement
      <4>5. reserved[m] = Cardinality(Active(m))
        BY DEF Charged
      <4> QED
        BY <4>1, <4>2, <4>4, <4>5, Zenon
    <3>2. CASE m # n
      <4>1. Active(m)' = Active(m)
        BY <2>1, <2>2, <2>3, <3>2 DEF Active
      <4>2. reserved'[m] = reserved[m]
        BY <1>7, <3>2 DEF CreateReservation, SchedTypeOK
      <4> QED
        BY <4>1, <4>2 DEF Charged
    <3> QED
      BY <3>1, <3>2
  <2>5. SchedReturn(p)
    BY <1>7 DEF CreateReservation
  <2> QED
    BY <1>6, <2>1, <2>2, <2>4, <2>5 DEF Charged
<1>8. ASSUME NEW p \in Callers, ReleaseWrite(p)
      PROVE  OneCall' /\ ReadIsCurrent' /\ Charged'
  <2> DEFINE d == schedOp[p].dep
             n == schedOp[p].on
  <2>1. schedOp[p] \in Calls /\ schedOp[p] # SchedIdle /\ d \in Deps
    BY <1>8 DEF ReleaseWrite, SchedTypeOK, SchedIdle, Calls
  <2>2. \A e \in Deps : e # d => status'[e] = status[e] /\ server'[e] = server[e]
    BY <1>8 DEF ReleaseWrite, SchedTypeOK
  <2>3. status[d] = "active" /\ server[d] = n /\ status'[d] = "released"
    BY <1>8, <2>1 DEF ReleaseWrite, ReadIsCurrent, SchedTypeOK
  <2>4. ASSUME NEW m \in Servers PROVE reserved'[m] = Cardinality(Active(m)')
    <3>0. Active(m) \in SUBSET Deps
      BY DEF Active
    <3>1. CASE m = n
      <4>1. Active(m)' = Active(m) \ {d} /\ d \in Active(m)
        BY <2>1, <2>2, <2>3, <3>1 DEF Active
      <4>2. IsFiniteSet(Active(m)) /\ Cardinality(Active(m)) \in Nat
        BY <3>0, SomeDeps
      <4>3. Cardinality(Active(m)) # 0
        BY <4>1, <4>2, FS_EmptySet
      <4>4. reserved'[m] = reserved[m] - 1
        BY <1>8, <3>1, <4>2, <4>3 DEF ReleaseWrite, Less1, SchedTypeOK, Charged
      <4>5. Cardinality(Active(m) \ {d}) = Cardinality(Active(m)) - 1
        BY <4>1, <4>2, FS_RemoveElement
      <4>6. reserved[m] = Cardinality(Active(m))
        BY DEF Charged
      <4> QED
        BY <4>1, <4>4, <4>5, <4>6, Zenon
    <3>2. CASE m # n
      <4>1. Active(m)' = Active(m)
        BY <2>1, <2>2, <2>3, <3>2 DEF Active
      <4>2. reserved'[m] = reserved[m]
        BY <1>8, <3>2 DEF ReleaseWrite, SchedTypeOK
      <4> QED
        BY <4>1, <4>2 DEF Charged
    <3> QED
      BY <3>1, <3>2
  <2>5. SchedReturn(p)
    BY <1>8 DEF ReleaseWrite
  <2> QED
    BY <1>6, <2>1, <2>2, <2>4, <2>5 DEF Charged
<1>9. \/ UNCHANGED <<reserved, status, server, schedOp>>
      \/ \E p \in Callers :
           \/ \E d \in Deps : ReserveCheck(p, d) \/ ReleaseSelect(p, d)
           \/ ReservePlace(p) \/ CreateReservation(p) \/ ReleaseWrite(p) \/ Abort(p)
  BY DEF SchedNext, Heartbeat, Silence, Lapse, ReconcileExpire, MarkMissed, MarkOffline,
         servers, reservations, schedVars
<1> QED
  BY <1>1, <1>3, <1>4, <1>5, <1>7, <1>8, <1>9

\* As long as the calls of one deployment do not overlap, CreateReservation and
\* ReleaseReservation charge every server for exactly its active reservations.
THEOREM AccountingIsExact == SchedSpec => []Accounting
<1>1. Ledger => Accounting
  BY DEF Ledger, Charged, Accounting
<1>2. Health => SchedTypeOK
  BY DEF Health
<1> QED
  BY <1>1, <1>2, HealthInit, HealthNext, LedgerInit, LedgerNext, PTL DEF SchedSpec
=============================================================================
