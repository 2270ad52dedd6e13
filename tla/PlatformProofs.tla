--------------------------- MODULE PlatformProofs ---------------------------
(* Theorems about the event bus, the streaming hub, the migrations, the runtime *)
(* agents and the cron processes, for any publishers, handlers, streams,        *)
(* versions, nodes, containers, requests and schedules.                        *)
EXTENDS EventBus, StreamHub, Migrations, RuntimeAgent, CronScheduler, FiniteSetTheorems, TLAPS

-----------------------------------------------------------------------------
(* The event bus *)

\* The senders hold the read lock, and the channel is closed only once nobody does.
SendersLocked ==
    /\ publishers \in [Publishers -> [at : {"idle", "done", "submit", "send", "sync"}, left : SUBSET Handlers]]
    /\ \A p \in Publishers : publishers[p].at = "send" => p \in readers
    /\ BusClosed => readers = {}
    /\ subscribed \subseteq Handlers
    /\ busPanic = FALSE

\* The Submit of a publisher and the Close of the bus never meet on the closed channel:
\* whoever sends holds the read lock, and Close waits for it.
THEOREM BusNeverPanics == BusSpec => []NoSendOnClosed
<1>1. BusInit => SendersLocked
  BY DEF BusInit, SendersLocked, BIdle, BusClosed
<1>2. SendersLocked /\ [BusNext]_bvars => SendersLocked'
  <2> SUFFICES ASSUME SendersLocked, [BusNext]_bvars PROVE SendersLocked'
    OBVIOUS
  <2> USE DEF SendersLocked, BusClosed
  <2>1. CASE UNCHANGED bvars
    BY <2>1 DEF bvars
  <2>2. ASSUME NEW h \in Handlers, SubscribeHandler(h) PROVE SendersLocked'
    BY <2>2 DEF SubscribeHandler
  <2>3. ASSUME NEW p \in Publishers, NEW how \in {"submit", "sync"}, PublishEvent(p, how) PROVE SendersLocked'
    BY <2>3 DEF PublishEvent, Matching
  <2>4. ASSUME NEW p \in Publishers, SubmitLock(p) PROVE SendersLocked'
    BY <2>4 DEF SubmitLock, BDone
  <2>5. ASSUME NEW p \in Publishers, SubmitSend(p) PROVE SendersLocked'
    <3>1. p \in readers /\ ~BusClosed
      BY <2>5 DEF SubmitSend
    <3>2. PICK h \in publishers[p].left : Onward(p, h, "submit")
      BY <2>5 DEF SubmitSend
    <3>3. /\ publishers' \in [Publishers -> [at : {"idle", "done", "submit", "send", "sync"}, left : SUBSET Handlers]]
          /\ publishers'[p].at # "send"
          /\ \A q \in Publishers \ {p} : publishers'[q] = publishers[q]
      BY <3>2 DEF Onward, BDone
    <3>4. readers' = readers \ {p} /\ busPanic' = (busPanic \/ BusClosed) /\ UNCHANGED <<closing, subscribed>>
      BY <2>5 DEF SubmitSend
    <3> QED
      BY <3>1, <3>3, <3>4
  <2>6. ASSUME NEW p \in Publishers, SubmitRefused(p) PROVE SendersLocked'
    BY <2>6 DEF SubmitRefused, BDone
  <2>7. ASSUME NEW p \in Publishers, PublishSync(p) PROVE SendersLocked'
    BY <2>7 DEF PublishSync, Onward, BDone
  <2>8. ASSUME NEW w \in PoolWorkers, WorkerTakes(w) PROVE SendersLocked'
    BY <2>8 DEF WorkerTakes
  <2>9. ASSUME NEW c \in PoolWorkers \union Publishers, Attempt(c) PROVE SendersLocked'
    BY <2>9 DEF Attempt
  <2>10. CASE CloseBegins \/ CloseChannel \/ CloseReturns \/ BusStopped
    BY <2>10 DEF CloseBegins, CloseChannel, CloseReturns, BusStopped
  <2> QED
    BY <2>1, <2>2, <2>3, <2>4, <2>5, <2>6, <2>7, <2>8, <2>9, <2>10 DEF BusNext
<1>3. SendersLocked => NoSendOnClosed
  BY DEF SendersLocked, NoSendOnClosed
<1> QED
  BY <1>1, <1>2, <1>3, PTL DEF BusSpec

\* An accepted delivery is in the queue or in the hands of a worker until it is settled.
AcceptedHeld ==
    /\ outcome \in [Tasks -> {"none", "queued", "delivered", "dead"}]
    /\ couriers \in [PoolWorkers \union Publishers -> Tasks \union {NoTask}]
    /\ publishers \in [Publishers -> [at : {"idle", "done", "submit", "send", "sync"}, left : SUBSET Handlers]]
    /\ subscribed \subseteq Handlers
    /\ queue \in Seq(Tasks)
    /\ \A t \in Tasks : outcome[t] = "queued" =>
        \/ \E i \in 1..Len(queue) : queue[i] = t
        \/ \E w \in PoolWorkers : couriers[w] = t
    /\ (closing = "returned" /\ ~stopped) => \A t \in Tasks : outcome[t] # "queued"

\* Close returns, unless the context was cancelled, only when every delivery that
\* PublishAsync accepted has been handed over or is a dead letter.
THEOREM CloseDrains == BusSpec => []AcceptedBeforeClose
<1>1. BusInit => AcceptedHeld
  BY DEF BusInit, AcceptedHeld, BIdle
<1>2. AcceptedHeld /\ [BusNext]_bvars => AcceptedHeld'
  <2> SUFFICES ASSUME AcceptedHeld, [BusNext]_bvars PROVE AcceptedHeld'
    OBVIOUS
  <2> USE DEF AcceptedHeld
  <2>1. CASE UNCHANGED bvars
    BY <2>1 DEF bvars
  <2>2. ASSUME NEW h \in Handlers, SubscribeHandler(h) PROVE AcceptedHeld'
    BY <2>2 DEF SubscribeHandler
  <2>3. ASSUME NEW p \in Publishers, NEW how \in {"submit", "sync"}, PublishEvent(p, how) PROVE AcceptedHeld'
    BY <2>3 DEF PublishEvent, Matching
  <2>4. ASSUME NEW p \in Publishers, SubmitLock(p) PROVE AcceptedHeld'
    BY <2>4 DEF SubmitLock, BDone
  <2>5. ASSUME NEW p \in Publishers, SubmitSend(p) PROVE AcceptedHeld'
    <3>1. PICK h \in publishers[p].left :
            /\ queue' = IF BusClosed THEN queue ELSE Append(queue, <<p, h>>)
            /\ outcome' = IF BusClosed THEN outcome ELSE [outcome EXCEPT ![<<p, h>>] = "queued"]
            /\ Onward(p, h, "submit")
      BY <2>5 DEF SubmitSend
    <3>2. h \in Handlers /\ <<p, h>> \in Tasks
      BY DEF Tasks
    <3>3. publishers' \in [Publishers -> [at : {"idle", "done", "submit", "send", "sync"}, left : SUBSET Handlers]]
      BY <3>1, <3>2 DEF Onward, BDone
    <3>4. UNCHANGED <<subscribed, closing, stopped, couriers>>
      BY <2>5 DEF SubmitSend
    <3>5. CASE BusClosed
      BY <3>1, <3>3, <3>4, <3>5
    <3>6. CASE ~BusClosed
      <4>1. queue' = Append(queue, <<p, h>>) /\ outcome' = [outcome EXCEPT ![<<p, h>>] = "queued"]
        BY <3>1, <3>6
      <4>2. queue' \in Seq(Tasks) /\ Len(queue') = Len(queue) + 1 /\ queue'[Len(queue) + 1] = <<p, h>>
            /\ \A i \in 1..Len(queue) : queue'[i] = queue[i]
        BY <4>1, <3>2
      <4>3. outcome' \in [Tasks -> {"none", "queued", "delivered", "dead"}]
        BY <4>1, <3>2
      <4>4. ASSUME NEW t \in Tasks, outcome'[t] = "queued"
            PROVE (\E i \in 1..Len(queue') : queue'[i] = t) \/ (\E w \in PoolWorkers : couriers'[w] = t)
        <5>1. CASE t = <<p, h>>
          BY <5>1, <4>2
        <5>2. CASE t # <<p, h>>
          BY <5>2, <4>1, <4>2, <4>4, <3>4
        <5> QED
          BY <5>1, <5>2
      <4>5. closing' # "returned"
        BY <3>6, <3>4 DEF BusClosed
      <4> QED
        BY <3>3, <3>4, <4>2, <4>3, <4>4, <4>5
    <3> QED
      BY <3>5, <3>6
  <2>6. ASSUME NEW p \in Publishers, SubmitRefused(p) PROVE AcceptedHeld'
    BY <2>6 DEF SubmitRefused, BDone
  <2>7. ASSUME NEW p \in Publishers, PublishSync(p) PROVE AcceptedHeld'
    <3>1. PICK h \in publishers[p].left : couriers' = [couriers EXCEPT ![p] = <<p, h>>] /\ Onward(p, h, "sync")
      BY <2>7 DEF PublishSync
    <3>2. <<p, h>> \in Tasks
      BY DEF Tasks
    <3>3. couriers[p] = NoTask /\ UNCHANGED <<subscribed, queue, closing, stopped, outcome>>
      BY <2>7 DEF PublishSync
    <3>4. publishers' \in [Publishers -> [at : {"idle", "done", "submit", "send", "sync"}, left : SUBSET Handlers]]
      BY <3>1 DEF Onward, BDone
    <3>5. \A w \in PoolWorkers : couriers[w] \in Tasks => couriers'[w] = couriers[w]
      BY <3>1, <3>3, BusAssumption DEF Tasks
    <3>6. couriers' \in [PoolWorkers \union Publishers -> Tasks \union {NoTask}]
      BY <3>1, <3>2
    <3>7. ASSUME NEW t \in Tasks, outcome'[t] = "queued"
          PROVE (\E i \in 1..Len(queue') : queue'[i] = t) \/ (\E w \in PoolWorkers : couriers'[w] = t)
      BY <3>7, <3>3, <3>5
    <3> QED
      BY <3>3, <3>4, <3>6, <3>7
  <2>8. ASSUME NEW w \in PoolWorkers, WorkerTakes(w) PROVE AcceptedHeld'
    <3>1. queue # <<>> /\ couriers[w] = NoTask /\ closing # "returned"
          /\ couriers' = [couriers EXCEPT ![w] = Head(queue)] /\ queue' = Tail(queue)
          /\ UNCHANGED <<subscribed, publishers, closing, stopped, outcome>>
      BY <2>8 DEF WorkerTakes
    <3>2. Head(queue) \in Tasks /\ Head(queue) = queue[1] /\ queue' \in Seq(Tasks) /\ Len(queue') = Len(queue) - 1
          /\ \A i \in 1..Len(queue') : queue'[i] = queue[i + 1]
      BY <3>1
    <3>3. ASSUME NEW t \in Tasks, outcome'[t] = "queued"
          PROVE (\E i \in 1..Len(queue') : queue'[i] = t) \/ (\E v \in PoolWorkers : couriers'[v] = t)
      <4>1. CASE \E v \in PoolWorkers : couriers[v] = t
        BY <4>1, <3>1, BusAssumption DEF Tasks
      <4>2. CASE \E i \in 1..Len(queue) : queue[i] = t
        <5>1. PICK i \in 1..Len(queue) : queue[i] = t
          BY <4>2
        <5>2. CASE i = 1
          BY <5>1, <5>2, <3>1, <3>2
        <5>3. CASE i # 1
          <6>1. i - 1 \in 1..Len(queue') /\ queue'[i - 1] = queue[(i - 1) + 1]
            BY <5>1, <5>3, <3>2
          <6> QED
            BY <6>1, <5>1
        <5> QED
          BY <5>2, <5>3
      <4> QED
        BY <3>1, <3>3, <4>1, <4>2
    <3> QED
      BY <3>1, <3>2, <3>3
  <2>9. ASSUME NEW c \in PoolWorkers \union Publishers, Attempt(c) PROVE AcceptedHeld'
    <3>1. couriers[c] \in Tasks /\ UNCHANGED <<subscribed, publishers, queue, closing, stopped>>
      BY <2>9 DEF Attempt
    <3>2. CASE UNCHANGED <<outcome, couriers>>
      BY <3>1, <3>2
    <3>3. CASE ~UNCHANGED <<outcome, couriers>>
      <4>1. PICK o \in {"dead", "delivered"} :
              outcome' = [outcome EXCEPT ![couriers[c]] = o] /\ couriers' = [couriers EXCEPT ![c] = NoTask]
        BY <2>9, <3>3 DEF Attempt
      <4>2. ASSUME NEW t \in Tasks, outcome'[t] = "queued"
            PROVE t # couriers[c] /\ outcome[t] = "queued" /\ \A w \in PoolWorkers : couriers[w] = t => couriers'[w] = t
        BY <4>1, <4>2, <3>1
      <4> QED
        BY <4>1, <4>2, <3>1
    <3> QED
      BY <3>2, <3>3
  <2>10. CASE CloseBegins \/ CloseChannel \/ BusStopped
    BY <2>10 DEF CloseBegins, CloseChannel, BusStopped
  <2>11. CASE CloseReturns
    <3>1. ~stopped => queue = <<>> /\ \A w \in PoolWorkers : couriers[w] = NoTask
      BY <2>11, BusAssumption DEF CloseReturns, Returns
    <3> QED
      BY <2>11, <3>1, BusAssumption DEF CloseReturns, Tasks
  <2> QED
    BY <2>1, <2>2, <2>3, <2>4, <2>5, <2>6, <2>7, <2>8, <2>9, <2>10, <2>11 DEF BusNext
<1>3. AcceptedHeld => AcceptedBeforeClose
  BY DEF AcceptedHeld, AcceptedBeforeClose
<1> QED
  BY <1>1, <1>2, <1>3, PTL DEF BusSpec
-----------------------------------------------------------------------------
(* The streaming hub *)

\* A ping that is under way has only open channels left, and keeps the lock.
PingsOpen ==
    /\ hsubs \in [Streams -> Topics \union {"none", "left"}]
    /\ pings \in [on : BOOLEAN, left : SUBSET Streams]
    /\ pings.left # {} => pings.on
    /\ \A s \in pings.left : hsubs[s] \in Topics
    /\ hcrash # "ping"

\* The heartbeat of the hub never sends on a channel that Unsubscribe has closed.
THEOREM PingsSafe == HubSpec => []PingNeverCrashes
<1>1. HubInit => PingsOpen
  BY DEF HubInit, PingsOpen, HIdle
<1>2. PingsOpen /\ [HubNext]_hvars => PingsOpen'
  <2> SUFFICES ASSUME PingsOpen, [HubNext]_hvars PROVE PingsOpen'
    OBVIOUS
  <2> USE DEF PingsOpen
  <2>1. CASE UNCHANGED hvars
    BY <2>1 DEF hvars
  <2>2. ASSUME NEW s \in Streams, HubCount(s) \/ Leaves(s) \/ Reads(s) PROVE PingsOpen'
    BY <2>2 DEF HubCount, Leaves, Reads
  <2>3. ASSUME NEW s \in Streams, NEW t \in Topics, HubSubscribe(s, t) PROVE PingsOpen'
    BY <2>3 DEF HubSubscribe, Unlocked
  <2>4. ASSUME NEW s \in Streams, Unsubscribe(s) PROVE PingsOpen'
    BY <2>4 DEF Unsubscribe, Unlocked
  <2>5. ASSUME NEW s \in Streams, DispatchSend(s) PROVE PingsOpen'
    BY <2>5 DEF DispatchSend, Offer
  <2>6. ASSUME NEW s \in Streams, PingSend(s) PROVE PingsOpen'
    BY <2>6, HubAssumption DEF PingSend, Offer, HIdle
  <2>7. ASSUME NEW t \in Topics, HubPublish(t) PROVE PingsOpen'
    BY <2>7 DEF HubPublish
  <2>8. CASE Dispatch \/ DispatchEnd
    BY <2>8 DEF Dispatch, DispatchEnd
  <2>9. CASE Ping
    BY <2>9 DEF Ping, Listed
  <2>10. CASE PingEnd
    BY <2>10 DEF PingEnd, HIdle
  <2> QED
    BY <2>1, <2>2, <2>3, <2>4, <2>5, <2>6, <2>7, <2>8, <2>9, <2>10 DEF HubNext
<1>3. PingsOpen => PingNeverCrashes
  BY DEF PingsOpen, PingNeverCrashes
<1> QED
  BY <1>1, <1>2, <1>3, PTL DEF HubSpec

\* What is added to the list is counted once and taken out once.
ConnsCounted ==
    /\ hsubs \in [Streams -> Topics \union {"none", "left"}]
    /\ leaving \in [Streams -> Nat]
    /\ joining \subseteq Listed
    /\ \A s \in Streams : s \in joining \/ hsubs[s] = "none" => leaving[s] = 0
    /\ conns \in Int
    /\ ConnectionsCounted

\* activeConns never drifts from the subscriptions, though each one is taken out twice.
THEOREM HubCounts == HubSpec => []ConnectionsCounted
<1>1. HubInit => ConnsCounted
  <2> SUFFICES ASSUME HubInit PROVE ConnsCounted
    OBVIOUS
  <2>1. Listed = {} /\ joining = {} /\ conns = 0
    BY HubAssumption DEF HubInit, Listed
  <2> QED
    BY <2>1, FS_EmptySet DEF HubInit, ConnsCounted, ConnectionsCounted
<1>2. ConnsCounted /\ [HubNext]_hvars => ConnsCounted'
  <2> SUFFICES ASSUME ConnsCounted, [HubNext]_hvars PROVE ConnsCounted'
    OBVIOUS
  <2>0. /\ IsFiniteSet(Listed) /\ IsFiniteSet(joining)
        /\ Cardinality(Listed) \in Nat /\ Cardinality(joining) \in Nat
    BY HubAssumption, FS_Subset, FS_CardinalityType DEF ConnsCounted, Listed
  <2>1. CASE UNCHANGED <<hsubs, conns, joining, leaving>>
    BY <2>1 DEF ConnsCounted, ConnectionsCounted, Listed
  <2>2. ASSUME NEW s \in Streams, HubCount(s) PROVE ConnsCounted'
    <3>1. s \in joining /\ joining' = joining \ {s} /\ conns' = conns + 1 /\ UNCHANGED <<hsubs, leaving>>
      BY <2>2 DEF HubCount
    <3>2. Listed' = Listed /\ Cardinality(joining') = Cardinality(joining) - 1
      BY <3>1, <2>0, FS_RemoveElement DEF Listed
    <3> QED
      BY <3>1, <3>2, <2>0 DEF ConnsCounted, ConnectionsCounted
  <2>3. ASSUME NEW s \in Streams, Leaves(s) PROVE ConnsCounted'
    <3>1. s \notin joining /\ hsubs[s] # "none" /\ leaving' = [leaving EXCEPT ![s] = 2]
          /\ UNCHANGED <<hsubs, conns, joining>>
      BY <2>3, HubAssumption DEF Leaves, Listed
    <3> QED
      BY <3>1 DEF ConnsCounted, ConnectionsCounted, Listed
  <2>4. ASSUME NEW s \in Streams, NEW t \in Topics, HubSubscribe(s, t) PROVE ConnsCounted'
    <3>1. s \notin Listed /\ s \notin joining /\ hsubs' = [hsubs EXCEPT ![s] = t] /\ joining' = joining \union {s}
          /\ UNCHANGED <<conns, leaving>>
      BY <2>4, HubAssumption DEF HubSubscribe, ConnsCounted, Listed
    <3>2. Listed' = Listed \union {s}
      BY <3>1 DEF Listed, ConnsCounted
    <3>3. Cardinality(Listed') = Cardinality(Listed) + 1 /\ Cardinality(joining') = Cardinality(joining) + 1
      BY <3>1, <3>2, <2>0, FS_AddElement
    <3>4. leaving[s] = 0
      BY <2>4 DEF HubSubscribe, ConnsCounted
    <3> QED
      BY <3>1, <3>2, <3>3, <3>4, <2>0 DEF ConnsCounted, ConnectionsCounted
  <2>5. ASSUME NEW s \in Streams, Unsubscribe(s) PROVE ConnsCounted'
    <3>1. leaving[s] > 0 /\ leaving' = [leaving EXCEPT ![s] = @ - 1] /\ joining' = joining
      BY <2>5 DEF Unsubscribe
    <3>2. s \notin joining /\ hsubs[s] # "none" /\ leaving' \in [Streams -> Nat]
          /\ \A q \in Streams \ {s} : leaving'[q] = leaving[q]
      BY <3>1 DEF ConnsCounted
    <3>3. CASE s \in Listed
      <4>1. hsubs' = [hsubs EXCEPT ![s] = "left"] /\ conns' = conns - 1
        BY <2>5, <3>3 DEF Unsubscribe
      <4>2. Listed' = Listed \ {s}
        BY <4>1, HubAssumption DEF Listed, ConnsCounted
      <4>3. Cardinality(Listed') = Cardinality(Listed) - 1
        BY <4>2, <3>3, <2>0, FS_RemoveElement
      <4> QED
        BY <3>1, <3>2, <4>1, <4>2, <4>3, <2>0 DEF ConnsCounted, ConnectionsCounted
    <3>4. CASE s \notin Listed
      <4>1. UNCHANGED <<hsubs, conns>>
        BY <2>5, <3>4 DEF Unsubscribe
      <4> QED
        BY <3>1, <3>2, <4>1 DEF ConnsCounted, ConnectionsCounted, Listed
    <3> QED
      BY <3>3, <3>4
  <2>6. ASSUME NEW s \in Streams, Reads(s) \/ DispatchSend(s) \/ PingSend(s)
        PROVE UNCHANGED <<hsubs, conns, joining, leaving>>
    BY <2>6 DEF Reads, DispatchSend, PingSend
  <2>7. ASSUME (\E t \in Topics : HubPublish(t)) \/ Dispatch \/ DispatchEnd \/ Ping \/ PingEnd
        PROVE UNCHANGED <<hsubs, conns, joining, leaving>>
    BY <2>7 DEF HubPublish, Dispatch, DispatchEnd, Ping, PingEnd
  <2>8. UNCHANGED hvars => UNCHANGED <<hsubs, conns, joining, leaving>>
    BY DEF hvars
  <2> QED
    BY <2>1, <2>2, <2>3, <2>4, <2>5, <2>6, <2>7, <2>8 DEF HubNext
<1>3. ConnsCounted => ConnectionsCounted
  BY DEF ConnsCounted
<1> QED
  BY <1>1, <1>2, <1>3, PTL DEF HubSpec
-----------------------------------------------------------------------------
(* The migrations *)

\* Whoever migrates has the lock to itself; what has been recorded since it read the table
\* is its own work, in its own order.
BootsOrdered ==
    /\ boots \in [Replicas -> [phase : {"start", "locked", "apply", "conflict", "up"}, i : Nat]]
    /\ \A r \in Replicas : boots[r].phase \in {"locked", "apply"} => advisory = r
    /\ \A r \in Replicas : boots[r].phase = "apply" =>
        /\ boots[r].i >= 1
        /\ snapshot[r] \subseteq applied
        /\ \A v \in applied \ snapshot[r] : \E h \in 1..Len(Wanted[r]) : h < boots[r].i /\ v = Wanted[r][h]
        /\ \A h \in 1..Len(Wanted[r]) : h < boots[r].i => Wanted[r][h] \in applied
    /\ DOMAIN snapshot = Replicas
    /\ NoBootConflict
    /\ AppliedOnBase

\* Executables with overlapping lists start together without a conflict, and each version
\* takes effect on top of those before it in every list, whoever dies in the middle.
THEOREM MigrationsOrdered == MigrationsSpec => [](NoBootConflict /\ AppliedOnBase)
<1> USE DEF At, BootTo
<1>1. MigrationsInit => BootsOrdered
  BY DEF MigrationsInit, BootsOrdered, NoBootConflict, AppliedOnBase
<1>2. BootsOrdered /\ [MigrationsNext]_mvars => BootsOrdered'
  <2> SUFFICES ASSUME BootsOrdered, [MigrationsNext]_mvars PROVE BootsOrdered'
    OBVIOUS
  <2>1. CASE UNCHANGED mvars
    BY <2>1 DEF mvars, BootsOrdered, NoBootConflict, AppliedOnBase
  <2>2. ASSUME NEW r \in Replicas, LockSession(r) PROVE BootsOrdered'
    <3>1. \A q \in Replicas : boots[q].phase \notin {"locked", "apply"}
      BY <2>2, WantedAssumption DEF LockSession, BootsOrdered
    <3> QED
      BY <2>2, <3>1 DEF LockSession, BootsOrdered, NoBootConflict, AppliedOnBase
  <2>3. ASSUME NEW r \in Replicas, LoadApplied(r) PROVE BootsOrdered'
    BY <2>3, WantedAssumption DEF LoadApplied, BootsOrdered, NoBootConflict, AppliedOnBase
  <2>4. ASSUME NEW r \in Replicas, ApplyOne(r) PROVE BootsOrdered'
    <3> DEFINE i == boots[r].i
               v == Wanted[r][i]
    <3>1. boots[r].phase = "apply" /\ i \in 1..Len(Wanted[r]) /\ Len(Wanted[r]) \in Nat
      BY <2>4, WantedAssumption DEF ApplyOne, BootsOrdered
    <3>a. \A a, b \in 1..Len(Wanted[r]) : Wanted[r][a] = Wanted[r][b] => a = b
      BY WantedAssumption, Zenon
    <3>b. \A q \in Replicas : \A a \in 1..Len(Wanted[r]), k \in 1..Len(Wanted[q]) :
            Wanted[r][a] = Wanted[q][k] => \A h \in 1..k : \E g \in 1..a : Wanted[q][h] = Wanted[r][g]
      BY WantedAssumption, Zenon
    <3>2. v \notin applied \ snapshot[r]
      <4> SUFFICES ASSUME v \in applied \ snapshot[r] PROVE FALSE
        OBVIOUS
      <4>1. PICK h \in 1..Len(Wanted[r]) : h < i /\ v = Wanted[r][h]
        BY <3>1 DEF BootsOrdered
      <4> QED
        BY <4>1, <3>1, <3>a
    <3>3. /\ boots' = [boots EXCEPT ![r] = [phase |-> "apply", i |-> i + 1]]
          /\ applied' = applied \union ({v} \ snapshot[r])
          /\ UNCHANGED <<advisory, snapshot>>
      BY <2>4, <3>2 DEF ApplyOne
    <3>4. applied' = applied \union {v}
      BY <3>1, <3>3 DEF BootsOrdered
    <3>5. \A q \in Replicas \ {r} : boots'[q] = boots[q] /\ boots[q].phase \notin {"locked", "apply"}
      BY <3>1, <3>3 DEF BootsOrdered
    <3>6. boots'[r] = [phase |-> "apply", i |-> i + 1]
      BY <3>3 DEF BootsOrdered
    <3>7. \A u \in applied' \ snapshot'[r] : \E h \in 1..Len(Wanted[r]) : h < i + 1 /\ u = Wanted[r][h]
      <4> SUFFICES ASSUME NEW u \in applied' \ snapshot'[r]
                   PROVE \E h \in 1..Len(Wanted[r]) : h < i + 1 /\ u = Wanted[r][h]
        OBVIOUS
      <4>1. CASE u = v
        BY <4>1, <3>1
      <4>2. CASE u \in applied \ snapshot[r]
        BY <4>2, <3>1 DEF BootsOrdered
      <4> QED
        BY <4>1, <4>2, <3>3, <3>4
    <3>8. \A h \in 1..Len(Wanted[r]) : h < i + 1 => Wanted[r][h] \in applied'
      BY <3>1, <3>4 DEF BootsOrdered
    <3>9. AppliedOnBase'
      <4> SUFFICES ASSUME NEW q \in Replicas, NEW k \in DOMAIN Wanted[q], Wanted[q][k] \in applied',
                          NEW h \in 1..k
                   PROVE Wanted[q][h] \in applied'
        BY DEF AppliedOnBase
      <4>1. CASE Wanted[q][k] \in applied
        BY <4>1, <3>4 DEF BootsOrdered, AppliedOnBase
      <4>2. CASE Wanted[q][k] = v
        <5>1. k \in 1..Len(Wanted[q])
          BY WantedAssumption
        <5>2. PICK g \in 1..i : Wanted[q][h] = Wanted[r][g]
          BY <5>1, <4>2, <3>1, <3>b
        <5> QED
          BY <5>2, <3>1, <3>8
      <4> QED
        BY <4>1, <4>2, <3>4
    <3>10. /\ boots' \in [Replicas -> [phase : {"start", "locked", "apply", "conflict", "up"}, i : Nat]]
           /\ NoBootConflict'
      BY <3>1, <3>3, <3>5, <3>6 DEF BootsOrdered, NoBootConflict
    <3>11. boots'[r].i >= 1 /\ snapshot'[r] \subseteq applied' /\ advisory' = r /\ DOMAIN snapshot' = Replicas
      BY <3>1, <3>3, <3>4, <3>6 DEF BootsOrdered
    <3>12. ASSUME NEW q \in Replicas, boots'[q].phase \in {"locked", "apply"} PROVE q = r
      BY <3>12, <3>5
    <3>13. boots'[r].i = i + 1
      BY <3>6
    <3> HIDE DEF i, v
    <3>14. ASSUME NEW q \in Replicas, boots'[q].phase = "apply"
           PROVE /\ boots'[q].i >= 1
                 /\ snapshot'[q] \subseteq applied'
                 /\ \A u \in applied' \ snapshot'[q] : \E h \in 1..Len(Wanted[q]) : h < boots'[q].i /\ u = Wanted[q][h]
                 /\ \A h \in 1..Len(Wanted[q]) : h < boots'[q].i => Wanted[q][h] \in applied'
      <4>1. q = r
        BY <3>12, <3>14
      <4> QED
        BY <4>1, <3>7, <3>8, <3>11, <3>13
    <3>15. \A q \in Replicas : boots'[q].phase \in {"locked", "apply"} => advisory' = q
      BY <3>11, <3>12
    <3> QED
      BY <3>9, <3>10, <3>11, <3>14, <3>15 DEF BootsOrdered
  <2>5. ASSUME NEW r \in Replicas, MigrateDone(r) \/ MigrateFails(r) PROVE BootsOrdered'
    <3>1. boots[r].phase \in {"locked", "apply"} /\ applied' = applied /\ DOMAIN snapshot' = Replicas
      BY <2>5 DEF MigrateDone, MigrateFails, BootsOrdered
    <3>2. PICK b \in [phase : {"start", "up"}, i : {0}] : boots' = [boots EXCEPT ![r] = b]
      BY <2>5 DEF MigrateDone, MigrateFails
    <3>3. \A q \in Replicas \ {r} : boots'[q] = boots[q] /\ boots[q].phase \notin {"locked", "apply"}
      BY <3>1, <3>2 DEF BootsOrdered
    <3>4. boots'[r].phase \notin {"locked", "apply", "conflict"}
      BY <3>2 DEF BootsOrdered
    <3> QED
      BY <3>1, <3>2, <3>3, <3>4 DEF BootsOrdered, NoBootConflict, AppliedOnBase
  <2> QED
    BY <2>1, <2>2, <2>3, <2>4, <2>5 DEF MigrationsNext
<1>3. BootsOrdered => NoBootConflict /\ AppliedOnBase
  BY DEF BootsOrdered
<1> QED
  BY <1>1, <1>2, <1>3, PTL DEF MigrationsSpec
\* No executable meets a version that another one recorded behind its back.
THEOREM BootsNeverConflict == MigrationsSpec => []NoBootConflict
BY MigrationsOrdered, PTL

\* A version is in only with those before it in every list that has it.
THEOREM VersionsOnBase == MigrationsSpec => []AppliedOnBase
BY MigrationsOrdered, PTL

-----------------------------------------------------------------------------
(* The runtime agents *)

States == {"unused", "created", "running", "exited", "gone"}
Statuses == {"none", "created", "running", "stopping", "stopped", "restarting", "failed", "deleted"}
Steps == {"idle", "created", "started", "stopping", "stopped", "restarting", "restarted", "removed"}

DockerRows == [Containers -> [node : Nodes \union {NoNode}, app : Apps \union {NoNode}, state : States]]

\* What Docker does to one container: its node and its deployment stay.
LEMMA DockerMoves ==
    ASSUME docker \in DockerRows, NEW c \in Containers, NEW s \in States,
           docker' = [docker EXCEPT ![c].state = s]
    PROVE  /\ docker' \in DockerRows
           /\ docker'[c].state = s
           /\ \A k \in Containers : docker'[k].node = docker[k].node
           /\ \A k \in Containers \ {c} : docker'[k] = docker[k]
BY DEF DockerRows, States

AgentTypes ==
    /\ docker \in DockerRows
    /\ records \in [Containers -> Statuses]
    /\ areqs \in [Clients -> [at : Steps, on : Containers \union {NoNode}]]
    /\ recovery \in [Nodes -> [at : {"idle", "rows", "mark"}, known : SUBSET Containers, todo : SUBSET Containers]]

\* A request works on a container that Docker has made, and reports the removal of one
\* that is gone.
RequestsOnMade ==
    \A p \in Clients : areqs[p].at # "idle" =>
        /\ areqs[p].on \in Containers
        /\ docker[areqs[p].on].state # "unused"
        /\ areqs[p].at = "removed" => docker[areqs[p].on].state = "gone"

RowsOfMade == \A c \in Containers : records[c] # "none" => docker[c].state # "unused"

\* What a pass has not seen of its own node was created after it looked.
PassesKnow ==
    \A n \in Nodes : \A c \in Containers :
        /\ (recovery[n].at = "rows" /\ c \notin recovery[n].known /\ Present(c) /\ docker[c].node = n) => c \in slipped
        /\ (recovery[n].at = "mark" /\ c \in recovery[n].todo) =>
            /\ docker[c].state # "unused"
            /\ (Present(c) /\ docker[c].node = n) => c \in slipped

\* FailedIsMissing for the containers that could still be started.
FailedExplained ==
    \A c \in Containers : (records[c] = "failed" /\ Present(c)) => c \in slipped \union foreign \union crossing

AgentInv ==
    AgentTypes /\ RequestsOnMade /\ RowsOfMade /\ DeletedIsGone /\ PassesKnow /\ FailedExplained

\* The two properties of the agents rest on one inductive invariant.
THEOREM AgentInvariant == AgentSpec => []AgentInv
<1> USE DEF AgentInv, AgentTypes, DockerRows, States, Statuses, Steps, Present
<1>1. AgentInit => AgentInv
  BY DEF AgentInit, NoRequest, NoRecovery, RequestsOnMade, RowsOfMade, DeletedIsGone, PassesKnow, FailedExplained
<1>2. AgentInv /\ [AgentNext]_avars => AgentInv'
  <2> SUFFICES ASSUME AgentInv, [AgentNext]_avars PROVE AgentInv'
    OBVIOUS
  <2>0. CASE UNCHANGED avars
    BY <2>0 DEF avars, RequestsOnMade, RowsOfMade, DeletedIsGone, PassesKnow, FailedExplained
  <2>1. ASSUME NEW n \in Nodes, RecoveryLists(n) PROVE AgentInv'
    <3>1. AgentTypes'
      BY <2>1 DEF RecoveryLists, ListManaged
    <3>2. RequestsOnMade'
      BY <2>1 DEF RecoveryLists, ListManaged, RequestsOnMade
    <3>3. RowsOfMade'
      BY <2>1 DEF RecoveryLists, ListManaged, RowsOfMade, RequestsOnMade
    <3>4. DeletedIsGone'
      BY <2>1 DEF RecoveryLists, ListManaged, DeletedIsGone, RequestsOnMade
    <3>5. PassesKnow'
      BY <2>1 DEF RecoveryLists, ListManaged, PassesKnow, RowsOfMade
    <3>6. FailedExplained'
      BY <2>1 DEF RecoveryLists, ListManaged, FailedExplained, PassesKnow
    <3> QED
      BY <3>1, <3>2, <3>3, <3>4, <3>5, <3>6
  <2>2. ASSUME NEW n \in Nodes, RecoveryReads(n) PROVE AgentInv'
    <3>1. AgentTypes'
      BY <2>2 DEF RecoveryReads, ListActive, NoRecovery
    <3>2. RequestsOnMade'
      BY <2>2 DEF RecoveryReads, ListActive, NoRecovery, RequestsOnMade
    <3>3. RowsOfMade'
      BY <2>2 DEF RecoveryReads, ListActive, NoRecovery, RowsOfMade, RequestsOnMade
    <3>4. DeletedIsGone'
      BY <2>2 DEF RecoveryReads, ListActive, NoRecovery, DeletedIsGone, RequestsOnMade
    <3>5. PassesKnow'
      BY <2>2 DEF RecoveryReads, ListActive, NoRecovery, PassesKnow, RowsOfMade
    <3>6. FailedExplained'
      BY <2>2 DEF RecoveryReads, ListActive, NoRecovery, FailedExplained, PassesKnow
    <3> QED
      BY <3>1, <3>2, <3>3, <3>4, <3>5, <3>6
  <2>3. ASSUME NEW n \in Nodes, RecoveryMarks(n) PROVE AgentInv'
    <3>a. PICK c \in recovery[n].todo :
            /\ SetStatus(c, "failed") \/ UNCHANGED records
            /\ foreign' = IF docker[c].node # n THEN foreign \union {c} ELSE foreign
            /\ crossing' = IF \E p \in Clients : areqs[p].on = c THEN crossing \union {c} ELSE crossing
            /\ recovery' = [recovery EXCEPT ![n] =
                  IF @.todo = {c} THEN NoRecovery ELSE [at |-> "mark", known |-> @.known, todo |-> @.todo \ {c}]]
      BY <2>3 DEF RecoveryMarks
    <3>b. c \in Containers /\ recovery[n].at = "mark" /\ UNCHANGED <<docker, areqs, slipped>>
      BY <2>3, <3>a DEF RecoveryMarks
    <3>c. /\ recovery'[n] \in {NoRecovery, [at |-> "mark", known |-> recovery[n].known, todo |-> recovery[n].todo \ {c}]}
          /\ \A m \in Nodes \ {n} : recovery'[m] = recovery[m]
          /\ recovery' \in [Nodes -> [at : {"idle", "rows", "mark"}, known : SUBSET Containers, todo : SUBSET Containers]]
      BY <3>a, <3>b DEF NoRecovery
    <3>d. records' \in [Containers -> Statuses] /\ \A k \in Containers :
            records'[k] # records[k] => k = c /\ records[k] # "none" /\ records'[k] = "failed"
      BY <3>a, <3>b DEF SetStatus
    <3>1. AgentTypes'
      BY <3>b, <3>c, <3>d
    <3>2. RequestsOnMade'
      BY <3>b DEF RequestsOnMade
    <3>3. RowsOfMade'
      BY <3>b, <3>d DEF RowsOfMade
    <3>4. DeletedIsGone'
      BY <3>b, <3>d DEF DeletedIsGone
    <3>5. PassesKnow'
      BY <3>b, <3>c DEF PassesKnow, NoRecovery
    <3>6. FailedExplained'
      BY <3>a, <3>b, <3>d DEF FailedExplained, PassesKnow
    <3> QED
      BY <3>1, <3>2, <3>3, <3>4, <3>5, <3>6
  <2>4. ASSUME NEW n \in Nodes, AgentStops(n) PROVE AgentInv'
    <3>1. AgentTypes'
      BY <2>4 DEF AgentStops, NoRequest, NoRecovery
    <3>2. RequestsOnMade'
      BY <2>4 DEF AgentStops, NoRequest, NoRecovery, RequestsOnMade
    <3>3. RowsOfMade'
      BY <2>4 DEF AgentStops, NoRequest, NoRecovery, RowsOfMade, RequestsOnMade
    <3>4. DeletedIsGone'
      BY <2>4 DEF AgentStops, NoRequest, NoRecovery, DeletedIsGone, RequestsOnMade
    <3>5. PassesKnow'
      BY <2>4 DEF AgentStops, NoRequest, NoRecovery, PassesKnow, RowsOfMade
    <3>6. FailedExplained'
      BY <2>4 DEF AgentStops, NoRequest, NoRecovery, FailedExplained, PassesKnow
    <3> QED
      BY <3>1, <3>2, <3>3, <3>4, <3>5, <3>6
  <2>5. ASSUME NEW c \in Containers, ContainerLost(c) PROVE AgentInv'
    <3>a. docker' = [docker EXCEPT ![c].state = "gone"] /\ "gone" \in States /\ Present(c) /\ UNCHANGED <<records, recovery, slipped, foreign>>
      BY <2>5 DEF ContainerLost
    <3>b. /\ docker' \in DockerRows /\ docker'[c].state = "gone"
          /\ \A k \in Containers : docker'[k].node = docker[k].node
          /\ \A k \in Containers \ {c} : docker'[k] = docker[k]
      BY <3>a, DockerMoves
    <3>1. AgentTypes'
      BY <3>a, <3>b, <2>5 DEF ContainerLost
    <3>2. RequestsOnMade'
      BY <3>a, <3>b, <2>5 DEF ContainerLost, RequestsOnMade
    <3>3. RowsOfMade'
      BY <3>a, <3>b DEF RowsOfMade
    <3>4. DeletedIsGone'
      BY <3>a, <3>b DEF DeletedIsGone
    <3>5. PassesKnow'
      BY <3>a, <3>b DEF PassesKnow
    <3>6. FailedExplained'
      BY <3>a, <3>b, <2>5 DEF ContainerLost, FailedExplained
    <3> QED
      BY <3>1, <3>2, <3>3, <3>4, <3>5, <3>6
  <2>6. ASSUME NEW c \in Containers, RemoveFails(c) PROVE AgentInv'
    <3>a. docker' = [docker EXCEPT ![c].state = (IF docker[c].state = "running" THEN "exited" ELSE docker[c].state)] /\ (IF docker[c].state = "running" THEN "exited" ELSE docker[c].state) \in States /\ Present(c) /\ UNCHANGED <<records, recovery, slipped, foreign>>
      BY <2>6 DEF RemoveFails
    <3>b. /\ docker' \in DockerRows /\ docker'[c].state = (IF docker[c].state = "running" THEN "exited" ELSE docker[c].state)
          /\ \A k \in Containers : docker'[k].node = docker[k].node
          /\ \A k \in Containers \ {c} : docker'[k] = docker[k]
      BY <3>a, DockerMoves
    <3>1. AgentTypes'
      BY <3>a, <3>b, <2>6 DEF RemoveFails
    <3>2. RequestsOnMade'
      BY <3>a, <3>b, <2>6 DEF RemoveFails, RequestsOnMade
    <3>3. RowsOfMade'
      BY <3>a, <3>b DEF RowsOfMade
    <3>4. DeletedIsGone'
      BY <3>a, <3>b DEF DeletedIsGone
    <3>5. PassesKnow'
      BY <3>a, <3>b DEF PassesKnow
    <3>6. FailedExplained'
      BY <3>a, <3>b, <2>6 DEF RemoveFails, FailedExplained
    <3> QED
      BY <3>1, <3>2, <3>3, <3>4, <3>5, <3>6
  <2>7. ASSUME NEW p \in Clients, UpsertContainer(p) PROVE AgentInv'
    <3>1. AgentTypes'
      BY <2>7 DEF UpsertContainer, Ends, NoRequest
    <3>2. RequestsOnMade'
      BY <2>7 DEF UpsertContainer, Ends, NoRequest, RequestsOnMade
    <3>3. RowsOfMade'
      BY <2>7 DEF UpsertContainer, Ends, NoRequest, RowsOfMade, RequestsOnMade
    <3>4. DeletedIsGone'
      BY <2>7 DEF UpsertContainer, Ends, NoRequest, DeletedIsGone, RequestsOnMade
    <3>5. PassesKnow'
      BY <2>7 DEF UpsertContainer, Ends, NoRequest, PassesKnow, RowsOfMade
    <3>6. FailedExplained'
      BY <2>7 DEF UpsertContainer, Ends, NoRequest, FailedExplained, PassesKnow
    <3> QED
      BY <3>1, <3>2, <3>3, <3>4, <3>5, <3>6
  <2>8. ASSUME NEW p \in Clients, DockerStopsOrRestarts(p) PROVE AgentInv'
    <3> DEFINE c == areqs[p].on
               s == IF areqs[p].at # "stopping" THEN "running"
                    ELSE IF docker[c].state = "running" THEN "exited" ELSE docker[c].state
    <3>a. c \in Containers /\ areqs[p].at \in {"stopping", "restarting"} /\ UNCHANGED <<records, recovery, slipped, foreign>>
          /\ docker[c].state # "unused" /\ crossing \subseteq crossing'
      BY <2>8 DEF DockerStopsOrRestarts, RequestsOnMade
    <3>b. areqs' \in [Clients -> [at : Steps, on : Containers \union {NoNode}]]
          /\ areqs'[p] \in {NoRequest, [at |-> "stopped", on |-> c], [at |-> "restarted", on |-> c]}
          /\ \A r \in Clients \ {p} : areqs'[r] = areqs[r]
      BY <2>8 DEF DockerStopsOrRestarts, Continues, Ends, NoRequest
    <3>c. \/ UNCHANGED docker
          \/ docker' = [docker EXCEPT ![c].state = s] /\ Present(c)
      BY <2>8 DEF DockerStopsOrRestarts
    <3>d. s \in States
      BY <3>a
    <3>e. /\ docker' \in DockerRows
          /\ \A k \in Containers : docker'[k].node = docker[k].node
          /\ \A k \in Containers : docker'[k] = docker[k] \/ (k = c /\ Present(c) /\ docker'[k].state = s)
      <4>1. CASE UNCHANGED docker
        BY <4>1
      <4>2. CASE docker' = [docker EXCEPT ![c].state = s] /\ Present(c)
        <5> HIDE DEF c, s
        <5> QED
          BY <4>2, <3>a, <3>d, DockerMoves
      <4> QED
        BY <4>1, <4>2, <3>c
    <3>f. s # "unused"
      BY <3>a
    <3> HIDE DEF s
    <3>1. AgentTypes'
      BY <3>a, <3>b, <3>e
    <3>2. RequestsOnMade'
      BY <3>a, <3>b, <3>e, <3>f DEF RequestsOnMade, NoRequest
    <3>3. RowsOfMade'
      BY <3>a, <3>e, <3>f DEF RowsOfMade
    <3>4. DeletedIsGone'
      BY <3>a, <3>e DEF DeletedIsGone
    <3>5. PassesKnow'
      BY <3>a, <3>e, <3>f DEF PassesKnow
    <3>6. FailedExplained'
      BY <3>a, <3>e DEF FailedExplained
    <3> QED
      BY <3>1, <3>2, <3>3, <3>4, <3>5, <3>6
  <2>9. ASSUME NEW p \in Clients, EndRequest(p) PROVE AgentInv'
    <3>1. AgentTypes'
      BY <2>9 DEF EndRequest, Recorded, SetStatus, Ends, NoRequest
    <3>2. RequestsOnMade'
      BY <2>9 DEF EndRequest, Recorded, SetStatus, Ends, NoRequest, RequestsOnMade
    <3>3. RowsOfMade'
      BY <2>9 DEF EndRequest, Recorded, SetStatus, Ends, NoRequest, RowsOfMade, RequestsOnMade
    <3>4. DeletedIsGone'
      BY <2>9 DEF EndRequest, Recorded, SetStatus, Ends, NoRequest, DeletedIsGone, RequestsOnMade
    <3>5. PassesKnow'
      BY <2>9 DEF EndRequest, Recorded, SetStatus, Ends, NoRequest, PassesKnow, RowsOfMade
    <3>6. FailedExplained'
      BY <2>9 DEF EndRequest, Recorded, SetStatus, Ends, NoRequest, FailedExplained, PassesKnow
    <3> QED
      BY <3>1, <3>2, <3>3, <3>4, <3>5, <3>6
  <2>10. ASSUME NEW p \in Clients, NEW c \in Containers, StartContainer(p, c) PROVE AgentInv'
    <3>a. docker' = [docker EXCEPT ![c].state = "running"] /\ "running" \in States /\ Present(c) /\ UNCHANGED <<records, recovery, slipped, foreign>>
      BY <2>10 DEF StartContainer
    <3>b. /\ docker' \in DockerRows /\ docker'[c].state = "running"
          /\ \A k \in Containers : docker'[k].node = docker[k].node
          /\ \A k \in Containers \ {c} : docker'[k] = docker[k]
      BY <3>a, DockerMoves
    <3>1. AgentTypes'
      BY <3>a, <3>b, <2>10 DEF StartContainer, Begins
    <3>2. RequestsOnMade'
      BY <3>a, <3>b, <2>10 DEF StartContainer, Begins, RequestsOnMade
    <3>3. RowsOfMade'
      BY <3>a, <3>b DEF RowsOfMade
    <3>4. DeletedIsGone'
      BY <3>a, <3>b DEF DeletedIsGone
    <3>5. PassesKnow'
      BY <3>a, <3>b DEF PassesKnow
    <3>6. FailedExplained'
      BY <3>a, <3>b, <2>10 DEF StartContainer, Begins, FailedExplained
    <3> QED
      BY <3>1, <3>2, <3>3, <3>4, <3>5, <3>6
  <2>11. ASSUME NEW p \in Clients, NEW c \in Containers, StopContainer(p, c) PROVE AgentInv'
    <3>1. AgentTypes'
      BY <2>11 DEF StopContainer, Begins, SetStatus
    <3>2. RequestsOnMade'
      BY <2>11 DEF StopContainer, Begins, SetStatus, RequestsOnMade
    <3>3. RowsOfMade'
      BY <2>11 DEF StopContainer, Begins, SetStatus, RowsOfMade, RequestsOnMade
    <3>4. DeletedIsGone'
      BY <2>11 DEF StopContainer, Begins, SetStatus, DeletedIsGone, RequestsOnMade
    <3>5. PassesKnow'
      BY <2>11 DEF StopContainer, Begins, SetStatus, PassesKnow, RowsOfMade
    <3>6. FailedExplained'
      BY <2>11 DEF StopContainer, Begins, SetStatus, FailedExplained, PassesKnow
    <3> QED
      BY <3>1, <3>2, <3>3, <3>4, <3>5, <3>6
  <2>12. ASSUME NEW p \in Clients, NEW c \in Containers, RestartContainer(p, c) PROVE AgentInv'
    <3>1. AgentTypes'
      BY <2>12 DEF RestartContainer, Begins, SetStatus
    <3>2. RequestsOnMade'
      BY <2>12 DEF RestartContainer, Begins, SetStatus, RequestsOnMade, RowsOfMade
    <3>3. RowsOfMade'
      BY <2>12 DEF RestartContainer, Begins, SetStatus, RowsOfMade, RequestsOnMade
    <3>4. DeletedIsGone'
      BY <2>12 DEF RestartContainer, Begins, SetStatus, DeletedIsGone, RequestsOnMade
    <3>5. PassesKnow'
      BY <2>12 DEF RestartContainer, Begins, SetStatus, PassesKnow, RowsOfMade
    <3>6. FailedExplained'
      BY <2>12 DEF RestartContainer, Begins, SetStatus, FailedExplained, PassesKnow
    <3> QED
      BY <3>1, <3>2, <3>3, <3>4, <3>5, <3>6
  <2>13. ASSUME NEW p \in Clients, NEW c \in Containers, RemoveContainer(p, c) PROVE AgentInv'
    <3>a. docker' = [docker EXCEPT ![c].state = "gone"] /\ "gone" \in States /\ Present(c) /\ UNCHANGED <<records, recovery, slipped, foreign>>
      BY <2>13 DEF RemoveContainer
    <3>b. /\ docker' \in DockerRows /\ docker'[c].state = "gone"
          /\ \A k \in Containers : docker'[k].node = docker[k].node
          /\ \A k \in Containers \ {c} : docker'[k] = docker[k]
      BY <3>a, DockerMoves
    <3>1. AgentTypes'
      BY <3>a, <3>b, <2>13 DEF RemoveContainer, Begins
    <3>2. RequestsOnMade'
      BY <3>a, <3>b, <2>13 DEF RemoveContainer, Begins, RequestsOnMade
    <3>3. RowsOfMade'
      BY <3>a, <3>b DEF RowsOfMade
    <3>4. DeletedIsGone'
      BY <3>a, <3>b DEF DeletedIsGone
    <3>5. PassesKnow'
      BY <3>a, <3>b DEF PassesKnow
    <3>6. FailedExplained'
      BY <3>a, <3>b, <2>13 DEF RemoveContainer, Begins, FailedExplained
    <3> QED
      BY <3>1, <3>2, <3>3, <3>4, <3>5, <3>6
  <2>14. ASSUME NEW p \in Clients, NEW n \in Nodes, NEW app \in Apps, NEW c \in Containers, CreateContainer(p, n, app, c) PROVE AgentInv'
    <3>a. /\ docker[c].state = "unused" /\ acalls < AMaxCalls /\ areqs[p] = NoRequest
          /\ docker' = [docker EXCEPT ![c] = [node |-> n, app |-> app, state |-> "created"]]
          /\ areqs' = [areqs EXCEPT ![p] = [at |-> "created", on |-> c]]
          /\ slipped' = IF recovery[n].at = "rows" THEN slipped \union {c} ELSE slipped
          /\ crossing \subseteq crossing'
          /\ UNCHANGED <<records, recovery, foreign>>
      BY <2>14 DEF CreateContainer, Begins
    <3>b. /\ docker' \in DockerRows /\ docker'[c] = [node |-> n, app |-> app, state |-> "created"]
          /\ \A k \in Containers \ {c} : docker'[k] = docker[k]
      BY <3>a
    <3>c. /\ areqs' \in [Clients -> [at : Steps, on : Containers \union {NoNode}]]
          /\ areqs'[p] = [at |-> "created", on |-> c]
          /\ \A r \in Clients \ {p} : areqs'[r] = areqs[r]
      BY <3>a
    <3>1. AgentTypes'
      BY <3>a, <3>b, <3>c
    <3>2. RequestsOnMade'
      BY <3>a, <3>b, <3>c DEF RequestsOnMade
    <3>3. RowsOfMade'
      BY <3>a, <3>b DEF RowsOfMade
    <3>4. DeletedIsGone'
      BY <3>a, <3>b DEF DeletedIsGone
    <3>5. PassesKnow'
      BY <3>a, <3>b DEF PassesKnow
    <3>6. FailedExplained'
      BY <3>a, <3>b DEF FailedExplained, RowsOfMade
    <3> QED
      BY <3>1, <3>2, <3>3, <3>4, <3>5, <3>6
  <2> QED
    BY <2>0, <2>1, <2>2, <2>3, <2>4, <2>5, <2>6, <2>7, <2>8, <2>9, <2>10, <2>11, <2>12, <2>13, <2>14 DEF AgentNext
<1> QED
  BY <1>1, <1>2, PTL DEF AgentSpec

\* A row says deleted only when Docker has removed the container.
THEOREM DeletionsTrue == AgentSpec => []DeletedIsGone
<1>1. AgentInv => DeletedIsGone
  BY DEF AgentInv
<1> QED
  BY <1>1, AgentInvariant, PTL

\* A recovery pass fails a running container of its own node only if it was created
\* between the two lists, or if a request was working on it.
THEOREM FailuresExplained == AgentSpec => []FailedIsMissing
<1>1. AgentInv => FailedIsMissing
  BY DEF AgentInv, FailedExplained, FailedIsMissing, Present
<1> QED
  BY <1>1, AgentInvariant, PTL
=============================================================================
