------------------------------ MODULE EventBus ------------------------------
(* The in-process event bus (platform/events) on its worker pool               *)
(* (platform/pool), with the retries of platform/retry: publishers submit      *)
(* deliveries under a read lock while somebody closes the bus or its context   *)
(* is cancelled. A waiting writer keeps new readers out, as in sync.RWMutex.   *)
EXTENDS Naturals, Sequences, FiniteSets

CONSTANTS
    Publishers,    \* goroutines that publish, one event each
    Handlers,      \* subscribers
    PoolWorkers,   \* Options.Workers
    QueueSize,     \* Options.QueueSize
    BMaxAttempts,  \* Config.MaxAttempts
    NoTask         \* nothing to deliver

\* At least one worker is started (pool.New).
ASSUME BusAssumption == NoTask \notin Publishers \X Handlers /\ PoolWorkers # {}

VARIABLES
    subscribed,  \* subs: the handlers
    publishers,  \* what each publisher does, and the handlers it has left
    readers,     \* who holds the read lock of the pool
    queue,       \* tasks: the buffered channel
    closing,     \* Close: no, lock, wait or returned; the channel is closed from wait on
    stopped,     \* the context is cancelled
    couriers,    \* the delivery that each worker is at, or publisher without the pool
    attempts,       \* attempts at the delivery of each courier
    outcome,     \* none, queued, delivered or dead
    busPanic     \* something was sent on the closed channel

bvars == <<subscribed, publishers, readers, queue, closing, stopped, couriers, attempts, outcome, busPanic>>

Tasks == Publishers \X Handlers
BIdle == [at |-> "idle", left |-> {}]
BDone == [at |-> "done", left |-> {}]
BusClosed == closing \in {"wait", "returned"}

BusInit ==
    /\ subscribed = {} /\ readers = {} /\ queue = <<>> /\ closing = "no"
    /\ stopped = FALSE /\ busPanic = FALSE
    /\ publishers = [p \in Publishers |-> BIdle]
    /\ couriers = [c \in PoolWorkers \union Publishers |-> NoTask]
    /\ attempts = [c \in PoolWorkers \union Publishers |-> 0]
    /\ outcome = [t \in Tasks |-> "none"]

-----------------------------------------------------------------------------
(* Publishing *)

SubscribeHandler(h) ==
    /\ h \notin subscribed
    /\ subscribed' = subscribed \union {h}
    /\ UNCHANGED <<publishers, readers, queue, closing, stopped, couriers, attempts, outcome, busPanic>>

\* matching: the handlers of the moment; later ones are not served.
Matching == subscribed

\* PublishAsync and Publish go through a snapshot; the first by the pool, the second itself.
PublishEvent(p, how) ==
    /\ publishers[p] = BIdle
    /\ Matching # {}
    /\ publishers' = [publishers EXCEPT ![p] = [at |-> how, left |-> Matching]]
    /\ UNCHANGED <<subscribed, readers, queue, closing, stopped, couriers, attempts, outcome, busPanic>>

\* The publisher goes on to the next handler, or is done.
Onward(p, h, at) ==
    publishers' = [publishers EXCEPT ![p] = IF @.left = {h} THEN BDone ELSE [at |-> at, left |-> @.left \ {h}]]

\* Submit takes the read lock and looks at closed; PublishAsync gives up at an error.
SubmitLock(p) ==
    /\ publishers[p].at = "submit"
    /\ closing # "lock"
    /\ IF BusClosed
       THEN publishers' = [publishers EXCEPT ![p] = BDone] /\ UNCHANGED readers
       ELSE publishers' = [publishers EXCEPT ![p].at = "send"] /\ readers' = readers \union {p}
    /\ UNCHANGED <<subscribed, queue, closing, stopped, couriers, attempts, outcome, busPanic>>

\* It waits for room in the queue with the lock held, and lets go of it.
SubmitSend(p) ==
    /\ publishers[p].at = "send"
    /\ BusClosed \/ Len(queue) < QueueSize
    /\ readers' = readers \ {p}
    /\ busPanic' = (busPanic \/ BusClosed)
    /\ \E h \in publishers[p].left :
        /\ queue' = IF BusClosed THEN queue ELSE Append(queue, <<p, h>>)
        /\ outcome' = IF BusClosed THEN outcome ELSE [outcome EXCEPT ![<<p, h>>] = "queued"]
        /\ Onward(p, h, "submit")
    /\ UNCHANGED <<subscribed, closing, stopped, couriers, attempts>>

MutSubmitRefused(p) ==
    /\ publishers[p].at = "send" /\ stopped
    /\ publishers' = [publishers EXCEPT ![p] = BDone]
    /\ UNCHANGED <<subscribed, readers, queue, closing, stopped, couriers, attempts, outcome, busPanic>>

\* or for the context.
SubmitRefused(p) ==
    /\ publishers[p].at = "send" /\ stopped
    /\ readers' = readers \ {p}
    /\ publishers' = [publishers EXCEPT ![p] = BDone]
    /\ UNCHANGED <<subscribed, queue, closing, stopped, couriers, attempts, outcome, busPanic>>

\* Publish: deliver one handler after the other.
PublishSync(p) ==
    /\ publishers[p].at = "sync" /\ couriers[p] = NoTask
    /\ \E h \in publishers[p].left :
        /\ couriers' = [couriers EXCEPT ![p] = <<p, h>>]
        /\ Onward(p, h, "sync")
    /\ UNCHANGED <<subscribed, readers, queue, closing, stopped, attempts, outcome, busPanic>>

-----------------------------------------------------------------------------
(* Delivery *)

\* A worker takes the next task; one that sees the context cancelled, or the closed
\* channel empty, returns.
Returns(w) == couriers[w] = NoTask /\ (stopped \/ (BusClosed /\ queue = <<>>))

WorkerTakes(w) ==
    /\ couriers[w] = NoTask /\ queue # <<>> /\ closing # "returned"
    /\ couriers' = [couriers EXCEPT ![w] = Head(queue)]
    /\ queue' = Tail(queue)
    /\ UNCHANGED <<subscribed, publishers, readers, closing, stopped, attempts, outcome, busPanic>>

\* retry.Do: the context, the pool's with a timeout or the caller's own, is looked at before
\* and between attempts; the last error, or one that is not retryable, is a dead letter.
Attempt(c) ==
    LET Finish(o) ==
            /\ outcome' = [outcome EXCEPT ![couriers[c]] = o]
            /\ couriers' = [couriers EXCEPT ![c] = NoTask]
            /\ attempts' = [attempts EXCEPT ![c] = 0]
    IN
    /\ couriers[c] # NoTask
    /\ \/ Finish("dead")
       \/ (~stopped \/ c \in Publishers) /\ Finish("delivered")
       \/ /\ (~stopped \/ c \in Publishers) /\ attempts[c] + 1 < BMaxAttempts
          /\ attempts' = [attempts EXCEPT ![c] = @ + 1]
          /\ UNCHANGED <<outcome, couriers>>
    /\ UNCHANGED <<subscribed, publishers, readers, queue, closing, stopped, busPanic>>

-----------------------------------------------------------------------------
(* The end *)

\* Close asks for the write lock,
CloseBegins ==
    /\ closing = "no" /\ closing' = "lock"
    /\ UNCHANGED <<subscribed, publishers, readers, queue, stopped, couriers, attempts, outcome, busPanic>>

\* closes the channel,
CloseChannel ==
    /\ closing = "lock" /\ readers = {}
    /\ closing' = "wait"
    /\ UNCHANGED <<subscribed, publishers, readers, queue, stopped, couriers, attempts, outcome, busPanic>>

MutCloseReturns ==
    /\ closing = "wait"
    /\ \A w \in PoolWorkers : couriers[w] = NoTask
    /\ closing' = "returned"
    /\ UNCHANGED <<subscribed, publishers, readers, queue, stopped, couriers, attempts, outcome, busPanic>>

\* and waits for the workers.
CloseReturns ==
    /\ closing = "wait"
    /\ \A w \in PoolWorkers : Returns(w)
    /\ closing' = "returned"
    /\ UNCHANGED <<subscribed, publishers, readers, queue, stopped, couriers, attempts, outcome, busPanic>>

\* The context that the bus was made with is cancelled, or Stop does it.
BusStopped ==
    /\ ~stopped /\ stopped' = TRUE
    /\ UNCHANGED <<subscribed, publishers, readers, queue, closing, couriers, attempts, outcome, busPanic>>

BusNext ==
    \/ \E h \in Handlers : SubscribeHandler(h)
    \/ \E p \in Publishers :
        \/ \E how \in {"submit", "sync"} : PublishEvent(p, how)
        \/ SubmitLock(p) \/ SubmitSend(p) \/ SubmitRefused(p) \/ PublishSync(p)
    \/ \E w \in PoolWorkers : WorkerTakes(w)
    \/ \E c \in PoolWorkers \union Publishers : Attempt(c)
    \/ CloseBegins \/ CloseChannel \/ CloseReturns \/ BusStopped

BusSpec == BusInit /\ [][BusNext]_bvars

\* Goroutines are scheduled; a worker with both a task and a cancelled context may take
\* either.
BusFair ==
    \/ \E p \in Publishers : SubmitLock(p) \/ SubmitSend(p) \/ SubmitRefused(p)
    \/ \E w \in PoolWorkers : (~stopped /\ WorkerTakes(w)) \/ Attempt(w)
    \/ CloseChannel \/ CloseReturns

-----------------------------------------------------------------------------
(* Properties *)

\* Submit and Close race, and nothing is ever sent on the closed channel, which would take
\* the process down.
NoSendOnClosed == ~busPanic

\* When Close has returned on a bus whose context was not cancelled, every delivery that
\* PublishAsync had accepted has reached its handler or the dead letters.
AcceptedBeforeClose ==
    (closing = "returned" /\ ~stopped) => \A t \in Tasks : outcome[t] # "queued"

\* Close comes to an end, with publishers waiting for room in a full queue and workers
\* retrying, whenever the context is cancelled.
CloseEnds == (closing = "lock") ~> (closing = "returned")
=============================================================================
