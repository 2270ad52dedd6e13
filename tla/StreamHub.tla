------------------------------ MODULE StreamHub ------------------------------
(* The streaming hub of the proxy (proxy/streaming): Redis messages and pings   *)
(* fan out to the buffered channels of SSE clients, which come and go. The hub  *)
(* listens to two Redis channels only; the dispatch loop sends to a copy of the *)
(* lists after it has let go of the lock, the pings keep it.                   *)
EXTENDS Naturals, FiniteSets

CONSTANTS
    Streams,     \* SSE subscriptions; an id is not used twice
    Topics,      \* Redis channels, "proxy" and "broadcast" among them
    BufSize,     \* bufSize of a subscription
    HMaxCalls    \* bound on published messages and pings

ASSUME HubAssumption == IsFiniteSet(Streams) /\ {"none", "left"} \intersect Topics = {}

VARIABLES
    hsubs,    \* subs: the topic of each subscription, "none" before and "left" after
    buffer,   \* how full each channel is
    conns,    \* activeConns
    joining,  \* subscriptions that are listed but not counted yet
    leaving,  \* those whose context is done, or whose caller unsubscribes, or both
    inRedis,  \* how many messages are on their way
    fanout,   \* the dispatch loop: the subscriptions of its copy that it has left to send to
    pings,    \* the heartbeat, likewise, with the read lock held
    hcrash,   \* who sent on a closed channel: none, dispatch or ping
    hcalls

hvars == <<hsubs, buffer, conns, joining, leaving, inRedis, fanout, pings, hcrash, hcalls>>

Listed == {s \in Streams : hsubs[s] \in Topics}
InTopic(t) == {s \in Streams : hsubs[s] = t}
HIdle == [on |-> FALSE, left |-> {}]

HubInit ==
    /\ hsubs = [s \in Streams |-> "none"] /\ buffer = [s \in Streams |-> 0]
    /\ conns = 0 /\ joining = {} /\ leaving = [s \in Streams |-> 0]
    /\ inRedis = 0
    /\ fanout = HIdle /\ pings = HIdle /\ hcrash = "none" /\ hcalls = 0

\* The write lock waits for the reader that pings.
Unlocked == ~pings.on

-----------------------------------------------------------------------------
(* Subscriptions *)

\* Subscribe lists the channel under the lock, and counts it after.
HubSubscribe(s, t) ==
    /\ hsubs[s] = "none" /\ Unlocked
    /\ hsubs' = [hsubs EXCEPT ![s] = t]
    /\ joining' = joining \union {s}
    /\ UNCHANGED <<buffer, conns, leaving, inRedis, fanout, pings, hcrash, hcalls>>
HubCount(s) ==
    /\ s \in joining
    /\ joining' = joining \ {s} /\ conns' = conns + 1
    /\ UNCHANGED <<hsubs, buffer, leaving, inRedis, fanout, pings, hcrash, hcalls>>

\* The context ends, which starts the goroutine's Unsubscribe, and the caller calls it too.
Leaves(s) ==
    /\ s \in Listed \ joining /\ leaving[s] = 0
    /\ leaving' = [leaving EXCEPT ![s] = 2]
    /\ UNCHANGED <<hsubs, buffer, conns, joining, inRedis, fanout, pings, hcrash, hcalls>>

\* Unsubscribe: the list, the channel and the count, once.
Unsubscribe(s) ==
    /\ leaving[s] > 0 /\ Unlocked
    /\ leaving' = [leaving EXCEPT ![s] = @ - 1]
    /\ IF s \in Listed
       THEN hsubs' = [hsubs EXCEPT ![s] = "left"] /\ conns' = conns - 1
       ELSE UNCHANGED <<hsubs, conns>>
    /\ UNCHANGED <<buffer, joining, inRedis, fanout, pings, hcrash, hcalls>>

\* The client's handler takes a message from its channel.
Reads(s) ==
    /\ buffer[s] > 0
    /\ buffer' = [buffer EXCEPT ![s] = @ - 1]
    /\ UNCHANGED <<hsubs, conns, joining, leaving, inRedis, fanout, pings, hcrash, hcalls>>

-----------------------------------------------------------------------------
(* Messages *)

\* Publish: any instance, on the channel that the message names, which is never the
\* broadcast one; those that no hub listens to lose it.
HubPublish(t) ==
    /\ hcalls < HMaxCalls /\ hcalls' = hcalls + 1
    /\ inRedis' = IF t = "proxy" THEN inRedis + 1 ELSE inRedis
    /\ UNCHANGED <<hsubs, buffer, conns, joining, leaving, fanout, pings, hcrash>>

\* dispatch copies the topic's list and the broadcast list under the lock.
Dispatch ==
    /\ ~fanout.on /\ inRedis > 0
    /\ inRedis' = inRedis - 1
    /\ fanout' = [on |-> TRUE, left |-> InTopic("proxy") \union InTopic("broadcast")]
    /\ UNCHANGED <<hsubs, buffer, conns, joining, leaving, pings, hcrash, hcalls>>

\* A send to a closed channel panics; a full one is passed over.
Offer(s, who) ==
    /\ hcrash' = IF hsubs[s] = "left" THEN who ELSE hcrash
    /\ buffer' = [buffer EXCEPT ![s] = IF hsubs[s] # "left" /\ @ < BufSize THEN @ + 1 ELSE @]

DispatchSend(s) ==
    /\ fanout.on /\ s \in fanout.left /\ hcrash = "none"
    /\ Offer(s, "dispatch")
    /\ fanout' = [fanout EXCEPT !.left = @ \ {s}]
    /\ UNCHANGED <<hsubs, conns, joining, leaving, inRedis, pings, hcalls>>
DispatchEnd ==
    /\ fanout.on /\ fanout.left = {}
    /\ fanout' = HIdle
    /\ UNCHANGED <<hsubs, buffer, conns, joining, leaving, inRedis, pings, hcrash, hcalls>>

MutPing ==
    /\ ~pings.on /\ hcalls < HMaxCalls /\ hcalls' = hcalls + 1
    /\ pings' = [on |-> FALSE, left |-> Listed]
    /\ UNCHANGED <<hsubs, buffer, conns, joining, leaving, inRedis, fanout, hcrash>>

\* Heartbeat goes through the lists with the read lock held.
Ping ==
    /\ ~pings.on /\ hcalls < HMaxCalls /\ hcalls' = hcalls + 1
    /\ pings' = [on |-> TRUE, left |-> Listed]
    /\ UNCHANGED <<hsubs, buffer, conns, joining, leaving, inRedis, fanout, hcrash>>
PingSend(s) ==
    /\ s \in pings.left /\ hcrash = "none"
    /\ Offer(s, "ping")
    /\ pings' = IF pings.left = {s} THEN HIdle ELSE [pings EXCEPT !.left = @ \ {s}]
    /\ UNCHANGED <<hsubs, conns, joining, leaving, inRedis, fanout, hcalls>>
PingEnd ==
    /\ pings.on /\ pings.left = {}
    /\ pings' = HIdle
    /\ UNCHANGED <<hsubs, buffer, conns, joining, leaving, inRedis, fanout, hcrash, hcalls>>

\* A panic ends the process.
HubNext ==
    /\ hcrash = "none"
    /\ \/ \E s \in Streams :
          \/ HubCount(s) \/ Leaves(s) \/ Unsubscribe(s) \/ Reads(s) \/ DispatchSend(s) \/ PingSend(s)
          \/ \E t \in Topics : HubSubscribe(s, t)
       \/ \E t \in Topics \ {"broadcast"} : HubPublish(t)
       \/ Dispatch \/ DispatchEnd \/ Ping \/ PingEnd

HubSpec == HubInit /\ [][HubNext]_hvars

-----------------------------------------------------------------------------
(* Properties *)

\* activeConns is the number of listed subscriptions, but for those that are being added,
\* although a context and a caller both take a subscription out.
ConnectionsCounted == conns + Cardinality(joining) = Cardinality(Listed)

\* Only the dispatch loop can meet a channel that was closed after its copy; a ping never
\* does, since Unsubscribe waits for it.
PingNeverCrashes == hcrash # "ping"
=============================================================================
