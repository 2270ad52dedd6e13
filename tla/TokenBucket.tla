----------------------------- MODULE TokenBucket -----------------------------
(* The token bucket (platform/cache/redis): a Lua script refills by the time     *)
(* since the last call, by the clocks of the callers, and takes a token if there *)
(* is one. The clocks may differ, and a later call may carry an earlier time.    *)
EXTENDS Integers

CONSTANTS
    Capacity, Rate, \* tokens, and tokens per second
    Skew,           \* the callers' clocks are ahead of Redis's by 0..Skew seconds
    MaxSeconds,     \* bound on the clock
    MaxSetBack      \* bound on the seconds that calls set ts back

ASSUME BucketAssumption ==
    /\ Capacity \in Nat \ {0} /\ Rate \in Nat \ {0} /\ Skew \in 0..1 /\ MaxSeconds \in Nat /\ MaxSetBack \in Nat

VARIABLES
    clock,    \* the clock of Redis
    present,  \* the key exists
    tokens, ts, \* the fields of the hash
    expireAt, \* when the key expires
    admitted, \* calls allowed so far
    setBack   \* seconds by which calls set ts back

tbvars == <<clock, present, tokens, ts, expireAt, admitted, setBack>>

BucketInit ==
    /\ clock = 0 /\ present = FALSE /\ tokens = Capacity /\ ts = 0 /\ expireAt = 0
    /\ admitted = 0 /\ setBack = 0

Least(a, b) == IF a < b THEN a ELSE b
Most(a, b) == IF a > b THEN a ELSE b

MutRefilled(now) == Least(Capacity, tokens + Rate * Most(0, now - ts) + 1)

\* tokens after the refill; a key that is not there starts full.
Refilled(now) == IF present THEN Least(Capacity, tokens + Rate * Most(0, now - ts)) ELSE Capacity

\* ceil(capacity / rate) + 1: long enough to be full again.
TTL == ((Capacity + Rate - 1) \div Rate) + 1

\* AllowN of one token, with the caller's time; ts is set to it even when it is earlier.
Allow(now) ==
    /\ IF Refilled(now) >= 1 THEN tokens' = Refilled(now) - 1 /\ admitted' = admitted + 1
       ELSE tokens' = Refilled(now) /\ UNCHANGED admitted
    /\ setBack' = setBack + Most(0, ts - now) /\ setBack' <= MaxSetBack
    /\ ts' = now /\ present' = TRUE /\ expireAt' = clock + TTL
    /\ UNCHANGED clock

\* A second passes; a key that is due is gone.
Second ==
    /\ clock < MaxSeconds
    /\ clock' = clock + 1
    /\ present' = (present /\ clock' < expireAt)
    /\ UNCHANGED <<tokens, ts, expireAt, admitted, setBack>>

BucketNext == Second \/ \E ahead \in 0..Skew : Allow(clock + ahead)

BucketSpec == BucketInit /\ [][BucketNext]_tbvars

-----------------------------------------------------------------------------
(* Properties *)

\* The fields of the hash; a bucket never holds more than its capacity.
BucketTypeOK ==
    /\ clock \in 0..MaxSeconds /\ present \in BOOLEAN
    /\ tokens \in 0..Capacity /\ ts \in Nat /\ expireAt \in Nat /\ admitted \in Nat /\ setBack \in Nat

\* The limiter keeps its rate over any time, expired keys and clocks that differ included:
\* the burst, the refill up to now, and what the calls that set ts back gave again.
AdmittedBounded == admitted <= Capacity + Rate * (clock + Skew + setBack)
=============================================================================
