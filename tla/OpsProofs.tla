------------------------------ MODULE OpsProofs ------------------------------
(* Proofs about the operations modules (backups, sleep and wake, notifications, *)
(* billing, cron), for any rows, processes and calls at a time, and about the    *)
(* circuit breaker and the token bucket, for any callers, limits and rates.      *)
EXTENDS Backups, SleepWake, Notifications, Billing, CronScheduler, CircuitBreaker, TokenBucket, FiniteSetTheorems, TLAPS

USE BreakerAssumption, BucketAssumption

-----------------------------------------------------------------------------
(* Circuit breaker.                                                        *)

\* While the circuit is half-open, every call but the first is counted in halfOpenTries.
ProbesCounted == cstate = "half-open" => probes = tries + 1 /\ tries <= HalfOpenMax

BreakerInv == BreakerTypeOK /\ ProbesCounted /\ HalfOpenAttended

\* A new breaker is closed.
LEMMA BreakerInvInit == BreakerInit => BreakerInv
<1> SUFFICES ASSUME BreakerInit PROVE BreakerInv
  OBVIOUS
<1>1. cooled \in BOOLEAN
  BY Zenon DEF BreakerInit
<1>2. failures \in 0..(MaxFailures - 1) /\ tries \in Nat /\ probes \in Nat
  BY DEF BreakerInit
<1>3. cstate = "closed" /\ inflight \in [BCallers -> {"no", "closed", "half-open", "first"}]
  BY DEF BreakerInit
<1> QED
  BY <1>1, <1>2, <1>3 DEF BreakerInv, BreakerTypeOK, ProbesCounted, HalfOpenAttended

\* beforeCall, afterCall and time keep the invariant, whatever admitted the call that ends.
LEMMA BreakerInvNext == BreakerInv /\ [BreakerNext]_cbvars => BreakerInv'
<1> SUFFICES ASSUME BreakerInv, [BreakerNext]_cbvars PROVE BreakerInv'
  OBVIOUS
<1> USE DEF BreakerInv, BreakerTypeOK, ProbesCounted, HalfOpenAttended
<1>1. CASE CoolDown
  BY <1>1 DEF CoolDown
<1>2. ASSUME NEW c \in BCallers, CallClosed(c) PROVE BreakerInv'
  BY <1>2 DEF CallClosed
<1>3. ASSUME NEW c \in BCallers, CallFirst(c) PROVE BreakerInv'
  <2>1. inflight'[c] = "first"
    BY <1>3 DEF CallFirst
  <2> QED
    BY <1>3, <2>1 DEF CallFirst
<1>4. ASSUME NEW c \in BCallers, CallProbe(c) PROVE BreakerInv'
  <2>1. PICK f \in BCallers : inflight[f] = "first"
    BY <1>4 DEF CallProbe
  <2>2. inflight'[f] = "first"
    BY <1>4, <2>1 DEF CallProbe
  <2> QED
    BY <1>4, <2>2 DEF CallProbe, MayProbe
<1>5. ASSUME NEW c \in BCallers, Succeeds(c) PROVE BreakerInv'
  BY <1>5 DEF Succeeds
<1>6. ASSUME NEW c \in BCallers, Fails(c) PROVE BreakerInv'
  <2>1. inflight' \in [BCallers -> {"no", "closed", "half-open", "first"}] /\ tries' = tries /\ probes' = probes
    BY <1>6 DEF Fails
  <2>2. CASE Trips
    <3>1. cstate' = "open" /\ failures' = 0 /\ cooled' = FALSE
      BY <1>6, <2>2 DEF Fails
    <3>2. cooled' \in BOOLEAN
      BY <3>1, Zenon
    <3> QED
      BY <2>1, <3>1, <3>2
  <2>3. CASE ~Trips
    <3>1. failures' = failures + 1 /\ cstate' = cstate /\ cooled' = cooled
      BY <1>6, <2>3 DEF Fails
    <3>2. cstate # "half-open" /\ failures + 1 < MaxFailures
      BY <2>3 DEF Trips
    <3> QED
      BY <2>1, <3>1, <3>2
  <2> QED
    BY <2>2, <2>3
<1>7. CASE UNCHANGED cbvars
  BY <1>7 DEF cbvars
<1> QED
  BY <1>1, <1>2, <1>3, <1>4, <1>5, <1>6, <1>7 DEF BreakerNext

\* The invariant holds in every behaviour of a breaker.
THEOREM BreakerInvariant == BreakerSpec => []BreakerInv
  BY BreakerInvInit, BreakerInvNext, PTL DEF BreakerSpec

\* The count of failures stays below its limit: enough of them have opened the circuit.
THEOREM BreakerTypeCorrect == BreakerSpec => []BreakerTypeOK
<1>1. BreakerInv => BreakerTypeOK
  BY DEF BreakerInv
<1> QED
  BY <1>1, BreakerInvariant, PTL

\* A half-open circuit admits HalfOpenMax calls and the one that found it so, however late the
\* calls of earlier states end.
THEOREM BreakerProbes == BreakerSpec => []ProbesBounded
<1>1. BreakerInv => ProbesBounded
  BY DEF BreakerInv, BreakerTypeOK, ProbesCounted, ProbesBounded
<1> QED
  BY <1>1, BreakerInvariant, PTL

\* A half-open circuit has a call under way whose end settles it.
THEOREM BreakerAttended == BreakerSpec => []HalfOpenAttended
<1>1. BreakerInv => HalfOpenAttended
  BY DEF BreakerInv
<1> QED
  BY <1>1, BreakerInvariant, PTL

-----------------------------------------------------------------------------
(* Token bucket.                                                           *)

\* Multiplication by the rate is monotone.
LEMMA RateMonotone ==
  ASSUME NEW a \in Int, NEW b \in Int, a <= b
  PROVE Rate * a <= Rate * b /\ Rate * a \in Int /\ Rate * b \in Int
  OBVIOUS

\* The key lives long enough for an empty bucket to fill, and one second more.
LEMMA TTLRefills == TTL \in Nat /\ Rate * TTL >= Capacity + Rate
<1> DEFINE q == (Capacity + Rate - 1) \div Rate
<1>1. q \in Nat /\ Rate * q > (Capacity + Rate - 1) - Rate
  OBVIOUS
<1>2. TTL = q + 1
  BY DEF TTL
<1> HIDE DEF q
<1>3. Rate * TTL = Rate * q + Rate
  BY <1>1, <1>2
<1> QED
  BY <1>1, <1>2, <1>3

\* Tokens and admissions together are paid for by the capacity and the refill up to ts; the
\* key is there for as long as the bucket is not full again.
BucketInv ==
    /\ BucketTypeOK
    /\ admitted + tokens <= Capacity + Rate * (ts + setBack)
    /\ ts <= clock + Skew
    /\ ~present => (admitted = 0 /\ ts = 0) \/ (clock >= expireAt /\ expireAt + Skew >= ts + TTL)
    /\ present => expireAt + Skew >= ts + TTL

\* A bucket that was never used is full.
LEMMA BucketInvInit == BucketInit => BucketInv
<1> SUFFICES ASSUME BucketInit PROVE BucketInv
  OBVIOUS
<1>1. present = FALSE /\ present \in BOOLEAN
  BY Zenon DEF BucketInit
<1> QED
  BY <1>1 DEF BucketInit, BucketInv, BucketTypeOK

\* The refill stays within the capacity.
LEMMA RefilledTyped ==
  ASSUME BucketTypeOK, NEW now \in Nat
  PROVE Refilled(now) \in 0..Capacity
<1>1. Rate * Most(0, now - ts) \in Nat
  BY DEF Most, BucketTypeOK
<1> QED
  BY <1>1 DEF Refilled, Least, BucketTypeOK

\* A call pays for what it admits with the time since the last one, or with a key that was
\* away for long enough.
LEMMA RefilledPaid ==
  ASSUME BucketInv, NEW now \in Nat, now >= clock
  PROVE admitted + Refilled(now) <= Capacity + Rate * (now + setBack + Most(0, ts - now))
<1> USE DEF BucketInv, BucketTypeOK
<1> DEFINE m == Most(0, now - ts)
           later == now + setBack + Most(0, ts - now)
<1>1. m \in Nat /\ later = ts + setBack + m /\ later \in Nat
  BY DEF Most
<1>2. Rate * later = Rate * (ts + setBack) + Rate * m
  <2> HIDE DEF m, later
  <2> QED
    BY <1>1
<1>3. CASE present
  <2>1. Refilled(now) <= tokens + Rate * m
    <3>1. Refilled(now) = Least(Capacity, tokens + Rate * m)
      BY <1>3 DEF Refilled
    <3>2. Rate * m \in Nat
      <4> HIDE DEF m
      <4> QED
        BY <1>1
    <3> HIDE DEF m
    <3> QED
      BY <3>1, <3>2 DEF Least
  <2>2. Refilled(now) \in Nat /\ Rate * m \in Nat /\ Rate * (ts + setBack) \in Nat /\ Rate * later \in Nat
    <3>1. Refilled(now) \in Nat
      BY RefilledTyped
    <3> HIDE DEF m, later
    <3> QED
      BY <1>1, <3>1
  <2> HIDE DEF m, later
  <2>3. admitted + Refilled(now) <= Capacity + Rate * later
    BY <1>2, <2>1, <2>2
  <2> QED
    BY <2>3 DEF later
<1>4. CASE ~present
  <2>1. Refilled(now) = Capacity
    BY <1>4 DEF Refilled
  <2>2. admitted <= Rate * later
    <3>1. CASE admitted = 0
      <4> HIDE DEF later
      <4> QED
        BY <1>1, <3>1
    <3>2. CASE clock >= expireAt /\ expireAt + Skew >= ts + TTL
      <4>1. later + 1 >= ts + setBack + TTL
        BY <3>2, TTLRefills DEF Most
      <4>2. Rate * (ts + setBack + TTL) <= Rate * (later + 1)
        <5> HIDE DEF later
        <5> QED
          BY <1>1, <4>1, TTLRefills, RateMonotone
      <4>3. /\ Rate * (ts + setBack + TTL) = Rate * (ts + setBack) + Rate * TTL
            /\ Rate * (later + 1) = Rate * later + Rate
            /\ Rate * (ts + setBack) \in Nat /\ Rate * TTL \in Nat /\ Rate * later \in Nat
        <5> HIDE DEF later
        <5> QED
          BY <1>1, TTLRefills
      <4> HIDE DEF later
      <4> QED
        BY <4>2, <4>3, TTLRefills
    <3> QED
      BY <1>4, <3>1, <3>2
  <2>3. Rate * later \in Nat
    <3> HIDE DEF later
    <3> QED
      BY <1>1
  <2> HIDE DEF later
  <2>4. admitted + Refilled(now) <= Capacity + Rate * later
    BY <2>1, <2>2, <2>3
  <2> QED
    BY <2>4 DEF later
<1> QED
  BY <1>3, <1>4

\* Calls with clocks that differ, and the key's expiry, keep the invariant.
LEMMA BucketInvNext == BucketInv /\ [BucketNext]_tbvars => BucketInv'
<1> SUFFICES ASSUME BucketInv, [BucketNext]_tbvars PROVE BucketInv'
  OBVIOUS
<1>1. CASE Second
  <2>1. present' \in BOOLEAN
    BY <1>1 DEF Second
  <2> QED
    BY <1>1, <2>1, TTLRefills DEF Second, BucketInv, BucketTypeOK
<1>2. ASSUME NEW ahead \in 0..Skew, Allow(clock + ahead) PROVE BucketInv'
  <2> DEFINE now == clock + ahead
  <2>1. now \in Nat /\ now >= clock /\ now <= clock + Skew
    BY DEF BucketInv, BucketTypeOK
  <2>2. present' = TRUE /\ present' \in BOOLEAN
    BY <1>2, Zenon DEF Allow
  <2>3. /\ ts' = now /\ expireAt' = clock + TTL /\ clock' = clock
        /\ setBack' = setBack + Most(0, ts - now) /\ setBack' \in Nat
    BY <1>2, <2>1 DEF Allow, Most, BucketInv, BucketTypeOK
  <2>4. Refilled(now) \in 0..Capacity
    BY <2>1, RefilledTyped DEF BucketInv
  <2>5. /\ tokens' \in 0..Capacity /\ admitted' \in Nat
        /\ admitted' + tokens' = admitted + Refilled(now)
    <3> HIDE DEF now
    <3>1. \/ Refilled(now) >= 1 /\ tokens' = Refilled(now) - 1 /\ admitted' = admitted + 1
          \/ ~(Refilled(now) >= 1) /\ tokens' = Refilled(now) /\ admitted' = admitted
      BY <1>2 DEF Allow, now
    <3> QED
      BY <2>4, <3>1 DEF BucketInv, BucketTypeOK
  <2>6. admitted + Refilled(now) <= Capacity + Rate * (now + setBack + Most(0, ts - now))
    BY <2>1, RefilledPaid
  <2>7. ts' + setBack' = now + setBack + Most(0, ts - now)
    BY <2>1, <2>3 DEF Most, BucketInv, BucketTypeOK
  <2>8. admitted' + tokens' <= Capacity + Rate * (ts' + setBack')
    BY <2>5, <2>6, <2>7
  <2> QED
    BY <2>1, <2>2, <2>3, <2>5, <2>8, TTLRefills DEF BucketInv, BucketTypeOK
<1>3. CASE UNCHANGED tbvars
  BY <1>3 DEF tbvars, BucketInv, BucketTypeOK
<1> QED
  BY <1>1, <1>2, <1>3 DEF BucketNext

\* The invariant holds in every behaviour of a bucket.
THEOREM BucketInvariant == BucketSpec => []BucketInv
  BY BucketInvInit, BucketInvNext, PTL DEF BucketSpec

\* A bucket never holds more than its capacity.
THEOREM BucketTypeCorrect == BucketSpec => []BucketTypeOK
<1>1. BucketInv => BucketTypeOK
  BY DEF BucketInv
<1> QED
  BY <1>1, BucketInvariant, PTL

\* For any capacity and rate the bucket never admits more than its burst, the refill up to now,
\* and what clocks that went back gave again.
THEOREM BucketRateKept == BucketSpec => []AdmittedBounded
<1>1. BucketInv => AdmittedBounded
  <2> SUFFICES ASSUME BucketInv PROVE AdmittedBounded
    OBVIOUS
  <2> USE DEF BucketInv, BucketTypeOK
  <2>1. ts + setBack <= clock + Skew + setBack
    OBVIOUS
  <2>2. Rate * (ts + setBack) <= Rate * (clock + Skew + setBack)
    BY <2>1, RateMonotone
  <2>3. Rate * (ts + setBack) \in Nat /\ Rate * (clock + Skew + setBack) \in Nat
    OBVIOUS
  <2> QED
    BY <2>2, <2>3 DEF AdmittedBounded
<1> QED
  BY <1>1, BucketInvariant, PTL

-----------------------------------------------------------------------------
(* Backups *)

BackupTypes ==
    /\ backups \in [BackupIds -> Backup \cup {NoRow}]
    /\ bruns \in [BWorkers -> {RIdle} \cup [at : {"dump", "store", "complete"}, id : BackupIds]]

\* A worker fills a running row, which is no other worker's, and a row it is to complete has
\* its artifact.
WorkersFill ==
    \A w \in BWorkers :
        bruns[w].id # BNone =>
            /\ bruns[w].id \in BackupIds /\ backups[bruns[w].id] # NoRow /\ backups[bruns[w].id].status = "running"
            /\ bruns[w].at = "complete" => bruns[w].id \in artifacts
            /\ \A v \in BWorkers : bruns[v].id = bruns[w].id => v = w

\* A running row is some worker's, or nothing settles it any more.
RunningHeld ==
    \A b \in BackupIds :
        (backups[b] # NoRow /\ backups[b].status = "running") => b \in abandoned \/ \E w \in BWorkers : bruns[w].id = b

BackupsInv == BackupTypes /\ WorkersFill /\ RunningHeld /\ CompletedIsStored

\* The positions of a worker tell whether it has a row.
LEMMA WorkerShape ==
    ASSUME BackupTypes, NEW w \in BWorkers
    PROVE  /\ bruns[w] # RIdle => bruns[w].id \in BackupIds /\ bruns[w].at \in {"dump", "store", "complete"}
           /\ bruns[w].id # BNone <=> bruns[w] # RIdle
           /\ bruns[w].at # "idle" <=> bruns[w] # RIdle
<1>1. bruns[w] \in {RIdle} \cup [at : {"dump", "store", "complete"}, id : BackupIds]
  BY DEF BackupTypes
<1> QED
  BY <1>1, BackupsAssumption DEF RIdle

\* At first there are no rows.
LEMMA BackupsStart == BackupsInit => BackupsInv
<1> SUFFICES ASSUME BackupsInit PROVE BackupsInv
  OBVIOUS
<1>1. BackupTypes
  BY DEF BackupsInit, BackupTypes
<1>2. \A w \in BWorkers : bruns[w].id = BNone
  BY DEF BackupsInit, RIdle
<1>3. \A b \in BackupIds : backups[b] = NoRow
  BY DEF BackupsInit
<1> QED
  BY <1>1, <1>2, <1>3 DEF BackupsInv, WorkersFill, RunningHeld, CompletedIsStored

\* A worker that gives its row up leaves it with an outcome, or abandoned; the other workers
\* have other rows.
LEMMA RowLeft ==
    ASSUME BackupsInv, NEW w \in BWorkers, bruns[w] # RIdle,
           bruns' = [bruns EXCEPT ![w] = RIdle], UNCHANGED artifacts,
           \/ /\ UNCHANGED abandoned
              /\ \E r \in Backup : /\ backups' = [backups EXCEPT ![bruns[w].id] = r]
                                   /\ r.status # "running"
                                   /\ r.status = "completed" => r.stored /\ bruns[w].id \in artifacts
           \/ abandoned' = abandoned \cup {bruns[w].id} /\ UNCHANGED backups
    PROVE  BackupsInv'
<1>0. BackupTypes /\ WorkersFill /\ RunningHeld /\ CompletedIsStored
  BY DEF BackupsInv
<1>1. bruns[w].id \in BackupIds /\ bruns[w].id # BNone
  BY <1>0, WorkerShape
<1>2. bruns \in [BWorkers -> {RIdle} \cup [at : {"dump", "store", "complete"}, id : BackupIds]] /\ backups \in [BackupIds -> Backup \cup {NoRow}]
  BY <1>0 DEF BackupTypes
<1>3. \A v \in BWorkers : bruns'[v] = IF v = w THEN RIdle ELSE bruns[v]
  BY <1>2
<1>4. RIdle.id = BNone
  BY DEF RIdle
<1>5. \A v \in BWorkers : v # w => bruns[v].id # bruns[w].id
  BY <1>0, <1>1 DEF WorkersFill
<1>6. BackupTypes'
  <2>1. bruns' \in [BWorkers -> {RIdle} \cup [at : {"dump", "store", "complete"}, id : BackupIds]]
    BY <1>2
  <2>2. backups' \in [BackupIds -> Backup \cup {NoRow}]
    BY <1>2
  <2> QED
    BY <2>1, <2>2 DEF BackupTypes
<1>7. \A b \in BackupIds : b # bruns[w].id => backups'[b] = backups[b]
  BY <1>2
<1>8. WorkersFill'
  <2> SUFFICES ASSUME NEW v \in BWorkers, bruns'[v].id # BNone
               PROVE  /\ bruns'[v].id \in BackupIds /\ backups'[bruns'[v].id] # NoRow /\ backups'[bruns'[v].id].status = "running"
                      /\ bruns'[v].at = "complete" => bruns'[v].id \in artifacts'
                      /\ \A u \in BWorkers : bruns'[u].id = bruns'[v].id => u = v
    BY DEF WorkersFill
  <2>1. v # w /\ bruns'[v] = bruns[v]
    BY <1>3, <1>4
  <2>2. /\ bruns[v].id \in BackupIds /\ backups[bruns[v].id] # NoRow /\ backups[bruns[v].id].status = "running"
        /\ bruns[v].at = "complete" => bruns[v].id \in artifacts
        /\ \A u \in BWorkers : bruns[u].id = bruns[v].id => u = v
    BY <1>0, <2>1 DEF WorkersFill
  <2> QED
    BY <1>3, <1>4, <1>5, <1>7, <2>1, <2>2
<1>9. RunningHeld'
  <2> SUFFICES ASSUME NEW b \in BackupIds, backups'[b] # NoRow, backups'[b].status = "running"
               PROVE  b \in abandoned' \/ \E v \in BWorkers : bruns'[v].id = b
    BY DEF RunningHeld
  <2>1. CASE b = bruns[w].id
    BY <1>1, <1>2, <2>1
  <2>2. CASE b # bruns[w].id
    <3>1. b \in abandoned \/ \E v \in BWorkers : bruns[v].id = b
      BY <1>0, <1>7, <2>2 DEF RunningHeld
    <3> QED
      BY <1>3, <2>2, <3>1
  <2> QED
    BY <2>1, <2>2
<1>10. CompletedIsStored'
  <2> SUFFICES ASSUME NEW b \in BackupIds, backups'[b] # NoRow
               PROVE  backups'[b] \in Backup /\ (backups'[b].status = "completed" => backups'[b].stored /\ b \in artifacts')
    BY DEF CompletedIsStored
  <2>1. CASE backups'[b] = backups[b]
    BY <1>0, <2>1 DEF CompletedIsStored
  <2>2. CASE backups'[b] # backups[b]
    BY <1>1, <1>2, <1>7, <2>2
  <2> QED
    BY <2>1, <2>2
<1> QED
  BY <1>6, <1>8, <1>9, <1>10 DEF BackupsInv

\* Every step of a worker keeps the invariant: the insert takes a row nobody has, the dump and
\* the store change the position alone, and the others leave the row.
LEMMA BackupsStep == BackupsInv /\ [BackupsNext]_bkvars => BackupsInv'
<1> SUFFICES ASSUME BackupsInv, [BackupsNext]_bkvars PROVE BackupsInv'
  OBVIOUS
<1>0. BackupTypes /\ WorkersFill /\ RunningHeld /\ CompletedIsStored
  BY DEF BackupsInv
<1>a. bruns \in [BWorkers -> {RIdle} \cup [at : {"dump", "store", "complete"}, id : BackupIds]] /\ backups \in [BackupIds -> Backup \cup {NoRow}]
  BY <1>0 DEF BackupTypes
<1>b. RIdle.id = BNone /\ RIdle.at = "idle"
  BY DEF RIdle
<1>1. ASSUME NEW w \in BWorkers, NEW b \in BackupIds, InsertBackup(w, b) PROVE BackupsInv'
  <2> DEFINE row == [status |-> "running", stored |-> FALSE]
  <2> DEFINE q == [at |-> "dump", id |-> b]
  <2>1. /\ bruns[w] = RIdle /\ backups[b] = NoRow
        /\ backups' = [backups EXCEPT ![b] = row] /\ bruns' = [bruns EXCEPT ![w] = q] /\ artifacts' = artifacts /\ abandoned' = abandoned
    BY <1>1, Zenon DEF InsertBackup
  <2>2. row \in Backup
    BY Zenon DEF Backup
  <2>3. row.status = "running" /\ row # NoRow
    BY <2>2, BackupsAssumption
  <2>4. q \in [at : {"dump", "store", "complete"}, id : BackupIds] /\ q.id = b /\ q.at = "dump"
    OBVIOUS
  <2> HIDE DEF row, q
  <2>5. BackupTypes'
    BY <1>a, <2>1, <2>2, <2>4 DEF BackupTypes
  <2>6. \A v \in BWorkers : bruns'[v] = IF v = w THEN q ELSE bruns[v]
    BY <1>a, <2>1
  <2>7. \A c \in BackupIds : backups'[c] = IF c = b THEN row ELSE backups[c]
    BY <1>a, <2>1
  <2>8. \A v \in BWorkers : v # w => bruns[v].id # b
    BY <1>0, <2>1, BackupsAssumption DEF WorkersFill
  <2>9. WorkersFill'
    <3> SUFFICES ASSUME NEW v \in BWorkers, bruns'[v].id # BNone
                 PROVE  /\ bruns'[v].id \in BackupIds /\ backups'[bruns'[v].id] # NoRow /\ backups'[bruns'[v].id].status = "running"
                        /\ bruns'[v].at = "complete" => bruns'[v].id \in artifacts'
                        /\ \A u \in BWorkers : bruns'[u].id = bruns'[v].id => u = v
      BY DEF WorkersFill
    <3>1. CASE v = w
      BY <2>3, <2>4, <2>6, <2>7, <2>8, <3>1
    <3>2. CASE v # w
      <4>1. /\ bruns[v].id \in BackupIds /\ backups[bruns[v].id] # NoRow /\ backups[bruns[v].id].status = "running"
            /\ bruns[v].at = "complete" => bruns[v].id \in artifacts
            /\ \A u \in BWorkers : bruns[u].id = bruns[v].id => u = v
        BY <1>0, <2>6, <3>2 DEF WorkersFill
      <4> QED
        BY <2>1, <2>4, <2>6, <2>7, <2>8, <3>2, <4>1
    <3> QED
      BY <3>1, <3>2
  <2>10. RunningHeld'
    <3> SUFFICES ASSUME NEW c \in BackupIds, backups'[c] # NoRow, backups'[c].status = "running"
                 PROVE  c \in abandoned' \/ \E v \in BWorkers : bruns'[v].id = c
      BY DEF RunningHeld
    <3>1. CASE c = b
      BY <2>4, <2>6, <3>1
    <3>2. CASE c # b
      <4>1. c \in abandoned \/ \E v \in BWorkers : bruns[v].id = c
        BY <1>0, <2>7, <3>2 DEF RunningHeld
      <4>2. c # BNone
        BY BackupsAssumption
      <4> QED
        BY <1>b, <2>1, <2>6, <4>1, <4>2
    <3> QED
      BY <3>1, <3>2
  <2>11. CompletedIsStored'
    BY <1>0, <2>1, <2>2, <2>3, <2>7 DEF CompletedIsStored
  <2> QED
    BY <2>5, <2>9, <2>10, <2>11 DEF BackupsInv
<1>2. ASSUME NEW w \in BWorkers, NEW p \in {"store", "complete"}, bruns[w].at \in {"dump", "store"},
             bruns' = [bruns EXCEPT ![w].at = p], UNCHANGED <<backups, abandoned>>, artifacts \subseteq artifacts',
             p = "complete" => bruns[w].id \in artifacts'
      PROVE  BackupsInv'
  <2> DEFINE q == [bruns[w] EXCEPT !.at = p]
  <2>1. bruns[w] \in [at : {"dump", "store", "complete"}, id : BackupIds] /\ backups' = backups /\ abandoned' = abandoned
    BY <1>2, <1>a, <1>b
  <2>2. q \in [at : {"dump", "store", "complete"}, id : BackupIds] /\ q.id = bruns[w].id /\ q.at = p
    BY <2>1
  <2>3. \A v \in BWorkers : bruns'[v] = IF v = w THEN q ELSE bruns[v]
    BY <1>2, <1>a
  <2> HIDE DEF q
  <2>4. BackupTypes'
    <3>1. bruns' \in [BWorkers -> {RIdle} \cup [at : {"dump", "store", "complete"}, id : BackupIds]]
      BY <1>2, <1>a, <2>2, <2>3
    <3> QED
      BY <1>a, <2>1, <3>1 DEF BackupTypes
  <2>5. \A v \in BWorkers : bruns'[v].id = bruns[v].id /\ (v # w => bruns'[v].at = bruns[v].at)
    BY <2>2, <2>3
  <2>6. WorkersFill'
    <3> SUFFICES ASSUME NEW v \in BWorkers, bruns'[v].id # BNone
                 PROVE  /\ bruns'[v].id \in BackupIds /\ backups'[bruns'[v].id] # NoRow /\ backups'[bruns'[v].id].status = "running"
                        /\ bruns'[v].at = "complete" => bruns'[v].id \in artifacts'
                        /\ \A u \in BWorkers : bruns'[u].id = bruns'[v].id => u = v
      BY DEF WorkersFill
    <3>1. /\ bruns[v].id \in BackupIds /\ backups[bruns[v].id] # NoRow /\ backups[bruns[v].id].status = "running"
          /\ bruns[v].at = "complete" => bruns[v].id \in artifacts
          /\ \A u \in BWorkers : bruns[u].id = bruns[v].id => u = v
      BY <1>0, <2>5 DEF WorkersFill
    <3>2. bruns'[v].at = "complete" => bruns'[v].id \in artifacts'
      BY <1>2, <2>2, <2>3, <3>1
    <3> QED
      BY <2>1, <2>5, <3>1, <3>2
  <2>7. RunningHeld'
    BY <1>0, <2>1, <2>5 DEF RunningHeld
  <2>8. CompletedIsStored'
    BY <1>0, <1>2, <2>1 DEF CompletedIsStored
  <2> QED
    BY <2>4, <2>6, <2>7, <2>8 DEF BackupsInv
<1>3. ASSUME NEW w \in BWorkers, Dump(w) PROVE BackupsInv'
  BY <1>2, <1>3 DEF Dump
<1>4. ASSUME NEW w \in BWorkers, Store(w) PROVE BackupsInv'
  BY <1>2, <1>4 DEF Store
<1>5. ASSUME NEW w \in BWorkers, BackupFails(w) PROVE BackupsInv'
  <2>1. bruns[w] # RIdle
    BY <1>5, <1>b DEF BackupFails
  <2>2. bruns[w].id \in BackupIds /\ backups[bruns[w].id] \in Backup
    BY <1>0, <1>a, <2>1, WorkerShape DEF WorkersFill
  <2>3. [backups[bruns[w].id] EXCEPT !.status = "failed"] \in Backup /\ [backups[bruns[w].id] EXCEPT !.status = "failed"].status = "failed"
    BY <2>2 DEF Backup
  <2>4. (backups' = [backups EXCEPT ![bruns[w].id].status = "failed"])
        => backups' = [backups EXCEPT ![bruns[w].id] = [backups[bruns[w].id] EXCEPT !.status = "failed"]]
    OBVIOUS
  <2>5. \/ /\ UNCHANGED abandoned
           /\ \E r \in Backup : /\ backups' = [backups EXCEPT ![bruns[w].id] = r]
                                /\ r.status # "running"
                                /\ r.status = "completed" => r.stored /\ bruns[w].id \in artifacts
        \/ abandoned' = abandoned \cup {bruns[w].id} /\ UNCHANGED backups
    BY <1>5, <2>3, <2>4 DEF BackupFails, SetBackupStatus
  <2> QED
    BY <1>5, <2>1, <2>5, RowLeft DEF BackupFails
<1>6. ASSUME NEW w \in BWorkers, CompleteBackup(w) PROVE BackupsInv'
  <2> DEFINE row == [status |-> "completed", stored |-> TRUE]
  <2>1. bruns[w] # RIdle
    BY <1>6, <1>b DEF CompleteBackup
  <2>2. bruns[w].id \in artifacts
    BY <1>0, <1>6, <2>1, WorkerShape DEF WorkersFill, CompleteBackup
  <2>3. row \in Backup
    BY Zenon DEF Backup
  <2>4. row.status = "completed" /\ row.stored
    OBVIOUS
  <2>5. (UNCHANGED abandoned /\ backups' = [backups EXCEPT ![bruns[w].id] = row]) \/ (abandoned' = abandoned \cup {bruns[w].id} /\ UNCHANGED backups)
    BY <1>6 DEF CompleteBackup
  <2> HIDE DEF row
  <2>6. \/ /\ UNCHANGED abandoned
           /\ \E r \in Backup : /\ backups' = [backups EXCEPT ![bruns[w].id] = r]
                                /\ r.status # "running"
                                /\ r.status = "completed" => r.stored /\ bruns[w].id \in artifacts
        \/ abandoned' = abandoned \cup {bruns[w].id} /\ UNCHANGED backups
    BY <2>2, <2>3, <2>4, <2>5
  <2> QED
    BY <1>6, <2>1, <2>6, RowLeft DEF CompleteBackup
<1>7. ASSUME NEW w \in BWorkers, BackupCrashes(w) PROVE BackupsInv'
  BY <1>7, RowLeft DEF BackupCrashes
<1>8. CASE UNCHANGED bkvars
  BY <1>0, <1>8 DEF bkvars, BackupsInv, BackupTypes, WorkersFill, RunningHeld, CompletedIsStored
<1> QED
  BY <1>1, <1>3, <1>4, <1>5, <1>6, <1>7, <1>8 DEF BackupsNext

\* For any rows and workers, with workers that die at any step and statements that fail: a
\* completed backup has its artifact in the storage, and a running one is one worker's, or was
\* abandoned.
THEOREM BackupsTold == BackupsSpec => []BackupsTrue
<1>1. BackupsInv => BackupsTrue
  <2> SUFFICES ASSUME BackupsInv PROVE BackupsTrue
    OBVIOUS
  <2>0. WorkersFill /\ RunningHeld /\ CompletedIsStored
    BY DEF BackupsInv
  <2>1. ASSUME NEW b \in BackupIds, NEW w \in BWorkers, bruns[w].id = b
        PROVE  Cardinality({v \in BWorkers : bruns[v].id = b}) = 1
    <3>1. b # BNone
      BY BackupsAssumption
    <3>2. {v \in BWorkers : bruns[v].id = b} = {w}
      BY <2>0, <2>1, <3>1 DEF WorkersFill
    <3> QED
      BY <3>2, FS_Singleton
  <2> QED
    BY <2>0, <2>1 DEF RunningHeld, RunningIsAttended, BackupsTrue
<1> QED
  BY <1>1, BackupsStart, BackupsStep, PTL DEF BackupsSpec

-----------------------------------------------------------------------------
(* Sleep and wake *)

SleepTypes ==
    /\ conts \in [SDeps -> {"none", "running", "stopped"}]
    /\ timers \in [SDeps -> {"none", "delayed", "due", "marked", "done"}]
    /\ marks \in [SDeps -> Nat] /\ pauses \in Nat
    /\ \A j \in sleeps : j \in [key : Nat, n : Nat, done : BOOLEAN]

\* Two sleep jobs with a deployment's key are the same row.
OneSleepJob == \A j, k \in sleeps : (j.key = k.key /\ j.key \in SDeps) => j = k

\* The event is written before the timer goes on, and before the scheduler's job.
MarkedFirst ==
    /\ \A d \in SDeps : timers[d] \in {"marked", "done"} => marks[d] > 0
    /\ \A j \in sleeps : j.key \in SDeps => marks[j.key] > 0

SleepInv == SleepTypes /\ OneSleepJob /\ MarkedFirst /\ StoppedRowTruthful

\* A set of which any two members are the same has one member at most.
LEMMA OneMember ==
    ASSUME NEW S, \A x, y \in S : x = y
    PROVE  Cardinality(S) <= 1
<1>1. CASE S = {}
  BY <1>1, FS_EmptySet
<1>2. ASSUME NEW x \in S PROVE Cardinality(S) <= 1
  <2>1. S = {x}
    OBVIOUS
  <2> QED
    BY <2>1, FS_Singleton
<1> QED
  BY <1>1, <1>2

\* At first there are no jobs.
LEMMA SleepStart == SleepInit => SleepInv
  BY DEF SleepInit, SleepInv, SleepTypes, OneSleepJob, MarkedFirst, StoppedRowTruthful

\* What touches neither the jobs nor the containers' rows keeps the parts about them.
LEMMA SleepStep == SleepInv /\ [SleepNext]_swvars => SleepInv'
<1> SUFFICES ASSUME SleepInv, [SleepNext]_swvars PROVE SleepInv'
  OBVIOUS
<1>0. SleepTypes /\ OneSleepJob /\ MarkedFirst /\ StoppedRowTruthful
  BY DEF SleepInv
<1>a. /\ conts \in [SDeps -> {"none", "running", "stopped"}]
      /\ timers \in [SDeps -> {"none", "delayed", "due", "marked", "done"}]
      /\ marks \in [SDeps -> Nat] /\ pauses \in Nat
      /\ \A j \in sleeps : j \in [key : Nat, n : Nat, done : BOOLEAN]
  BY <1>0 DEF SleepTypes
<1>1. ASSUME NEW d \in SDeps, Deployed(d) PROVE SleepInv'
  <2>1. conts' = [conts EXCEPT ![d] = "running"] /\ alive' = alive \cup {d} /\ UNCHANGED <<timers, marks, sleeps, sleeper, pauses, stopErrors>>
    BY <1>1 DEF Deployed
  <2>2. StoppedRowTruthful'
    BY <1>0, <1>a, <2>1 DEF StoppedRowTruthful
  <2> QED
    BY <1>0, <1>a, <2>1, <2>2 DEF SleepInv, SleepTypes, OneSleepJob, MarkedFirst
<1>2. ASSUME NEW d \in SDeps, EnqueueSleep(d) \/ IdleThreshold(d) PROVE SleepInv'
  <2>1. /\ timers' = [timers EXCEPT ![d] = "delayed"] \/ timers' = [timers EXCEPT ![d] = "due"]
        /\ UNCHANGED <<conts, alive, marks, sleeps, sleeper, pauses, stopErrors>>
    BY <1>2 DEF EnqueueSleep, IdleThreshold
  <2>2. MarkedFirst'
    BY <1>0, <1>a, <2>1 DEF MarkedFirst
  <2> QED
    BY <1>0, <1>a, <2>1, <2>2 DEF SleepInv, SleepTypes, OneSleepJob, StoppedRowTruthful
<1>3. ASSUME NEW d \in SDeps, RecordSleepEvent(d) PROVE SleepInv'
  <2>1. /\ marks' = [marks EXCEPT ![d] = marks[d] + 1] /\ timers' = [timers EXCEPT ![d] = "marked"]
        /\ UNCHANGED <<conts, alive, sleeps, sleeper, pauses, stopErrors>>
    BY <1>3 DEF RecordSleepEvent
  <2>2. /\ marks' \in [SDeps -> Nat] /\ marks'[d] > 0
        /\ \A e \in SDeps : marks'[e] >= marks[e]
    BY <1>a, <2>1
  <2>3. MarkedFirst'
    BY <1>0, <1>a, <2>1, <2>2 DEF MarkedFirst
  <2> QED
    BY <1>0, <1>a, <2>1, <2>2, <2>3 DEF SleepInv, SleepTypes, OneSleepJob, StoppedRowTruthful
<1>4. ASSUME NEW j, j \in [key : Nat, n : Nat, done : BOOLEAN], sleeps' = sleeps \cup {j},
             j.key \in SDeps => marks[j.key] > 0 /\ \A k \in sleeps : k.key # j.key,
             UNCHANGED <<conts, alive, marks, stopErrors>>, pauses' \in Nat,
             timers' \in [SDeps -> {"none", "delayed", "due", "marked", "done"}],
             \A e \in SDeps : timers'[e] \in {"marked", "done"} => marks[e] > 0
      PROVE  SleepInv'
  <2>1. SleepTypes'
    BY <1>a, <1>4 DEF SleepTypes
  <2>2. OneSleepJob'
    BY <1>0, <1>4 DEF OneSleepJob
  <2>3. MarkedFirst'
    BY <1>0, <1>4 DEF MarkedFirst
  <2> QED
    BY <1>0, <1>4, <2>1, <2>2, <2>3 DEF SleepInv, StoppedRowTruthful
<1>5. ASSUME UNCHANGED <<conts, alive, marks, stopErrors, sleeps>>, pauses' \in Nat,
             timers' \in [SDeps -> {"none", "delayed", "due", "marked", "done"}],
             \A e \in SDeps : timers'[e] \in {"marked", "done"} => marks[e] > 0
      PROVE  SleepInv'
  BY <1>0, <1>a, <1>5 DEF SleepInv, SleepTypes, OneSleepJob, MarkedFirst, StoppedRowTruthful
<1>6. ASSUME NEW d \in SDeps, ExecuteSleep(d) PROVE SleepInv'
  <2> DEFINE j == [key |-> d, n |-> 0, done |-> FALSE]
  <2>1. marks[d] > 0 /\ UNCHANGED <<conts, alive, marks, stopErrors>> /\ pauses' \in Nat
    BY <1>0, <1>a, <1>6 DEF ExecuteSleep, MarkedFirst
  <2>2. /\ timers' \in [SDeps -> {"none", "delayed", "due", "marked", "done"}]
        /\ \A e \in SDeps : timers'[e] \in {"marked", "done"} => marks[e] > 0
    BY <1>0, <1>a, <1>6, <2>1 DEF ExecuteSleep, MarkedFirst
  <2>3. j.key = d /\ d \in Nat
    BY SleepAssumption
  <2>4. j \in [key : Nat, n : Nat, done : BOOLEAN]
    BY <2>3, Zenon
  <2>5. \/ sleeps' = sleeps
        \/ sleeps' = sleeps \cup {j} /\ \A k \in sleeps : k.key # d
    BY <1>6 DEF ExecuteSleep, SchedSleep
  <2> HIDE DEF j
  <2> QED
    BY <1>4, <1>5, <2>1, <2>2, <2>3, <2>4, <2>5
<1>7. CASE Pause
  <2> DEFINE j == [key |-> 0, n |-> pauses', done |-> FALSE]
  <2>1. sleeps' = sleeps \cup {j} /\ UNCHANGED <<conts, alive, marks, stopErrors, timers>>
    BY <1>7 DEF Pause
  <2>2. j.key = 0 /\ 0 \notin SDeps
    BY SleepAssumption
  <2>3. pauses' \in Nat
    BY <1>0, <1>7 DEF Pause, ProjectRequest, SleepTypes
  <2>4. j \in [key : Nat, n : Nat, done : BOOLEAN]
    BY <2>3, Zenon
  <2> QED
    BY <1>0, <1>a, <1>4, <2>1, <2>2, <2>3, <2>4 DEF MarkedFirst
<1>8. CASE Restart
  BY <1>0, <1>a, <1>5, <1>8 DEF Restart, ProjectRequest, MarkedFirst
<1>9. CASE RunSleep
  <2>1. PICK j \in sleeps : sleeps' = (sleeps \ {j}) \cup {[j EXCEPT !.done = TRUE]}
    BY <1>9 DEF RunSleep
  <2> DEFINE k == [j EXCEPT !.done = TRUE]
  <2>2. UNCHANGED <<conts, alive, timers, marks, pauses, stopErrors>>
    BY <1>9 DEF RunSleep
  <2>3. k \in [key : Nat, n : Nat, done : BOOLEAN] /\ k.key = j.key
    BY <1>a
  <2> HIDE DEF k
  <2>4. SleepTypes'
    BY <1>a, <2>1, <2>2, <2>3 DEF SleepTypes, k
  <2>5. OneSleepJob'
    BY <1>0, <2>1, <2>3 DEF OneSleepJob, k
  <2>6. MarkedFirst'
    BY <1>0, <2>1, <2>2, <2>3 DEF MarkedFirst, k
  <2> QED
    BY <1>0, <2>2, <2>4, <2>5, <2>6 DEF SleepInv, StoppedRowTruthful
<1>10. ASSUME NEW d \in SDeps, StopContainer(d) PROVE SleepInv'
  <2>1. /\ conts' \in {conts, [conts EXCEPT ![d] = "stopped"]}
        /\ UNCHANGED <<timers, marks, sleeps, pauses>>
        /\ (alive' = alive \ {d} /\ stopErrors' = stopErrors) \/ (stopErrors' = stopErrors \cup {d} /\ alive' = alive)
    BY <1>10 DEF StopContainer
  <2>2. StoppedRowTruthful'
    BY <1>0, <1>a, <2>1 DEF StoppedRowTruthful
  <2> QED
    BY <1>0, <1>a, <2>1, <2>2 DEF SleepInv, SleepTypes, OneSleepJob, MarkedFirst
<1>11. CASE UNCHANGED swvars
  BY <1>0, <1>11 DEF swvars, SleepInv, SleepTypes, OneSleepJob, MarkedFirst, StoppedRowTruthful
<1> QED
  BY <1>1, <1>2, <1>3, <1>6, <1>7, <1>8, <1>9, <1>10, <1>11 DEF SleepNext

\* For any deployments of a project and any requests to pause it: a deployment that is idle is
\* put to sleep by one job, after the event that says so, and a row that says stopped is of a
\* container that stopped, or whose stop failed.
THEOREM SleepsTold == SleepSpec => []SleepsTrue
<1>1. SleepInv => SleepsTrue
  <2> SUFFICES ASSUME SleepInv PROVE SleepsTrue
    OBVIOUS
  <2>0. OneSleepJob /\ MarkedFirst /\ StoppedRowTruthful
    BY DEF SleepInv
  <2>1. ASSUME NEW d \in SDeps PROVE Cardinality({j \in sleeps : j.key = d}) <= 1
    <3>1. \A j, k \in {i \in sleeps : i.key = d} : j = k
      BY <2>0 DEF OneSleepJob
    <3> QED
      BY <3>1, OneMember
  <2> QED
    BY <2>0, <2>1 DEF MarkedFirst, IdleSleepsOnce, SleepsTrue
<1> QED
  BY <1>1, SleepStart, SleepStep, PTL DEF SleepSpec

-----------------------------------------------------------------------------
(* Notifications *)

Delivery == [at : {"send", "delivered", "failed"}, id : NoteIds]

NoteTypes ==
    /\ notes \in [NoteIds -> Note \cup {NoRow}]
    /\ deliveries \in [Senders -> {NIdle} \cup Delivery]
    /\ sent \in [NoteIds -> Nat]

\* A notification none of whose deliveries overlapped or was lost has one delivery at most, and
\* went out once at most: not before its delivery has sent it, and not when none has and the row
\* does not say so. A delivery that ended well sent it, and the row says what happened.
NoteTold(i) ==
    /\ i \notin uncertain =>
        /\ \A v, w \in Senders : On(v, i) /\ On(w, i) => v = w
        /\ sent[i] <= 1
        /\ \A w \in Senders : On(w, i) /\ deliveries[w].at # "delivered" => sent[i] = 0
        /\ (notes[i] # NoRow /\ notes[i].status # "delivered" /\ \A w \in Senders : ~On(w, i)) => sent[i] = 0
    /\ \A w \in Senders : On(w, i) /\ deliveries[w].at = "delivered" => sent[i] > 0
    /\ notes[i] # NoRow => (notes[i].status = "delivered" => sent[i] > 0) /\ (notes[i].status = "failed" => notes[i].attempts > 0)

NotesInv == NoteTypes /\ \A i \in NoteIds : NoteTold(i)

\* A worker is on a notification while it is not idle.
LEMMA SenderShape ==
    ASSUME NoteTypes, NEW w \in Senders
    PROVE  /\ deliveries[w] # NIdle => deliveries[w] \in Delivery /\ On(w, deliveries[w].id)
           /\ deliveries[w] = NIdle => deliveries[w].at = "idle" /\ \A i \in NoteIds : ~On(w, i)
           /\ \A i \in NoteIds : On(w, i) => i = deliveries[w].id
           /\ deliveries[w].at \in {"send", "delivered", "failed"} => deliveries[w] # NIdle
<1>1. deliveries[w] \in {NIdle} \cup Delivery
  BY DEF NoteTypes
<1> QED
  BY <1>1 DEF On, NIdle

\* What a step leaves alone of a notification stays told.
LEMMA NoteFrame ==
    ASSUME NEW i \in NoteIds, NoteTold(i), notes'[i] = notes[i], sent'[i] = sent[i],
           i \in uncertain' <=> i \in uncertain,
           \A v \in Senders : On(v, i)' <=> On(v, i),
           \A v \in Senders : On(v, i) => deliveries'[v].at = deliveries[v].at
    PROVE  NoteTold(i)'
  BY DEF NoteTold

\* At first there are no notifications.
LEMMA NotesStart == NotesInit => NotesInv
<1> SUFFICES ASSUME NotesInit PROVE NotesInv
  OBVIOUS
<1>1. NoteTypes
  BY DEF NotesInit, NoteTypes
<1>2. \A i \in NoteIds : notes[i] = NoRow /\ sent[i] = 0 /\ \A w \in Senders : ~On(w, i)
  BY DEF NotesInit, On
<1> QED
  BY <1>1, <1>2 DEF NotesInv, NoteTold

\* A step of one worker on one notification leaves the others alone.
LEMMA OthersTold ==
    ASSUME NotesInv, NEW w \in Senders, NEW i \in NoteIds,
           NEW d \in {NIdle} \cup Delivery, deliveries' = [deliveries EXCEPT ![w] = d],
           deliveries[w] = NIdle \/ deliveries[w].id = i,
           d = NIdle \/ d.id = i,
           \A j \in NoteIds : j # i => notes'[j] = notes[j] /\ sent'[j] = sent[j] /\ (j \in uncertain' <=> j \in uncertain)
    PROVE  /\ \A j \in NoteIds : j # i => NoteTold(j)'
           /\ deliveries' \in [Senders -> {NIdle} \cup Delivery]
           /\ \A v \in Senders : v # w => (On(v, i)' <=> On(v, i)) /\ deliveries'[v] = deliveries[v]
           /\ On(w, i)' <=> d # NIdle
           /\ deliveries'[w] = d
<1>0. NoteTypes /\ \A j \in NoteIds : NoteTold(j)
  BY DEF NotesInv
<1>1. deliveries \in [Senders -> {NIdle} \cup Delivery]
  BY <1>0 DEF NoteTypes
<1>2. \A v \in Senders : deliveries'[v] = IF v = w THEN d ELSE deliveries[v]
  BY <1>1
<1>3. \A v \in Senders, j \in NoteIds : On(v, j)' <=> deliveries'[v] # NIdle /\ deliveries'[v].id = j
  BY DEF On
<1>4. \A v \in Senders, j \in NoteIds : On(v, j) <=> deliveries[v] # NIdle /\ deliveries[v].id = j
  BY DEF On
<1>5. ASSUME NEW j \in NoteIds, j # i PROVE NoteTold(j)'
  <2>1. \A v \in Senders : On(v, j)' <=> On(v, j)
    BY <1>2, <1>3, <1>4, <1>5
  <2>2. \A v \in Senders : On(v, j) => deliveries'[v].at = deliveries[v].at
    BY <1>2, <1>4, <1>5
  <2>3. notes'[j] = notes[j] /\ sent'[j] = sent[j] /\ (j \in uncertain' <=> j \in uncertain)
    BY <1>5
  <2> QED
    BY <1>0, <2>1, <2>2, <2>3, NoteFrame
<1> QED
  BY <1>1, <1>2, <1>3, <1>4, <1>5

\* A delivery starts: it is the only one, or the notification is uncertain from now on.
LEMMA GetTold ==
    ASSUME NotesInv, NEW w \in Senders, NEW i \in NoteIds, GetNotification(w, i)
    PROVE  NotesInv'
<1>0. NoteTypes /\ NoteTold(i)
  BY DEF NotesInv
<1> DEFINE d == [at |-> "send", id |-> i]
<1>1. d \in Delivery /\ d.id = i /\ d.at = "send" /\ d # NIdle
  BY DEF Delivery, NIdle
<1>2. /\ deliveries[w] = NIdle /\ deliveries' = [deliveries EXCEPT ![w] = d] /\ notes' = notes /\ sent' = sent
      /\ notes[i] # NoRow /\ notes[i].status # "delivered"
      /\ uncertain' = IF \E v \in Senders : On(v, i) THEN uncertain \cup {i} ELSE uncertain
  BY DEF GetNotification, ToDeliver
<1> HIDE DEF d
<1>3. /\ \A j \in NoteIds : j # i => NoteTold(j)'
      /\ deliveries' \in [Senders -> {NIdle} \cup Delivery]
      /\ \A v \in Senders : v # w => (On(v, i)' <=> On(v, i)) /\ deliveries'[v] = deliveries[v]
      /\ On(w, i)' <=> d # NIdle
      /\ deliveries'[w] = d
  BY <1>1, <1>2, OthersTold, ZenonT(60)
<1>4. NoteTypes'
  BY <1>0, <1>2, <1>3 DEF NoteTypes
<1>5. NoteTold(i)'
  <2>1. ~On(w, i)
    BY <1>0, <1>2, SenderShape
  <2>2. CASE \E v \in Senders : On(v, i)
    BY <1>0, <1>1, <1>2, <1>3, <2>1, <2>2 DEF NoteTold
  <2>3. CASE ~ \E v \in Senders : On(v, i)
    <3>1. i \notin uncertain => sent[i] = 0
      BY <1>0, <1>2, <2>3 DEF NoteTold
    <3>2. sent[i] \in Nat
      BY <1>0 DEF NoteTypes
    <3> QED
      BY <1>0, <1>1, <1>2, <1>3, <2>1, <2>3, <3>1, <3>2 DEF NoteTold
  <2> QED
    BY <2>2, <2>3
<1> QED
  BY <1>3, <1>4, <1>5 DEF NotesInv

\* The send counts what went out, and what went out with an error makes it uncertain.
LEMMA SendTold ==
    ASSUME NotesInv, NEW w \in Senders, Send(w)
    PROVE  NotesInv'
<1>0. NoteTypes /\ \A j \in NoteIds : NoteTold(j)
  BY DEF NotesInv
<1>a. deliveries[w] \in Delivery /\ On(w, deliveries[w].id)
  BY <1>0, SenderShape DEF Send
<1>b. deliveries[w].id \in NoteIds
  BY <1>a DEF Delivery
<1> DEFINE i == deliveries[w].id
<1>1. PICK out \in BOOLEAN : \E ok \in BOOLEAN :
        /\ ok => out
        /\ sent' = IF out THEN [sent EXCEPT ![i] = IF @ < 2 THEN @ + 1 ELSE @] ELSE sent
        /\ deliveries' = [deliveries EXCEPT ![w].at = IF ok THEN "delivered" ELSE "failed"]
        /\ uncertain' = IF out /\ ~ok THEN uncertain \cup {i} ELSE uncertain
  BY DEF Send
<1>2. PICK ok \in BOOLEAN :
        /\ ok => out
        /\ sent' = IF out THEN [sent EXCEPT ![i] = IF @ < 2 THEN @ + 1 ELSE @] ELSE sent
        /\ deliveries' = [deliveries EXCEPT ![w].at = IF ok THEN "delivered" ELSE "failed"]
        /\ uncertain' = IF out /\ ~ok THEN uncertain \cup {i} ELSE uncertain
  BY <1>1
<1> DEFINE d == [deliveries[w] EXCEPT !.at = IF ok THEN "delivered" ELSE "failed"]
<1>3. d \in Delivery /\ d.id = i /\ d.at = (IF ok THEN "delivered" ELSE "failed")
  BY <1>a DEF Delivery
<1>4. d # NIdle
  BY <1>3 DEF NIdle
<1>5. deliveries' = [deliveries EXCEPT ![w] = d] /\ notes' = notes /\ deliveries[w].at = "send"
  BY <1>2 DEF Send
<1>6. sent \in [NoteIds -> Nat]
  BY <1>0 DEF NoteTypes
<1>7. /\ sent' \in [NoteIds -> Nat]
      /\ \A j \in NoteIds : j # i => sent'[j] = sent[j]
      /\ ~out => sent'[i] = sent[i]
      /\ out => sent'[i] > 0
      /\ out /\ sent[i] = 0 => sent'[i] = 1
      /\ sent'[i] >= sent[i]
  BY <1>2, <1>6, <1>b
<1>8. \A j \in NoteIds : j # i => (j \in uncertain' <=> j \in uncertain)
  BY <1>2
<1>c. NoteTold(i) /\ i \in NoteIds /\ On(w, i)
  BY <1>0, <1>a, <1>b
<1>d. sent[i] \in Nat /\ sent'[i] \in Nat
  BY <1>6, <1>7, <1>b
<1>e. /\ i \in uncertain => i \in uncertain'
      /\ out /\ ~ok => i \in uncertain'
      /\ ok => out
  BY <1>2
<1> HIDE DEF d
<1>9. /\ \A j \in NoteIds : j # i => NoteTold(j)'
      /\ deliveries' \in [Senders -> {NIdle} \cup Delivery]
      /\ \A v \in Senders : v # w => (deliveries'[v] # NIdle /\ deliveries'[v].id = i <=> On(v, i)) /\ deliveries'[v] = deliveries[v]
      /\ deliveries'[w] = d
  <2>1. ASSUME NEW k \in NoteIds, k = i
        PROVE  /\ \A j \in NoteIds : j # k => NoteTold(j)'
               /\ deliveries' \in [Senders -> {NIdle} \cup Delivery]
               /\ \A v \in Senders : v # w => (On(v, k)' <=> On(v, k)) /\ deliveries'[v] = deliveries[v]
               /\ deliveries'[w] = d
    BY <1>3, <1>5, <1>7, <1>8, <2>1, OthersTold, ZenonT(60)
  <2> QED
    BY <1>c, <2>1 DEF On
<1>10. NoteTypes'
  BY <1>0, <1>5, <1>7, <1>9 DEF NoteTypes
<1>11. ASSUME NEW k \in NoteIds, k = i PROVE NoteTold(k)'
  <2>1. \A v \in Senders : On(v, k)' <=> On(v, k)
    BY <1>3, <1>4, <1>9, <1>c, <1>11 DEF On
  <2>2. ASSUME k \notin uncertain'
        PROVE  /\ \A v, u \in Senders : On(v, k)' /\ On(u, k)' => v = u
               /\ sent'[k] <= 1
               /\ \A v \in Senders : On(v, k)' /\ deliveries'[v].at # "delivered" => sent'[k] = 0
               /\ \E v \in Senders : On(v, k)'
    <3>1. k \notin uncertain /\ (out <=> ok)
      BY <1>e, <1>11, <2>2
    <3>2. sent[k] = 0 /\ \A v, u \in Senders : On(v, k) /\ On(u, k) => v = u
      BY <1>c, <1>5, <1>11, <3>1 DEF NoteTold
    <3>3. \A v \in Senders : On(v, k)' => v = w
      BY <2>1, <3>2, <1>c, <1>11
    <3> QED
      BY <1>3, <1>7, <1>9, <1>c, <1>d, <1>11, <2>1, <3>1, <3>2, <3>3
  <2>3. ASSUME NEW v \in Senders, On(v, k)', deliveries'[v].at = "delivered" PROVE sent'[k] > 0
    <3>1. CASE v = w
      BY <1>3, <1>7, <1>9, <1>e, <1>11, <2>3, <3>1
    <3>2. CASE v # w
      BY <1>7, <1>9, <1>c, <1>d, <1>11, <2>1, <2>3, <3>2 DEF NoteTold
    <3> QED
      BY <3>1, <3>2
  <2>4. notes'[k] # NoRow => (notes'[k].status = "delivered" => sent'[k] > 0) /\ (notes'[k].status = "failed" => notes'[k].attempts > 0)
    BY <1>5, <1>7, <1>c, <1>d, <1>11 DEF NoteTold
  <2> QED
    BY <2>2, <2>3, <2>4 DEF NoteTold
<1> QED
  BY <1>9, <1>10, <1>11, <1>c DEF NotesInv

\* A delivery that ends without its outcome leaves an uncertain notification.
LEMMA LostTold ==
    ASSUME NotesInv, NEW w \in Senders, deliveries[w] # NIdle,
           deliveries' = [deliveries EXCEPT ![w] = NIdle],
           uncertain' = uncertain \cup {deliveries[w].id}, UNCHANGED <<notes, sent>>
    PROVE  NotesInv'
<1>0. NoteTypes /\ \A j \in NoteIds : NoteTold(j)
  BY DEF NotesInv
<1>1. PICK i \in NoteIds : i = deliveries[w].id
  BY <1>0, SenderShape DEF Delivery
<1>2. /\ \A j \in NoteIds : j # i => NoteTold(j)'
      /\ deliveries' \in [Senders -> {NIdle} \cup Delivery]
      /\ \A v \in Senders : v # w => (On(v, i)' <=> On(v, i)) /\ deliveries'[v] = deliveries[v]
      /\ On(w, i)' <=> NIdle # NIdle
  BY <1>1, OthersTold
<1>3. NoteTold(i)'
  BY <1>0, <1>1, <1>2 DEF NoteTold
<1>4. NoteTypes'
  BY <1>0, <1>2 DEF NoteTypes
<1> QED
  BY <1>2, <1>3, <1>4 DEF NotesInv

\* The outcome of a delivery is what the row says afterwards.
LEMMA OutcomeTold ==
    ASSUME NotesInv, NEW w \in Senders, MarkOutcome(w)
    PROVE  NotesInv'
<1>0. NoteTypes /\ \A j \in NoteIds : NoteTold(j)
  BY DEF NotesInv
<1>1. deliveries[w].at \in {"delivered", "failed"} /\ deliveries' = [deliveries EXCEPT ![w] = NIdle] /\ sent' = sent
  BY DEF MarkOutcome
<1>2. deliveries[w] # NIdle
  BY <1>0, <1>1, SenderShape
<1>3. PICK i \in NoteIds : i = deliveries[w].id
  BY <1>0, <1>2, SenderShape DEF Delivery
<1>4. On(w, i) /\ NoteTold(i)
  BY <1>0, <1>2, <1>3 DEF On
<1>5. CASE uncertain' = uncertain \cup {i} /\ notes' = notes
  BY <1>1, <1>2, <1>3, <1>5, LostTold
<1>6. CASE uncertain' = uncertain /\ notes' = IF notes[i] = NoRow THEN notes ELSE [notes EXCEPT ![i] = Marked(notes[i], deliveries[w].at)]
  <2>0. notes \in [NoteIds -> Note \cup {NoRow}] /\ sent \in [NoteIds -> Nat]
    BY <1>0 DEF NoteTypes
  <2>1. \A j \in NoteIds : j # i => notes'[j] = notes[j]
    BY <1>6, <2>0
  <2>2. /\ \A j \in NoteIds : j # i => NoteTold(j)'
        /\ deliveries' \in [Senders -> {NIdle} \cup Delivery]
        /\ \A v \in Senders : v # w => (On(v, i)' <=> On(v, i)) /\ deliveries'[v] = deliveries[v]
        /\ On(w, i)' <=> NIdle # NIdle
    BY <1>1, <1>3, <1>6, <2>1, OthersTold, ZenonT(60)
  <2>3. ASSUME notes[i] # NoRow
        PROVE  /\ notes'[i] \in Note
               /\ notes'[i].status = deliveries[w].at
               /\ deliveries[w].at = "failed" => notes'[i].attempts > 0
    <3> DEFINE row == notes[i]
    <3>1. row \in Note
      BY <2>0, <2>3
    <3>2. notes'[i] = Marked(row, deliveries[w].at)
      BY <1>6, <2>0, <2>3
    <3>3. row.attempts \in 0..MaxAttempts /\ row.channel \in Channels
      BY <3>1 DEF Note
    <3> HIDE DEF row
    <3>4. CASE deliveries[w].at = "delivered"
      <4>1. notes'[i] = [row EXCEPT !.status = "delivered", !.old = FALSE]
        BY <3>2, <3>4 DEF Marked
      <4>2. notes'[i] = [channel |-> row.channel, status |-> "delivered", attempts |-> row.attempts, old |-> FALSE]
        BY <3>1, <4>1 DEF Note
      <4> DEFINE n == [channel |-> row.channel, status |-> "delivered", attempts |-> row.attempts, old |-> FALSE]
      <4>3. n \in Note
        BY <3>3, Zenon DEF Note
      <4>4. n.status = "delivered"
        OBVIOUS
      <4> QED
        BY <3>4, <4>2, <4>3, <4>4
    <3>5. CASE deliveries[w].at = "failed"
      <4> DEFINE a == IF row.attempts < MaxAttempts THEN row.attempts + 1 ELSE row.attempts
      <4>1. notes'[i] = [row EXCEPT !.status = "failed", !.old = FALSE, !.attempts = IF @ < MaxAttempts THEN @ + 1 ELSE @]
        BY <3>2, <3>5 DEF Marked
      <4>2. a \in 0..MaxAttempts /\ a > 0
        BY <3>3, NotesAssumption
      <4> DEFINE n == [channel |-> row.channel, status |-> "failed", attempts |-> a, old |-> FALSE]
      <4>3. notes'[i] = n
        BY <3>1, <4>1 DEF Note
      <4> HIDE DEF a
      <4>4. n \in Note
        BY <3>3, <4>2, Zenon DEF Note
      <4>5. n.status = "failed" /\ n.attempts = a
        OBVIOUS
      <4> QED
        BY <3>5, <4>2, <4>3, <4>4, <4>5
    <3> QED
      BY <1>1, <3>4, <3>5
  <2>4. notes[i] = NoRow => notes'[i] = NoRow
    BY <1>6, <2>0
  <2>5. NoteTypes'
    <3>1. notes' \in [NoteIds -> Note \cup {NoRow}]
      BY <1>6, <2>0, <2>1, <2>3, <2>4
    <3> QED
      BY <1>1, <2>0, <2>2, <3>1 DEF NoteTypes
  <2>6. i \notin uncertain => /\ sent[i] <= 1
                              /\ \A v \in Senders : ~On(v, i)'
                              /\ deliveries[w].at = "failed" => sent[i] = 0
    BY <1>4, <2>2 DEF NoteTold
  <2>7. deliveries[w].at = "delivered" => sent[i] > 0
    BY <1>4 DEF NoteTold
  <2>8. \A v \in Senders : On(v, i)' => On(v, i) /\ deliveries'[v] = deliveries[v]
    BY <2>2
  <2>9. \A v \in Senders : On(v, i) /\ deliveries[v].at = "delivered" => sent[i] > 0
    BY <1>4 DEF NoteTold
  <2>10. NoteTold(i)'
    BY <1>1, <1>6, <2>3, <2>4, <2>6, <2>7, <2>8, <2>9 DEF NoteTold
  <2> QED
    BY <2>2, <2>5, <2>10 DEF NotesInv
<1> QED
  BY <1>3, <1>5, <1>6 DEF MarkOutcome

\* A row that ages or goes, and a new one for which nothing was sent, change nothing of this.
LEMMA RowsTold ==
    ASSUME NotesInv, UNCHANGED <<deliveries, sent, uncertain>>, notes' \in [NoteIds -> Note \cup {NoRow}],
           \A i \in NoteIds :
               notes'[i] # NoRow =>
                   \/ notes[i] # NoRow /\ notes'[i].status = notes[i].status /\ notes'[i].attempts = notes[i].attempts
                   \/ sent[i] = 0 /\ notes'[i].status = "pending"
    PROVE  NotesInv'
<1>0. NoteTypes /\ \A j \in NoteIds : NoteTold(j)
  BY DEF NotesInv
<1>1. NoteTypes'
  BY <1>0 DEF NoteTypes
<1>2. \A v \in Senders, j \in NoteIds : On(v, j)' <=> On(v, j)
  BY DEF On
<1>3. ASSUME NEW i \in NoteIds PROVE NoteTold(i)'
  BY <1>0, <1>2, <1>3 DEF NoteTold
<1> QED
  BY <1>1, <1>3 DEF NotesInv

LEMMA NotesStep == NotesInv /\ [NotesNext]_nvars => NotesInv'
<1> SUFFICES ASSUME NotesInv, [NotesNext]_nvars PROVE NotesInv'
  OBVIOUS
<1>0. notes \in [NoteIds -> Note \cup {NoRow}] /\ NoteTypes
  BY DEF NotesInv, NoteTypes
<1>1. CASE RunAll
  <2>1. \A i \in NoteIds : notes'[i] = NoRow \/ notes'[i] = notes[i]
    BY <1>1 DEF RunAll, CleanNotifications
  <2>2. notes' \in [NoteIds -> Note \cup {NoRow}]
    BY <1>0, <1>1 DEF RunAll, CleanNotifications
  <2> QED
    BY <1>1, <2>1, <2>2, RowsTold DEF RunAll
<1>2. ASSUME NEW i \in NoteIds, GrowOld(i) PROVE NotesInv'
  <2> DEFINE n == [notes[i] EXCEPT !.old = TRUE]
  <2>1. notes[i] \in Note /\ notes' = [notes EXCEPT ![i] = n] /\ UNCHANGED <<deliveries, sent, uncertain>>
    BY <1>0, <1>2 DEF GrowOld
  <2>2. n \in Note /\ n.status = notes[i].status /\ n.attempts = notes[i].attempts
    BY <2>1 DEF Note
  <2>3. notes[i] # NoRow
    BY <1>2 DEF GrowOld
  <2> HIDE DEF n
  <2>4. notes' \in [NoteIds -> Note \cup {NoRow}]
    BY <1>0, <2>1, <2>2
  <2>5. \A j \in NoteIds : notes'[j] = IF j = i THEN n ELSE notes[j]
    BY <1>0, <2>1
  <2> QED
    BY <2>1, <2>2, <2>3, <2>4, <2>5, RowsTold
<1>3. ASSUME NEW i \in NoteIds, NEW c \in Channels, InsertNotification(i, c) PROVE NotesInv'
  <2> DEFINE n == [channel |-> c, status |-> "pending", attempts |-> 0, old |-> FALSE]
  <2>1. notes' = [notes EXCEPT ![i] = n] /\ sent[i] = 0 /\ UNCHANGED <<deliveries, sent, uncertain>>
    BY <1>3 DEF InsertNotification
  <2>2. 0 \in 0..MaxAttempts
    BY NotesAssumption
  <2>3. n \in Note
    BY <2>2, Zenon DEF Note
  <2>4. n.status = "pending"
    OBVIOUS
  <2> HIDE DEF n
  <2>5. notes' \in [NoteIds -> Note \cup {NoRow}]
    BY <1>0, <2>1, <2>3
  <2>6. \A j \in NoteIds : notes'[j] = IF j = i THEN n ELSE notes[j]
    BY <1>0, <2>1
  <2> QED
    BY <2>1, <2>4, <2>5, <2>6, RowsTold
<1>4. ASSUME NEW w \in Senders, DeliveryCrashes(w) PROVE NotesInv'
  BY <1>4, LostTold DEF DeliveryCrashes
<1>5. CASE UNCHANGED nvars
  BY <1>0, <1>5, RowsTold DEF nvars
<1> QED
  BY <1>1, <1>2, <1>3, <1>4, <1>5, GetTold, SendTold, OutcomeTold DEF NotesNext

\* For any notifications and workers, with workers that die and deliveries that overlap: the
\* status of a notification tells what happened to it, and it goes out once, but for deliveries
\* that overlapped or lost their outcome.
THEOREM DeliveriesTold == NotesSpec => []DeliveriesTrue
<1>1. NotesInv => DeliveriesTrue
  <2> SUFFICES ASSUME NotesInv PROVE DeliveriesTrue
    OBVIOUS
  <2>0. \A i \in NoteIds : NoteTold(i) /\ sent[i] \in Nat /\ notes[i] \in Note \cup {NoRow}
    BY DEF NotesInv, NoteTypes
  <2>1. OutcomeTruthful
    BY <2>0 DEF NoteTold, OutcomeTruthful
  <2>2. SentOnce
    BY <2>0 DEF NoteTold, SentOnce
  <2> QED
    BY <2>1, <2>2 DEF DeliveriesTrue
<1> QED
  BY <1>1, NotesStart, NotesStep, PTL DEF NotesSpec

-----------------------------------------------------------------------------
(* Billing *)

AtProvider == [plan : Plans \cup {"free"}, live : BOOLEAN]

BillingCall ==
    [op : {"plan", "cancel", "renew", "expire", "invoice"}, arg : Plans \cup {"free"} \cup BOOLEAN \cup {0} \cup Amounts,
     row : SubRow \cup {NoRow}, stale : BOOLEAN, at : {"provider", "write"}]

BillingTypes ==
    /\ bday \in Nat
    /\ prov \in Seq(AtProvider)
    /\ sub \in SubRow \cup {NoRow}
    /\ breqs \in [Billers -> {BIdle} \cup BillingCall]

\* What a call holds: a row of a subscription that was made, a plan to change to, a row to
\* write, and an active one to renew.
CallHolds(q, made) ==
    q # BIdle =>
        /\ q.row # NoRow => q.row.sid <= made
        /\ q.op = "plan" => q.arg \in Plans \cup {"free"}
        /\ q.op # "plan" \/ q.at = "write" => q.row # NoRow
        /\ q.op = "renew" => q.row.status = "active"

CallsHold ==
    /\ sub # NoRow => sub.sid <= Len(prov)
    /\ \A w \in Billers : CallHolds(breqs[w], Len(prov))

\* A call whose row was not overwritten since it was read has the row of the table.
ReadIsCurrent == \A w \in Billers : breqs[w] # BIdle /\ ~breqs[w].stale => breqs[w].row = sub

\* The call has told the provider of the new plan, and is to write it.
Changing(w) == breqs[w] # BIdle /\ breqs[w].op = "plan" /\ breqs[w].at = "write"

\* Until a call wrote an overwritten row or stopped half way, the provider has the plan of the
\* row, unless some call is changing it; and the plan of a call that is to write the current
\* row, unless another one is changing it as well.
PlansAgree ==
    ~torn =>
        /\ (sub # NoRow /\ sub.sid # 0 /\ sub.status \in {"active", "trialing"})
           => prov[sub.sid].plan = sub.plan \/ \E w \in Billers : Changing(w)
        /\ \A w \in Billers :
            (Changing(w) /\ ~breqs[w].stale /\ breqs[w].row.sid # 0)
            => prov[breqs[w].row.sid].plan = breqs[w].arg \/ \E v \in Billers : v # w /\ Changing(v)

BillingInv == BillingTypes /\ CallsHold /\ ReadIsCurrent /\ PlansAgree

\* At first there is no subscription.
LEMMA BillingStart == BillingInit => BillingInv
<1> SUFFICES ASSUME BillingInit PROVE BillingInv
  OBVIOUS
<1>1. BillingTypes
  BY DEF BillingInit, BillingTypes
<1>2. sub = NoRow /\ \A w \in Billers : breqs[w] = BIdle
  BY DEF BillingInit
<1> QED
  BY <1>1, <1>2 DEF BillingInv, CallsHold, CallHolds, ReadIsCurrent, PlansAgree, Changing

\* What the columns become is a row of the same subscription.
LEMMA NewRowShape ==
    ASSUME NEW q \in BillingCall, bday \in Nat, q.row # NoRow, q.op = "plan" => q.arg \in Plans \cup {"free"}
    PROVE  /\ NewRow(q) \in SubRow
           /\ NewRow(q).sid = q.row.sid
           /\ q.op = "plan" => NewRow(q).plan = q.arg /\ NewRow(q).status = q.row.status
           /\ q.op = "renew" => NewRow(q).plan = q.row.plan
           /\ q.op \in {"cancel", "expire", "invoice"} => NewRow(q).status \in {"grace_period", "canceled"}
<1>1. /\ q.row \in SubRow
      /\ q.op \in {"plan", "cancel", "renew", "expire", "invoice"}
  BY DEF BillingCall
<1>2. NextPeriodEnd(bday, q.row.interval) \in Nat
  BY DEF NextPeriodEnd
<1>3. CASE q.op = "plan"
  BY <1>1, <1>3 DEF NewRow, SubRow
<1>4. CASE q.op = "cancel"
  BY <1>1, <1>4 DEF NewRow, SubRow, SubStatus
<1>5. CASE q.op = "renew"
  BY <1>1, <1>2, <1>5 DEF NewRow, SubRow, SubStatus
<1>6. CASE q.op \in {"expire", "invoice"}
  BY <1>1, <1>6 DEF NewRow, SubRow, SubStatus
<1> QED
  BY <1>1, <1>3, <1>4, <1>5, <1>6

\* A call writes the row: the other calls hold an overwritten one, and are where they were.
LEMMA RowWritten ==
    ASSUME BillingInv, NEW w \in Billers, NEW row \in SubRow, sub' = row, UNCHANGED bday,
           prov' \in Seq(AtProvider), Len(prov') >= Len(prov), row.sid <= Len(prov'),
           NEW q \in {BIdle} \cup BillingCall, CallHolds(q, Len(prov')), q # BIdle => q.row = row,
           breqs' = [Outdated(w) EXCEPT ![w] = q]
    PROVE  /\ BillingTypes' /\ CallsHold' /\ ReadIsCurrent'
           /\ \A v \in Billers : v # w => (Changing(v)' <=> Changing(v)) /\ (breqs'[v] # BIdle => breqs'[v].stale)
           /\ breqs'[w] = q
<1>0. BillingTypes /\ CallsHold
  BY DEF BillingInv
<1>1. breqs \in [Billers -> {BIdle} \cup BillingCall] /\ Len(prov) \in Nat /\ Len(prov') \in Nat
  BY <1>0 DEF BillingTypes
<1>2. \A v \in Billers : v # w => breqs'[v] = IF breqs[v] # BIdle THEN [breqs[v] EXCEPT !.stale = TRUE] ELSE breqs[v]
  BY DEF Outdated
<1>3. breqs'[w] = q
  BY DEF Outdated
<1>4. ASSUME NEW v \in Billers, v # w
      PROVE  /\ breqs'[v] \in {BIdle} \cup BillingCall
             /\ CallHolds(breqs'[v], Len(prov'))
             /\ Changing(v)' <=> Changing(v)
             /\ breqs'[v] # BIdle => breqs'[v].stale
  <2>1. CASE breqs[v] = BIdle
    BY <1>2, <1>4, <2>1 DEF CallHolds, Changing
  <2>2. CASE breqs[v] # BIdle
    <3> DEFINE p == breqs[v]
    <3> DEFINE n == [breqs[v] EXCEPT !.stale = TRUE]
    <3>1. p \in BillingCall
      BY <1>1, <2>2
    <3>2. n \in BillingCall
      BY <3>1 DEF BillingCall
    <3>3. n.op = p.op /\ n.arg = p.arg /\ n.row = p.row /\ n.at = p.at /\ n.stale = TRUE
      BY <3>1 DEF BillingCall
    <3>4. breqs'[v] = n
      BY <1>2, <1>4, <2>2
    <3>5. n # BIdle
      BY <3>1, <3>3 DEF BIdle, BillingCall
    <3>6. CallHolds(p, Len(prov))
      BY <1>0 DEF CallsHold
    <3>7. p.row # NoRow => p.row.sid \in Nat
      BY <3>1 DEF BillingCall, SubRow
    <3> HIDE DEF n
    <3>8. CallHolds(n, Len(prov'))
      BY <1>1, <2>2, <3>3, <3>6, <3>7 DEF CallHolds
    <3> QED
      BY <2>2, <3>2, <3>3, <3>4, <3>5, <3>8 DEF Changing
  <2> QED
    BY <2>1, <2>2
<1>5. BillingTypes'
  <2>1. breqs' = [v \in Billers |-> breqs'[v]]
    BY DEF Outdated
  <2>2. \A v \in Billers : breqs'[v] \in {BIdle} \cup BillingCall
    BY <1>3, <1>4
  <2>3. breqs' \in [Billers -> {BIdle} \cup BillingCall]
    BY <2>1, <2>2
  <2> QED
    BY <1>0, <2>3 DEF BillingTypes
<1>6. CallsHold'
  BY <1>3, <1>4 DEF CallsHold
<1>7. ReadIsCurrent'
  BY <1>3, <1>4 DEF ReadIsCurrent
<1> QED
  BY <1>3, <1>4, <1>5, <1>6, <1>7

\* A new subscription is the provider's with the plan of its row.
LEMMA SubscribeAgrees ==
    ASSUME BillingInv, NEW w \in Billers, NEW plan \in Plans, NEW interval \in Intervals, NEW trial \in BOOLEAN,
           Subscribe(w, plan, interval, trial)
    PROVE  BillingInv'
<1>0. BillingTypes
  BY DEF BillingInv
<1> DEFINE p == [plan |-> plan, live |-> TRUE]
<1> DEFINE row == [plan |-> plan, status |-> IF trial THEN "trialing" ELSE "active", interval |-> interval,
                   sid |-> Len(prov) + 1, start |-> bday, end |-> NextPeriodEnd(bday, interval)]
<1>1. /\ breqs[w] = BIdle /\ Len(prov) < MaxSubs /\ prov' = Append(prov, p) /\ sub' = row /\ breqs' = Outdated(w)
      /\ bday' = bday /\ torn' = torn
  BY DEF Subscribe, UpsertSubscription
<1>2. p \in AtProvider
  BY Zenon DEF AtProvider
<1>3. p.plan = plan
  OBVIOUS
<1>4. bday \in Nat /\ prov \in Seq(AtProvider) /\ Len(prov) \in Nat
  BY <1>0 DEF BillingTypes
<1>5. NextPeriodEnd(bday, interval) \in Nat /\ interval \in {"monthly", "yearly"} /\ Len(prov) + 1 \in 0..MaxSubs
  BY <1>1, <1>4, BillingAssumption DEF NextPeriodEnd
<1>6. row \in SubRow /\ row.sid = Len(prov) + 1 /\ row.plan = plan
  BY <1>4, <1>5 DEF SubRow, SubStatus
<1> HIDE DEF p, row
<1>7. prov' \in Seq(AtProvider) /\ Len(prov') = Len(prov) + 1 /\ prov'[Len(prov) + 1] = p
  BY <1>1, <1>2, <1>4
<1>8. breqs' = [Outdated(w) EXCEPT ![w] = BIdle]
  BY <1>1 DEF Outdated
<1>9. CallHolds(BIdle, Len(prov'))
  BY DEF CallHolds
<1>10. /\ BillingTypes' /\ CallsHold' /\ ReadIsCurrent'
       /\ \A v \in Billers : v # w => (Changing(v)' <=> Changing(v)) /\ (breqs'[v] # BIdle => breqs'[v].stale)
       /\ breqs'[w] = BIdle
  <2>1. /\ row \in SubRow /\ sub' = row /\ UNCHANGED bday /\ prov' \in Seq(AtProvider)
        /\ Len(prov') >= Len(prov) /\ row.sid <= Len(prov')
        /\ BIdle \in {BIdle} \cup BillingCall /\ CallHolds(BIdle, Len(prov')) /\ (BIdle # BIdle => BIdle.row = row)
        /\ breqs' = [Outdated(w) EXCEPT ![w] = BIdle]
    <3>1. Len(prov') >= Len(prov) /\ row.sid <= Len(prov')
      BY <1>4, <1>6, <1>7
    <3>2. row \in SubRow /\ sub' = row /\ UNCHANGED bday
      BY <1>1, <1>6
    <3> QED
      BY ONLY <1>7, <1>8, <1>9, <3>1, <3>2
  <2> QED
    BY ONLY BillingInv, w \in Billers, <2>1, RowWritten
<1>11. PlansAgree'
  <2>1. prov'[sub'.sid].plan = sub'.plan
    BY <1>1, <1>3, <1>6, <1>7
  <2>2. \A v \in Billers : ~(Changing(v)' /\ ~breqs'[v].stale)
    BY <1>10 DEF Changing
  <2> QED
    BY <2>1, <2>2 DEF PlansAgree
<1> QED
  BY <1>10, <1>11 DEF BillingInv

\* The free row that a change of plan starts from has no subscription at the provider.
LEMMA FreeAgrees ==
    ASSUME BillingInv, NEW w \in Billers, EnsureFreeSubscription(w)
    PROVE  BillingInv'
<1>0. BillingTypes /\ CallsHold
  BY DEF BillingInv
<1> DEFINE row == [plan |-> "free", status |-> "active", interval |-> "monthly", sid |-> 0,
                   start |-> bday, end |-> NextPeriodEnd(bday, "monthly")]
<1> DEFINE q == [breqs[w] EXCEPT !.row = row, !.stale = FALSE]
<1>1. /\ breqs[w].op = "plan" /\ breqs[w].at = "provider" /\ sub' = row /\ bday' = bday /\ prov' = prov
      /\ breqs' = [Outdated(w) EXCEPT ![w].row = row, ![w].stale = FALSE]
  BY DEF EnsureFreeSubscription, UpsertSubscription
<1>2. breqs[w] # BIdle /\ breqs[w] \in BillingCall
  BY <1>0, <1>1 DEF BillingTypes, BIdle
<1>3. bday \in Nat /\ prov \in Seq(AtProvider) /\ Len(prov) \in Nat
  BY <1>0 DEF BillingTypes
<1>4. NextPeriodEnd(bday, "monthly") \in Nat /\ 0 \in 0..MaxSubs
  BY <1>3, BillingAssumption DEF NextPeriodEnd
<1>5. row \in SubRow /\ row.sid = 0
  BY <1>3, <1>4 DEF SubRow, SubStatus
<1> HIDE DEF row
<1>6. Outdated(w)[w] = breqs[w]
  BY DEF Outdated
<1>7. breqs' = [Outdated(w) EXCEPT ![w] = q]
  BY <1>1, <1>6 DEF Outdated
<1>8. q \in BillingCall
  BY <1>2, <1>5 DEF BillingCall
<1>9. q.op = "plan" /\ q.at = "provider" /\ q.row = row /\ q.arg = breqs[w].arg
  BY <1>1, <1>2 DEF BillingCall
<1>10. breqs[w].arg \in Plans \cup {"free"}
  BY <1>0, <1>1, <1>2 DEF CallsHold, CallHolds
<1> HIDE DEF q
<1>11. CallHolds(q, Len(prov')) /\ row # NoRow
  BY <1>1, <1>3, <1>5, <1>9, <1>10, BillingAssumption DEF CallHolds
<1>12. /\ BillingTypes' /\ CallsHold' /\ ReadIsCurrent'
       /\ \A v \in Billers : v # w => (Changing(v)' <=> Changing(v)) /\ (breqs'[v] # BIdle => breqs'[v].stale)
       /\ breqs'[w] = q
  <2>1. /\ row \in SubRow /\ sub' = row /\ UNCHANGED bday /\ prov' \in Seq(AtProvider)
        /\ Len(prov') >= Len(prov) /\ row.sid <= Len(prov')
        /\ q \in {BIdle} \cup BillingCall /\ CallHolds(q, Len(prov')) /\ (q # BIdle => q.row = row)
        /\ breqs' = [Outdated(w) EXCEPT ![w] = q]
    <3>1. Len(prov') >= Len(prov) /\ row.sid <= Len(prov')
      BY <1>1, <1>3, <1>5
    <3>2. sub' = row /\ bday' = bday /\ prov' \in Seq(AtProvider) /\ q.row = row
      BY <1>1, <1>3, <1>9
    <3> QED
      BY ONLY <1>5, <1>7, <1>8, <1>11, <3>1, <3>2
  <2> QED
    BY ONLY BillingInv, w \in Billers, <2>1, RowWritten
<1>13. PlansAgree'
  <2>1. sub'.sid = 0
    BY <1>1, <1>5
  <2>2. \A v \in Billers : ~(Changing(v)' /\ ~breqs'[v].stale)
    BY <1>9, <1>12 DEF Changing
  <2> QED
    BY <2>1, <2>2 DEF PlansAgree
<1> QED
  BY <1>12, <1>13 DEF BillingInv

\* A call that writes the row it read last has told the provider of the plan in it, or another
\* one has, which will find its row overwritten.
LEMMA WriteAgrees ==
    ASSUME BillingInv, NEW w \in Billers, WriteSubscription(w)
    PROVE  BillingInv'
<1>0. BillingTypes /\ CallsHold /\ ReadIsCurrent /\ PlansAgree
  BY DEF BillingInv
<1> DEFINE q == breqs[w]
<1> DEFINE row == NewRow(q)
<1>1. q # BIdle /\ q.at = "write" /\ q.op # "invoice" /\ sub' = row /\ breqs' = [Outdated(w) EXCEPT ![w] = BIdle] /\ bday' = bday /\ prov' = prov
  BY DEF WriteSubscription, UpsertSubscription
<1>2. ~torn' => ~torn /\ ~q.stale
  BY Zenon DEF WriteSubscription
<1>3. q \in BillingCall /\ bday \in Nat /\ prov \in Seq(AtProvider) /\ Len(prov) \in Nat
  BY <1>0, <1>1 DEF BillingTypes
<1>4. CallHolds(q, Len(prov))
  BY <1>0 DEF CallsHold
<1>5. q.row # NoRow /\ q.row.sid <= Len(prov) /\ (q.op = "plan" => q.arg \in Plans \cup {"free"}) /\ (q.op = "renew" => q.row.status = "active")
  BY <1>1, <1>4 DEF CallHolds
<1>6. /\ row \in SubRow
      /\ row.sid = q.row.sid
      /\ q.op = "plan" => row.plan = q.arg /\ row.status = q.row.status
      /\ q.op = "renew" => row.plan = q.row.plan
      /\ q.op \in {"cancel", "expire", "invoice"} => row.status \in {"grace_period", "canceled"}
  BY <1>3, <1>5, NewRowShape
<1>7. q.op \in {"plan", "cancel", "renew", "expire"}
  BY <1>1, <1>3 DEF BillingCall
<1>8. CallHolds(BIdle, Len(prov'))
  BY DEF CallHolds
<1>9. ~q.stale => q.row = sub
  BY <1>0, <1>1 DEF ReadIsCurrent
<1>10. q.op = "plan" => Changing(w)
  BY <1>1 DEF Changing
<1>11. Changing(w) => q.op = "plan"
  BY DEF Changing
<1>a. ASSUME ~torn
      PROVE  /\ (sub # NoRow /\ sub.sid # 0 /\ sub.status \in {"active", "trialing"})
                => prov[sub.sid].plan = sub.plan \/ \E v \in Billers : Changing(v)
             /\ (Changing(w) /\ ~q.stale /\ q.row.sid # 0)
                => prov[q.row.sid].plan = q.arg \/ \E v \in Billers : v # w /\ Changing(v)
  BY <1>0, <1>a DEF PlansAgree
<1> HIDE DEF row, q
<1>12. /\ BillingTypes' /\ CallsHold' /\ ReadIsCurrent'
       /\ \A v \in Billers : v # w => (Changing(v)' <=> Changing(v)) /\ (breqs'[v] # BIdle => breqs'[v].stale)
       /\ breqs'[w] = BIdle
  <2>1. /\ row \in SubRow /\ sub' = row /\ UNCHANGED bday /\ prov' \in Seq(AtProvider)
        /\ Len(prov') >= Len(prov) /\ row.sid <= Len(prov')
        /\ BIdle \in {BIdle} \cup BillingCall /\ CallHolds(BIdle, Len(prov')) /\ (BIdle # BIdle => BIdle.row = row)
        /\ breqs' = [Outdated(w) EXCEPT ![w] = BIdle]
    BY <1>1, <1>3, <1>5, <1>6, <1>8
  <2> QED
    BY ONLY BillingInv, w \in Billers, <2>1, RowWritten
<1>13. PlansAgree'
  <2>1. \A v \in Billers : ~(Changing(v)' /\ ~breqs'[v].stale)
    BY <1>12 DEF Changing
  <2>2. ASSUME ~torn', row.sid # 0, row.status \in {"active", "trialing"}
        PROVE  prov[row.sid].plan = row.plan \/ \E v \in Billers : v # w /\ Changing(v)
    <3>1. ~torn /\ ~q.stale /\ q.row = sub
      BY <1>2, <1>9, <2>2
    <3>2. CASE q.op = "plan"
      BY <1>6, <1>10, <1>a, <2>2, <3>1, <3>2
    <3>3. CASE q.op = "renew"
      BY <1>5, <1>6, <1>11, <1>a, <2>2, <3>1, <3>3
    <3>4. CASE q.op \in {"cancel", "expire"}
      BY <1>6, <2>2, <3>4
    <3> QED
      BY <1>7, <3>2, <3>3, <3>4
  <2> QED
    BY <1>1, <1>12, <2>1, <2>2 DEF PlansAgree
<1> QED
  BY <1>12, <1>13 DEF BillingInv

\* A call that only moves, or starts, or ends, of one worker.
LEMMA CallMoved ==
    ASSUME BillingInv, NEW w \in Billers, UNCHANGED <<bday, sub>>,
           prov' \in Seq(AtProvider), Len(prov') = Len(prov),
           NEW q \in {BIdle} \cup BillingCall, CallHolds(q, Len(prov)), q # BIdle /\ ~q.stale => q.row = sub,
           breqs' = [breqs EXCEPT ![w] = q]
    PROVE  /\ BillingTypes' /\ CallsHold' /\ ReadIsCurrent'
           /\ \A v \in Billers : v # w => breqs'[v] = breqs[v] /\ (Changing(v)' <=> Changing(v))
           /\ breqs'[w] = q
           /\ Changing(w)' <=> q # BIdle /\ q.op = "plan" /\ q.at = "write"
<1>0. BillingTypes /\ CallsHold /\ ReadIsCurrent
  BY DEF BillingInv
<1>1. breqs \in [Billers -> {BIdle} \cup BillingCall]
  BY <1>0 DEF BillingTypes
<1>2. \A v \in Billers : breqs'[v] = IF v = w THEN q ELSE breqs[v]
  BY <1>1
<1>3. breqs' \in [Billers -> {BIdle} \cup BillingCall]
  BY <1>1
<1>4. BillingTypes'
  BY <1>0, <1>3 DEF BillingTypes
<1>5. CallsHold'
  BY <1>0, <1>2 DEF CallsHold
<1>6. ReadIsCurrent'
  BY <1>0, <1>2 DEF ReadIsCurrent
<1> QED
  BY <1>2, <1>4, <1>5, <1>6 DEF Changing

\* A call that starts, ends, or was not changing the plan, while the provider keeps its plans.
LEMMA CallAgrees ==
    ASSUME BillingInv, NEW w \in Billers, UNCHANGED <<bday, sub, prov>>,
           NEW q \in {BIdle} \cup BillingCall, CallHolds(q, Len(prov)), q # BIdle /\ ~q.stale => q.row = sub,
           breqs' = [breqs EXCEPT ![w] = q], ~(q # BIdle /\ q.op = "plan" /\ q.at = "write"),
           ~torn' => ~torn /\ ~Changing(w)
    PROVE  BillingInv'
<1>0. BillingTypes /\ PlansAgree
  BY DEF BillingInv
<1>1. prov' \in Seq(AtProvider) /\ Len(prov') = Len(prov)
  BY <1>0 DEF BillingTypes
<1>2. /\ BillingTypes' /\ CallsHold' /\ ReadIsCurrent'
      /\ \A v \in Billers : v # w => breqs'[v] = breqs[v] /\ (Changing(v)' <=> Changing(v))
      /\ breqs'[w] = q
      /\ Changing(w)' <=> q # BIdle /\ q.op = "plan" /\ q.at = "write"
  BY <1>1, CallMoved
<1>3. PlansAgree'
  <2> SUFFICES ASSUME ~torn' PROVE PlansAgree'
    BY DEF PlansAgree
  <2>1. ~torn /\ ~Changing(w) /\ ~Changing(w)'
    BY <1>2
  <2>2. \A v \in Billers : Changing(v)' <=> Changing(v)
    BY <1>2, <2>1
  <2>3. \A v \in Billers : Changing(v) => breqs'[v] = breqs[v]
    BY <1>2, <2>1
  <2> QED
    BY <1>0, <2>1, <2>2, <2>3 DEF PlansAgree
<1> QED
  BY <1>2, <1>3 DEF BillingInv

\* The provider is told: the call changes the plan from now on.
LEMMA ProviderAgrees ==
    ASSUME BillingInv, NEW w \in Billers, CallProvider(w)
    PROVE  BillingInv'
<1>0. BillingTypes /\ CallsHold /\ ReadIsCurrent /\ PlansAgree
  BY DEF BillingInv
<1> DEFINE q == breqs[w]
<1> DEFINE s == q.row.sid
<1> DEFINE n == [q EXCEPT !.at = "write"]
<1>1. /\ q # BIdle /\ q.at = "provider" /\ q.row # NoRow
      /\ prov' = IF s = 0 THEN prov ELSE IF q.op = "plan" THEN [prov EXCEPT ![s].plan = q.arg] ELSE [prov EXCEPT ![s].live = FALSE]
      /\ breqs' = [breqs EXCEPT ![w] = n] /\ UNCHANGED <<bday, sub, torn>>
  BY DEF CallProvider
<1>2. q \in BillingCall /\ prov \in Seq(AtProvider) /\ Len(prov) \in Nat
  BY <1>0, <1>1 DEF BillingTypes
<1>3. /\ s <= Len(prov) /\ (q.op = "plan" => q.arg \in Plans \cup {"free"})
      /\ q.op = "renew" => q.row.status = "active"
  BY <1>0, <1>1 DEF CallsHold, CallHolds
<1>4. s \in Nat
  BY <1>1, <1>2 DEF BillingCall, SubRow
<1>5. n \in BillingCall /\ n.op = q.op /\ n.arg = q.arg /\ n.row = q.row /\ n.stale = q.stale /\ n.at = "write"
  BY <1>2 DEF BillingCall
<1>6. n # BIdle
  BY <1>5 DEF BillingCall, BIdle
<1>7. CallHolds(n, Len(prov))
  BY <1>1, <1>3, <1>5 DEF CallHolds
<1>8. ~n.stale => n.row = sub
  BY <1>0, <1>1, <1>5 DEF ReadIsCurrent
<1>9. /\ prov' \in Seq(AtProvider) /\ Len(prov') = Len(prov)
      /\ q.op # "plan" => \A k \in 1..Len(prov) : prov'[k].plan = prov[k].plan
      /\ q.op = "plan" /\ s # 0 => prov'[s].plan = q.arg
  <2>1. CASE s = 0
    BY <1>1, <1>2, <2>1
  <2>2. CASE s # 0 /\ q.op = "plan"
    <3> DEFINE p == [prov[s] EXCEPT !.plan = q.arg]
    <3>1. s \in 1..Len(prov) /\ prov[s] \in AtProvider
      BY <1>2, <1>3, <1>4, <2>2
    <3>2. p \in AtProvider /\ p.plan = q.arg
      BY <1>3, <2>2, <3>1 DEF AtProvider
    <3>3. prov' = [prov EXCEPT ![s] = p]
      BY <1>1, <2>2
    <3> HIDE DEF p, q, s
    <3> QED
      BY <1>2, <2>2, <3>1, <3>2, <3>3
  <2>3. CASE s # 0 /\ q.op # "plan"
    <3> DEFINE p == [prov[s] EXCEPT !.live = FALSE]
    <3>1. s \in 1..Len(prov) /\ prov[s] \in AtProvider
      BY <1>2, <1>3, <1>4, <2>3
    <3>2. p \in AtProvider /\ p.plan = prov[s].plan
      BY <3>1 DEF AtProvider
    <3>3. prov' = [prov EXCEPT ![s] = p]
      BY <1>1, <2>3
    <3> HIDE DEF p, q, s
    <3> QED
      BY <1>2, <2>3, <3>1, <3>2, <3>3
  <2> QED
    BY <2>1, <2>2, <2>3
<1>a. ~Changing(w)
  BY <1>1 DEF Changing
<1>b. /\ sub # NoRow => sub.sid \in 0..Len(prov)
      /\ \A v \in Billers : Changing(v) => breqs[v].row.sid \in 0..Len(prov)
  <2>1. \A r \in SubRow : r.sid \in Nat
    BY DEF SubRow
  <2>2. \A v \in Billers : Changing(v) => breqs[v].row \in SubRow
    BY <1>0 DEF BillingTypes, BillingCall, CallsHold, CallHolds, Changing
  <2>3. \A v \in Billers : Changing(v) => breqs[v].row.sid <= Len(prov)
    BY <1>0 DEF CallsHold, CallHolds, Changing
  <2> QED
    BY <1>0, <1>2, <2>1, <2>2, <2>3 DEF BillingTypes, CallsHold
<1> HIDE DEF n
<1>10. /\ BillingTypes' /\ CallsHold' /\ ReadIsCurrent'
       /\ \A v \in Billers : v # w => breqs'[v] = breqs[v] /\ (Changing(v)' <=> Changing(v))
       /\ breqs'[w] = n
       /\ Changing(w)' <=> n # BIdle /\ n.op = "plan" /\ n.at = "write"
  BY <1>1, <1>5, <1>7, <1>8, <1>9, CallMoved, ZenonT(60)
<1>11. CASE q.op = "plan"
  <2>1. Changing(w)' /\ breqs'[w].row.sid = s /\ breqs'[w].arg = q.arg
    BY <1>5, <1>6, <1>10, <1>11
  <2>2. \A v \in Billers : (Changing(v)' /\ ~breqs'[v].stale /\ breqs'[v].row.sid # 0)
                           => prov'[breqs'[v].row.sid].plan = breqs'[v].arg \/ \E u \in Billers : u # v /\ Changing(u)'
    BY <1>9, <1>11, <2>1
  <2>3. PlansAgree'
    BY <2>1, <2>2 DEF PlansAgree
  <2> QED
    BY <1>10, <2>3 DEF BillingInv
<1>12. CASE q.op # "plan"
  <2>1. \A v \in Billers : Changing(v)' <=> Changing(v)
    BY <1>5, <1>10, <1>12, <1>a
  <2>2. \A v \in Billers : Changing(v) => breqs'[v] = breqs[v]
    BY <1>10, <1>a
  <2>3. (sub # NoRow /\ sub.sid # 0) => prov'[sub.sid].plan = prov[sub.sid].plan
    BY <1>2, <1>9, <1>12, <1>b
  <2>4. \A v \in Billers : Changing(v) /\ breqs[v].row.sid # 0 => prov'[breqs[v].row.sid].plan = prov[breqs[v].row.sid].plan
    BY <1>2, <1>9, <1>12, <1>b
  <2>5. sub' = sub /\ torn' = torn
    BY <1>1
  <2>6. ASSUME ~torn'
        PROVE  (sub' # NoRow /\ sub'.sid # 0 /\ sub'.status \in {"active", "trialing"})
               => prov'[sub'.sid].plan = sub'.plan \/ \E v \in Billers : Changing(v)'
    BY <1>0, <2>1, <2>3, <2>5, <2>6 DEF PlansAgree
  <2>7. ASSUME ~torn', NEW v \in Billers, Changing(v)', ~breqs'[v].stale, breqs'[v].row.sid # 0
        PROVE  prov'[breqs'[v].row.sid].plan = breqs'[v].arg \/ \E u \in Billers : u # v /\ Changing(u)'
    BY <1>0, <2>1, <2>2, <2>4, <2>5, <2>7 DEF PlansAgree
  <2>8. PlansAgree'
    BY <2>6, <2>7 DEF PlansAgree
  <2> QED
    BY <1>10, <2>8 DEF BillingInv
<1> QED
  BY <1>11, <1>12

\* A call starts with the row of the table.
LEMMA GetAgrees ==
    ASSUME BillingInv, NEW w \in Billers, NEW op \in {"plan", "cancel", "renew", "expire", "invoice"},
           NEW arg \in Plans \cup {"free"} \cup BOOLEAN \cup {0} \cup Amounts,
           op = "plan" => arg \in Plans \cup {"free"}, GetSubscription(w, op, arg)
    PROVE  BillingInv'
<1>0. BillingTypes /\ CallsHold
  BY DEF BillingInv
<1> DEFINE at == IF op \in {"plan", "cancel"} THEN "provider" ELSE "write"
<1> DEFINE q == [op |-> op, arg |-> arg, row |-> sub, stale |-> FALSE, at |-> at]
<1>1. breqs[w] = BIdle /\ breqs' = [breqs EXCEPT ![w] = q] /\ UNCHANGED <<bday, sub, prov, torn>>
  BY DEF GetSubscription
<1>2. /\ op # "plan" => sub # NoRow
      /\ op = "renew" => sub.status = "active"
  BY DEF GetSubscription, DueForRenewal
<1>3. at \in {"provider", "write"} /\ (op = "plan" => at = "provider") /\ sub \in SubRow \cup {NoRow}
  BY <1>0 DEF BillingTypes
<1> HIDE DEF at
<1>4. q \in BillingCall
  BY <1>3, Zenon DEF BillingCall
<1>5. q.op = op /\ q.arg = arg /\ q.row = sub /\ q.at = at
  OBVIOUS
<1> HIDE DEF q
<1>6. CallHolds(q, Len(prov))
  BY <1>0, <1>2, <1>3, <1>5 DEF CallHolds, CallsHold
<1>7. ~Changing(w)
  BY <1>1 DEF Changing
<1>8. ~(q # BIdle /\ q.op = "plan" /\ q.at = "write") /\ (q # BIdle /\ ~q.stale => q.row = sub) /\ (~torn' => ~torn /\ ~Changing(w))
  BY <1>1, <1>3, <1>5, <1>7
<1> QED
  BY <1>1, <1>4, <1>6, <1>8, CallAgrees

LEMMA BillingStep == BillingInv /\ [BillingNext]_bvars => BillingInv'
<1> SUFFICES ASSUME BillingInv, [BillingNext]_bvars PROVE BillingInv'
  OBVIOUS
<1>0. BillingTypes /\ CallsHold /\ ReadIsCurrent /\ PlansAgree
  BY DEF BillingInv
<1>1. ASSUME bday' \in Nat, UNCHANGED <<sub, prov, breqs, torn>> PROVE BillingInv'
  BY <1>0, <1>1 DEF BillingInv, BillingTypes, CallsHold, CallHolds, ReadIsCurrent, PlansAgree, Changing
<1>2. CASE BillingDay
  BY <1>0, <1>1, <1>2 DEF BillingDay, BillingTypes
<1>3. ASSUME NEW a \in Grants, AddCredit(a) PROVE BillingInv'
  BY <1>0, <1>1, <1>3 DEF AddCredit, BillingTypes
<1>4. CASE UNCHANGED bvars
  BY <1>0, <1>1, <1>4 DEF bvars, BillingTypes
<1>a. CallHolds(BIdle, Len(prov))
  BY DEF CallHolds
<1>5. ASSUME NEW w \in Billers, GenerateInvoice(w) PROVE BillingInv'
  <2>1. breqs[w].op = "invoice" /\ breqs' = [breqs EXCEPT ![w] = BIdle] /\ UNCHANGED <<bday, sub, prov>> /\ torn' = torn
    BY <1>5 DEF GenerateInvoice
  <2>2. ~Changing(w)
    BY <2>1 DEF Changing
  <2> QED
    BY <1>a, <2>1, <2>2, CallAgrees
<1>6. ASSUME NEW w \in Billers, BillingCallFails(w) PROVE BillingInv'
  <2>1. breqs' = [breqs EXCEPT ![w] = BIdle] /\ UNCHANGED <<bday, sub, prov>>
    BY <1>6 DEF BillingCallFails
  <2>2. ~torn' => ~torn /\ breqs[w].at # "write"
    BY <1>6, Zenon DEF BillingCallFails
  <2>3. ~torn' => ~torn /\ ~Changing(w)
    BY <2>2 DEF Changing
  <2> QED
    BY <1>a, <2>1, <2>3, CallAgrees
<1>7. ASSUME NEW w \in Billers, NEW p \in Plans \cup {"free"}, GetSubscription(w, "plan", p) PROVE BillingInv'
  BY <1>7, GetAgrees
<1>8. ASSUME NEW w \in Billers, NEW grace \in BOOLEAN, GetSubscription(w, "cancel", grace) PROVE BillingInv'
  BY <1>8, GetAgrees
<1>9. ASSUME NEW w \in Billers, NEW op \in {"renew", "expire"}, GetSubscription(w, op, 0) PROVE BillingInv'
  BY <1>9, GetAgrees
<1>10. ASSUME NEW w \in Billers, NEW a \in Amounts, GetSubscription(w, "invoice", a) PROVE BillingInv'
  BY <1>10, GetAgrees
<1> QED
  BY <1>2, <1>3, <1>4, <1>5, <1>6, <1>7, <1>8, <1>9, <1>10, SubscribeAgrees, FreeAgrees, WriteAgrees, ProviderAgrees DEF BillingNext

\* For any plans, amounts and calls at a time: once the calls have ended, the provider charges
\* for the plan in the row, unless a call wrote an overwritten row or stopped half way.
THEOREM PlansCharged == BillingSpec => []PlanAtProvider
<1>1. BillingInv => PlanAtProvider
  BY DEF BillingInv, PlansAgree, Changing, PlanAtProvider
<1> QED
  BY <1>1, BillingStart, BillingStep, PTL DEF BillingSpec

-----------------------------------------------------------------------------
(* Cron *)

Tick == [at : {"down", "idle", "leading", "firing"}, due : SUBSET DueRow]
        \cup [at : {"fired"}, due : SUBSET DueRow, name : CronName, ok : BOOLEAN, next : Nat]

CronTypes ==
    /\ minute \in Nat /\ cfaults \in Nat
    /\ DOMAIN table \subseteq CronName
    /\ \A c \in DOMAIN table : table[c].next \in Nat \cup {NoNext}
    /\ ticks \in [Crons -> Tick]

\* While nothing has failed, only the holder of the lock is in a tick.
HolderLeads == \A n \in Crons : Leading(n) => leader = n

\* The rows that a tick still has to fire are due as the table says.
DueCurrent ==
    \A n \in Crons :
        /\ ticks[n].at \notin {"firing", "fired"} => ticks[n].due = {}
        /\ \A r \in ticks[n].due :
            r.name \in DOMAIN table /\ table[r.name].next = r.slot /\ (r.slot \in Nat => r.slot <= minute)

\* The row of a job that was enqueued is not among them, and moves on.
FiredMoves ==
    \A n \in Crons :
        ticks[n].at = "fired" =>
            /\ ticks[n].name \in DOMAIN table
            /\ \A r \in ticks[n].due : r.name # ticks[n].name
            /\ table[ticks[n].name].next = NoNext \/ table[ticks[n].name].next < ticks[n].next

\* A run in the queue is one that the table has left behind, or is about to.
RunsBehind ==
    \A f \in fires :
        /\ f.name \in DOMAIN table
        /\ \/ table[f.name].next \in Nat /\ (f.slot = NoNext \/ (f.slot \in Nat /\ f.slot < table[f.name].next))
           \/ \E n \in Crons : ticks[n].at = "fired" /\ ticks[n].name = f.name /\ f.slot = table[f.name].next

FaultFree == HolderLeads /\ DueCurrent /\ FiredMoves /\ RunsBehind /\ \A f, g \in fires : (f.name = g.name /\ f.slot = g.slot) => f = g

CronInv == CronTypes /\ (cfaults = 0 => FaultFree)

\* The next multiple of a unit is later than now.
LEMMA FloorBelow ==
    ASSUME NEW t \in Nat, NEW u \in Nat \ {0}
    PROVE  Floor(t, u) \in Nat /\ Floor(t, u) + u > t
  BY DEF Floor

\* The next run of a schedule is later than now.
LEMMA NextRunLater ==
    ASSUME NEW schedule, NEW t \in Nat
    PROVE  NextRunAfter(schedule, t) \in Nat /\ NextRunAfter(schedule, t) > t
<1>1. CDay \in Nat \ {0} /\ CHour \in Nat \ {0} /\ 365 * CDay \in Nat \ {0} /\ 30 * CDay \in Nat \ {0}
  BY CalendarAssumption
<1>2. /\ Floor(t, CDay) \in Nat /\ Floor(t, CDay) + CDay > t
      /\ Floor(t, CHour) \in Nat /\ Floor(t, CHour) + CHour > t
      /\ Floor(t, 365 * CDay) \in Nat /\ Floor(t, 365 * CDay) + 365 * CDay > t
      /\ Floor(t, 30 * CDay) \in Nat /\ Floor(t, 30 * CDay) + 30 * CDay > t
  BY <1>1, FloorBelow, ZenonT(60)
<1>3. Floor(t, CDay) + 7 * CDay \in Nat /\ Floor(t, CDay) + 7 * CDay > t
  BY <1>1, <1>2
<1> QED
  BY <1>1, <1>2, <1>3 DEF NextRunAfter

\* A process is down at first, and there are no rows.
LEMMA CronStart == CronInit => CronInv
<1> SUFFICES ASSUME CronInit PROVE CronInv
  OBVIOUS
<1> DEFINE down == [at |-> "down", due |-> {}]
<1>1. down \in Tick /\ down.at = "down" /\ down.due = {}
  BY DEF Tick
<1>2. ticks = [n \in Crons |-> down] /\ DOMAIN table = {} /\ fires = {} /\ minute = 1 /\ cfaults = 0
  BY DEF CronInit
<1> HIDE DEF down
<1>3. \A n \in Crons : ticks[n] = down
  BY <1>2
<1>4. CronTypes
  BY <1>1, <1>2 DEF CronTypes
<1>5. HolderLeads
  BY <1>1, <1>3 DEF HolderLeads, Leading
<1>6. DueCurrent /\ FiredMoves
  BY <1>1, <1>3 DEF DueCurrent, FiredMoves
<1> QED
  BY <1>2, <1>4, <1>5, <1>6 DEF CronInv, FaultFree, RunsBehind

\* A process that is not in a tick, and moves to a position with no rows to fire, changes
\* nothing; new rows of the table neither.
LEMMA CronMoved ==
    ASSUME FaultFree, CronTypes, NEW n \in Crons, NEW q \in Tick, ticks' = [ticks EXCEPT ![n] = q],
           q.at \notin {"firing", "fired"}, q.due = {}, ticks[n].at # "fired", fires' = fires,
           q.at \notin {"down", "idle"} => leader' = n,
           \A m \in Crons : m # n /\ Leading(m) => leader' = m,
           DOMAIN table \subseteq DOMAIN table', \A c \in DOMAIN table : table'[c] = table[c],
           minute' = minute
    PROVE  FaultFree'
<1>0. ticks \in [Crons -> Tick] /\ HolderLeads /\ DueCurrent /\ FiredMoves /\ RunsBehind
  BY DEF FaultFree, CronTypes
<1>1. \A m \in Crons : ticks'[m] = IF m = n THEN q ELSE ticks[m]
  BY <1>0
<1>2. HolderLeads'
  BY <1>1 DEF HolderLeads, Leading
<1>3. DueCurrent'
  BY <1>0, <1>1 DEF DueCurrent
<1>4. FiredMoves'
  BY <1>0, <1>1 DEF FiredMoves
<1>5. RunsBehind'
  <2> SUFFICES ASSUME NEW f \in fires
               PROVE  /\ f.name \in DOMAIN table'
                      /\ \/ table'[f.name].next \in Nat /\ (f.slot = NoNext \/ (f.slot \in Nat /\ f.slot < table'[f.name].next))
                         \/ \E m \in Crons : ticks'[m].at = "fired" /\ ticks'[m].name = f.name /\ f.slot = table'[f.name].next
    BY DEF RunsBehind
  <2>1. /\ f.name \in DOMAIN table
        /\ \/ table[f.name].next \in Nat /\ (f.slot = NoNext \/ (f.slot \in Nat /\ f.slot < table[f.name].next))
           \/ \E m \in Crons : ticks[m].at = "fired" /\ ticks[m].name = f.name /\ f.slot = table[f.name].next
    BY <1>0 DEF RunsBehind
  <2>2. table'[f.name] = table[f.name] /\ f.name \in DOMAIN table'
    BY <2>1
  <2>3. \A m \in Crons : ticks[m].at = "fired" => ticks'[m] = ticks[m]
    BY <1>1
  <2> QED
    BY <2>1, <2>2, <2>3
<1> QED
  BY <1>2, <1>3, <1>4, <1>5 DEF FaultFree

\* The due rows are read: nobody else is in a tick.
LEMMA CronRead ==
    ASSUME FaultFree, CronTypes, NEW n \in Crons, GetCronJobsDue(n)
    PROVE  FaultFree'
<1>0. ticks \in [Crons -> Tick] /\ HolderLeads /\ DueCurrent /\ FiredMoves /\ RunsBehind
  BY DEF FaultFree, CronTypes
<1> DEFINE rows == {[name |-> c, slot |-> table[c].next] : c \in {c \in DOMAIN table : IsDue(c)}}
<1> DEFINE q == [at |-> "firing", due |-> rows]
<1>1. ticks[n].at = "leading" /\ ticks' = [ticks EXCEPT ![n] = q] /\ UNCHANGED <<minute, table, leader, fires, cfaults>>
  BY DEF GetCronJobsDue
<1>2. \A r \in rows : r \in DueRow /\ r.name \in DOMAIN table /\ r.slot = table[r.name].next /\ (r.slot \in Nat => r.slot <= minute)
  BY CronAssumption DEF CronTypes, DueRow, IsDue
<1> HIDE DEF rows
<1>3. q \in Tick /\ q.at = "firing" /\ q.due = rows
  BY <1>2 DEF Tick
<1> HIDE DEF q
<1>4. \A m \in Crons : ticks'[m] = IF m = n THEN q ELSE ticks[m]
  BY <1>0, <1>1
<1>5. leader = n
  BY <1>0, <1>1 DEF HolderLeads, Leading
<1>6. HolderLeads'
  BY <1>0, <1>1, <1>4, <1>5 DEF HolderLeads, Leading
<1>7. DueCurrent'
  BY <1>0, <1>1, <1>2, <1>3, <1>4 DEF DueCurrent
<1>8. FiredMoves'
  BY <1>0, <1>1, <1>3, <1>4 DEF FiredMoves
<1>9. RunsBehind'
  BY <1>0, <1>1, <1>4 DEF RunsBehind
<1> QED
  BY <1>1, <1>6, <1>7, <1>8, <1>9 DEF FaultFree

\* The rows, the clock and the positions stay what they are.
LEMMA CronTyped == CronTypes /\ [CronNext]_crvars => CronTypes'
<1> SUFFICES ASSUME CronTypes, [CronNext]_crvars PROVE CronTypes'
  OBVIOUS
<1>0. /\ minute \in Nat /\ cfaults \in Nat
      /\ DOMAIN table \subseteq CronName
      /\ \A c \in DOMAIN table : table[c].next \in Nat \cup {NoNext}
      /\ ticks \in [Crons -> Tick]
  BY DEF CronTypes
<1>a. CFault => cfaults' \in Nat
  BY <1>0 DEF CFault
<1>1. CASE Minute
  BY <1>0, <1>1 DEF Minute, CronTypes
<1>2. CASE LockExpires
  BY <1>0, <1>a, <1>2 DEF LockExpires, CronTypes
<1>3. ASSUME NEW n \in Crons, NEW p \in {"down", "idle", "leading"}, ticks[n].at \in {"down", "idle", "leading", "firing"},
             ticks' = [ticks EXCEPT ![n].at = p]
      PROVE  ticks' \in [Crons -> Tick]
  <2> DEFINE q == [ticks[n] EXCEPT !.at = p]
  <2>1. ticks[n] \in [at : {"down", "idle", "leading", "firing"}, due : SUBSET DueRow]
    BY <1>0, <1>3 DEF Tick
  <2>2. q \in Tick
    BY <2>1 DEF Tick
  <2>3. ticks' = [ticks EXCEPT ![n] = q]
    BY <1>3
  <2> HIDE DEF q
  <2> QED
    BY <1>0, <2>2, <2>3
<1>4. ASSUME NEW n \in Crons, RegisterCron(n) PROVE CronTypes'
  <2>1. PICK failed \in SUBSET (CronName \ DOMAIN table) :
            /\ failed # {} => CFault
            /\ failed = {} => UNCHANGED cfaults
            /\ table' = [name \in CronName \ failed |-> UpsertCronJob(name)]
    BY <1>4 DEF RegisterCron
  <2>2. \A c \in DOMAIN table' : table'[c].next \in Nat \cup {NoNext}
    BY <1>0, <2>1 DEF UpsertCronJob
  <2>3. ticks' \in [Crons -> Tick] /\ minute' = minute
    BY <1>3, <1>4 DEF RegisterCron
  <2> QED
    BY <1>0, <1>a, <2>1, <2>2, <2>3 DEF CronTypes
<1>5. ASSUME NEW n \in Crons, TickCron(n) PROVE CronTypes'
  <2>1. ticks' \in [Crons -> Tick] /\ UNCHANGED <<minute, table, cfaults>>
    BY <1>3, <1>5 DEF TickCron
  <2> QED
    BY <1>0, <2>1 DEF CronTypes
<1>6. ASSUME NEW n \in Crons, ReleaseLock(n) PROVE CronTypes'
  <2>1. ticks' \in [Crons -> Tick] /\ UNCHANGED <<minute, table, cfaults>>
    BY <1>3, <1>6 DEF ReleaseLock
  <2> QED
    BY <1>0, <2>1 DEF CronTypes
<1>7. ASSUME NEW n \in Crons, CrashCron(n) PROVE CronTypes'
  <2>1. [at |-> "down", due |-> {}] \in Tick
    BY DEF Tick
  <2> QED
    BY <1>0, <1>a, <1>7, <2>1 DEF CrashCron, CronTypes
<1>8. ASSUME NEW n \in Crons, GetCronJobsDue(n) PROVE CronTypes'
  <2> DEFINE rows == {[name |-> c, slot |-> table[c].next] : c \in {c \in DOMAIN table : IsDue(c)}}
  <2> DEFINE q == [at |-> "firing", due |-> rows]
  <2>1. rows \in SUBSET DueRow
    BY <1>0 DEF DueRow
  <2>2. ticks' = [ticks EXCEPT ![n] = q] /\ UNCHANGED <<minute, table, cfaults>>
    BY <1>8 DEF GetCronJobsDue
  <2> HIDE DEF rows
  <2>3. q \in Tick
    BY <2>1 DEF Tick
  <2> HIDE DEF q
  <2> QED
    BY <1>0, <2>2, <2>3 DEF CronTypes
<1>9. ASSUME NEW n \in Crons, FireEnqueue(n) PROVE CronTypes'
  <2>1. PICK row \in ticks[n].due : \E ok \in BOOLEAN :
            /\ IF ok THEN UNCHANGED cfaults ELSE CFault
            /\ ticks' = [ticks EXCEPT ![n] = [at |-> "fired", due |-> ticks[n].due \ {row}, name |-> row.name, ok |-> ok,
                                              next |-> NextRunAfter(CronJobs[row.name], minute)]]
    BY <1>0, <1>9 DEF FireEnqueue
  <2>2. PICK ok \in BOOLEAN :
            /\ IF ok THEN UNCHANGED cfaults ELSE CFault
            /\ ticks' = [ticks EXCEPT ![n] = [at |-> "fired", due |-> ticks[n].due \ {row}, name |-> row.name, ok |-> ok,
                                              next |-> NextRunAfter(CronJobs[row.name], minute)]]
    BY <2>1
  <2> DEFINE q == [at |-> "fired", due |-> ticks[n].due \ {row}, name |-> row.name, ok |-> ok,
                   next |-> NextRunAfter(CronJobs[row.name], minute)]
  <2>3. ticks[n].due \in SUBSET DueRow
    BY <1>0 DEF Tick
  <2>4. row.name \in CronName /\ ticks[n].due \ {row} \in SUBSET DueRow
    BY <2>3 DEF DueRow
  <2>5. NextRunAfter(CronJobs[row.name], minute) \in Nat
    BY <1>0, NextRunLater
  <2>6. q \in [at : {"fired"}, due : SUBSET DueRow, name : CronName, ok : BOOLEAN, next : Nat]
    BY <2>4, <2>5, Zenon
  <2>7. ticks' = [ticks EXCEPT ![n] = q] /\ cfaults' \in Nat
    BY <1>0, <1>a, <2>2
  <2> HIDE DEF q
  <2>8. ticks' \in [Crons -> Tick]
    BY <1>0, <2>6, <2>7 DEF Tick
  <2>9. UNCHANGED <<minute, table>>
    BY <1>9 DEF FireEnqueue
  <2> QED
    BY <1>0, <2>7, <2>8, <2>9 DEF CronTypes
<1>10. ASSUME NEW n \in Crons, UpdateCronJobAfterRun(n) PROVE CronTypes'
  <2> DEFINE q == [at |-> "firing", due |-> ticks[n].due]
  <2> DEFINE t == [next |-> ticks[n].next, err |-> ~ticks[n].ok]
  <2>1. ticks[n].next \in Nat /\ ticks[n].due \in SUBSET DueRow
    BY <1>0, <1>10 DEF UpdateCronJobAfterRun, Tick
  <2>2. t.next = ticks[n].next
    OBVIOUS
  <2>3. q \in Tick
    BY <2>1 DEF Tick
  <2>4. ticks' = [ticks EXCEPT ![n] = q] /\ minute' = minute
    BY <1>10 DEF UpdateCronJobAfterRun
  <2>5. (table' = [table EXCEPT ![ticks[n].name] = t] /\ cfaults' = cfaults) \/ (CFault /\ table' = table)
    BY <1>10 DEF UpdateCronJobAfterRun
  <2> HIDE DEF q, t
  <2>6. DOMAIN table' = DOMAIN table /\ \A c \in DOMAIN table' : table'[c].next \in Nat \cup {NoNext}
    BY <1>0, <2>1, <2>2, <2>5
  <2>7. cfaults' \in Nat
    BY <1>0, <1>a, <2>5
  <2> QED
    BY <1>0, <2>3, <2>4, <2>6, <2>7 DEF CronTypes
<1>11. CASE UNCHANGED crvars
  BY <1>0, <1>11 DEF crvars, CronTypes
<1> QED
  BY <1>1, <1>2, <1>4, <1>5, <1>6, <1>7, <1>8, <1>9, <1>10, <1>11 DEF CronNext, CronStep

\* The job is enqueued: the table has the run that is due, so that no row of it is in the queue.
LEMMA CronFired ==
    ASSUME FaultFree, CronTypes, NEW n \in Crons, FireEnqueue(n), cfaults' = cfaults
    PROVE  FaultFree'
<1>0. /\ ticks \in [Crons -> Tick] /\ HolderLeads /\ DueCurrent /\ FiredMoves /\ RunsBehind /\ minute \in Nat /\ cfaults \in Nat
      /\ \A f, g \in fires : (f.name = g.name /\ f.slot = g.slot) => f = g
  BY DEF FaultFree, CronTypes
<1>a. ~CFault
  BY <1>0 DEF CFault
<1>1. PICK row \in ticks[n].due :
        /\ fires' = IF \A f \in fires : ~(f.name = row.name /\ f.at = minute)
                    THEN fires \cup {[name |-> row.name, slot |-> row.slot, at |-> minute]} ELSE fires
        /\ ticks' = [ticks EXCEPT ![n] = [at |-> "fired", due |-> ticks[n].due \ {row}, name |-> row.name, ok |-> TRUE,
                                          next |-> NextRunAfter(CronJobs[row.name], minute)]]
  BY <1>0, <1>a DEF FireEnqueue
<1> DEFINE q == [at |-> "fired", due |-> ticks[n].due \ {row}, name |-> row.name, ok |-> TRUE,
                 next |-> NextRunAfter(CronJobs[row.name], minute)]
<1> DEFINE new == [name |-> row.name, slot |-> row.slot, at |-> minute]
<1>2. /\ ticks[n].at = "firing" /\ ticks' = [ticks EXCEPT ![n] = q] /\ UNCHANGED <<minute, table, leader>>
      /\ fires' = fires \/ fires' = fires \cup {new}
  BY <1>1 DEF FireEnqueue
<1>3. /\ row.name \in DOMAIN table /\ table[row.name].next = row.slot /\ (row.slot \in Nat => row.slot <= minute)
      /\ row.slot \in Nat \cup {NoNext}
  BY <1>0 DEF DueCurrent, CronTypes
<1>4. q.at = "fired" /\ q.due = ticks[n].due \ {row} /\ q.name = row.name /\ q.next = NextRunAfter(CronJobs[row.name], minute)
  OBVIOUS
<1>5. q.next \in Nat /\ q.next > minute
  BY <1>0, <1>4, NextRunLater
<1>6. new.name = row.name /\ new.slot = row.slot
  OBVIOUS
<1> HIDE DEF q, new
<1>7. \A m \in Crons : ticks'[m] = IF m = n THEN q ELSE ticks[m]
  BY <1>0, <1>2
<1>8. leader = n
  BY <1>0, <1>2 DEF HolderLeads, Leading
<1>9. \A m \in Crons : ticks[m].at # "fired"
  <2> SUFFICES ASSUME NEW m \in Crons, ticks[m].at = "fired" PROVE FALSE
    OBVIOUS
  <2>1. leader = m
    BY <1>0 DEF HolderLeads, Leading
  <2> QED
    BY <1>2, <1>8, <2>1
<1>10. \A r \in q.due : r \in ticks[n].due /\ r.name # row.name
  <2> SUFFICES ASSUME NEW r \in ticks[n].due, r # row, r.name = row.name PROVE FALSE
    BY <1>4
  <2>1. r.slot = row.slot
    BY <1>0, <1>3 DEF DueCurrent
  <2>2. r \in DueRow /\ row \in DueRow
    BY <1>0 DEF Tick
  <2> QED
    BY <2>1, <2>2 DEF DueRow
<1>11. HolderLeads'
  BY <1>0, <1>2, <1>7, <1>8 DEF HolderLeads, Leading
<1>12. DueCurrent'
  BY <1>0, <1>2, <1>4, <1>7, <1>10 DEF DueCurrent
<1>13. FiredMoves'
  <2>1. table[row.name].next = NoNext \/ table[row.name].next < q.next
    BY <1>0, <1>3, <1>5
  <2> QED
    BY <1>2, <1>3, <1>4, <1>7, <1>9, <1>10, <2>1 DEF FiredMoves
<1>14. \A f \in fires : f.name \in DOMAIN table /\ table[f.name].next \in Nat /\ (f.slot = NoNext \/ (f.slot \in Nat /\ f.slot < table[f.name].next))
  BY <1>0, <1>9 DEF RunsBehind
<1>15. RunsBehind'
  <2>1. ticks'[n].at = "fired" /\ ticks'[n].name = new.name /\ new.slot = table'[new.name].next /\ new.name \in DOMAIN table'
    BY <1>2, <1>3, <1>4, <1>6, <1>7
  <2> QED
    BY <1>2, <1>14, <2>1 DEF RunsBehind
<1>16. \A f \in fires : ~(f.name = new.name /\ f.slot = new.slot)
  BY <1>3, <1>6, <1>14, CronAssumption
<1>17. \A f, g \in fires' : (f.name = g.name /\ f.slot = g.slot) => f = g
  BY <1>0, <1>2, <1>16
<1> QED
  BY <1>11, <1>12, <1>13, <1>15, <1>17 DEF FaultFree

\* The row moves on, past the run that was enqueued.
LEMMA CronSettled ==
    ASSUME FaultFree, CronTypes, NEW n \in Crons, UpdateCronJobAfterRun(n), cfaults' = cfaults
    PROVE  FaultFree'
<1>0. /\ ticks \in [Crons -> Tick] /\ HolderLeads /\ DueCurrent /\ FiredMoves /\ RunsBehind /\ minute \in Nat /\ cfaults \in Nat
      /\ \A c \in DOMAIN table : table[c].next \in Nat \cup {NoNext}
      /\ \A f, g \in fires : (f.name = g.name /\ f.slot = g.slot) => f = g
  BY DEF FaultFree, CronTypes
<1>a. ~CFault
  BY <1>0 DEF CFault
<1> DEFINE q == [at |-> "firing", due |-> ticks[n].due]
<1> DEFINE t == [next |-> ticks[n].next, err |-> ~ticks[n].ok]
<1> DEFINE c == ticks[n].name
<1>1. /\ ticks[n].at = "fired" /\ ticks' = [ticks EXCEPT ![n] = q] /\ table' = [table EXCEPT ![c] = t]
      /\ UNCHANGED <<minute, leader, fires>>
  BY <1>a DEF UpdateCronJobAfterRun
<1>2. ticks[n].next \in Nat
  BY <1>0, <1>1 DEF Tick
<1>3. /\ c \in DOMAIN table
      /\ \A r \in ticks[n].due : r.name # c
      /\ table[c].next = NoNext \/ table[c].next < ticks[n].next
  BY <1>0, <1>1 DEF FiredMoves
<1>4. q.at = "firing" /\ q.due = ticks[n].due /\ t.next = ticks[n].next
  OBVIOUS
<1> HIDE DEF q, t, c
<1>5. \A m \in Crons : ticks'[m] = IF m = n THEN q ELSE ticks[m]
  BY <1>0, <1>1
<1>6. DOMAIN table' = DOMAIN table /\ \A b \in DOMAIN table : table'[b] = IF b = c THEN t ELSE table[b]
  BY <1>1
<1>7. leader = n
  BY <1>0, <1>1 DEF HolderLeads, Leading
<1>8. \A m \in Crons : m # n => ticks[m].at \in {"down", "idle"}
  BY <1>0, <1>7 DEF HolderLeads, Leading
<1>9. HolderLeads'
  BY <1>0, <1>1, <1>5, <1>7 DEF HolderLeads, Leading
<1>10. DueCurrent'
  <2>1. ASSUME NEW m \in Crons, m # n PROVE ticks'[m].due = {}
    BY <1>0, <1>5, <1>8, <2>1 DEF DueCurrent
  <2>2. \A r \in ticks[n].due : r.name \in DOMAIN table' /\ table'[r.name].next = r.slot /\ (r.slot \in Nat => r.slot <= minute)
    BY <1>0, <1>3, <1>6 DEF DueCurrent
  <2> QED
    BY <1>1, <1>4, <1>5, <2>1, <2>2 DEF DueCurrent
<1>11. FiredMoves'
  BY <1>4, <1>5, <1>8 DEF FiredMoves
<1>12. RunsBehind'
  <2> SUFFICES ASSUME NEW f \in fires
               PROVE  f.name \in DOMAIN table' /\ table'[f.name].next \in Nat /\ (f.slot = NoNext \/ (f.slot \in Nat /\ f.slot < table'[f.name].next))
    BY <1>1 DEF RunsBehind
  <2>1. /\ f.name \in DOMAIN table
        /\ \/ table[f.name].next \in Nat /\ (f.slot = NoNext \/ (f.slot \in Nat /\ f.slot < table[f.name].next))
           \/ f.name = c /\ f.slot = table[f.name].next
    BY <1>0, <1>8 DEF RunsBehind, c
  <2>2. CASE f.name = c
    <3>1. f.slot = NoNext \/ (f.slot \in Nat /\ f.slot < ticks[n].next)
      BY <1>0, <1>2, <1>3, <2>1, <2>2, CronAssumption
    <3>2. f.name \in DOMAIN table' /\ table'[f.name].next = ticks[n].next
      BY <1>3, <1>4, <1>6, <2>2
    <3> QED
      BY ONLY <1>2, <3>1, <3>2
  <2>3. CASE f.name # c
    BY <1>6, <2>1, <2>3
  <2> QED
    BY <2>2, <2>3
<1> QED
  BY <1>0, <1>1, <1>9, <1>10, <1>11, <1>12 DEF FaultFree

\* While nothing fails, every step keeps the invariant; a fault ends that.
LEMMA CronKept == CronInv /\ [CronNext]_crvars => CronInv'
<1> SUFFICES ASSUME CronInv, [CronNext]_crvars PROVE CronInv'
  OBVIOUS
<1>0. CronTypes /\ cfaults \in Nat /\ CronTypes'
  BY CronTyped DEF CronInv, CronTypes
<1> SUFFICES ASSUME cfaults' = 0 PROVE FaultFree'
  BY <1>0 DEF CronInv
<1>1. ~CFault
  BY <1>0 DEF CFault
<1>2. cfaults' = cfaults
  BY <1>1 DEF CronNext, CronStep, crvars, Minute, LockExpires, RegisterCron, TickCron, GetCronJobsDue, FireEnqueue,
              UpdateCronJobAfterRun, ReleaseLock, CrashCron
<1>3. FaultFree
  BY <1>2 DEF CronInv
<1>4. HolderLeads /\ ticks \in [Crons -> Tick]
  BY <1>0, <1>3 DEF FaultFree, CronTypes
<1>5. ASSUME UNCHANGED <<table, ticks, fires>>, minute' \in Nat, minute' >= minute, leader' = leader \/ \A n \in Crons : ~Leading(n)
      PROVE  FaultFree'
  <2>0. DueCurrent /\ minute \in Nat
    BY <1>0, <1>3 DEF FaultFree, CronTypes
  <2>1. HolderLeads'
    BY <1>4, <1>5 DEF HolderLeads, Leading
  <2>2. DueCurrent'
    BY <1>5, <2>0 DEF DueCurrent
  <2> QED
    BY <1>3, <1>5, <2>1, <2>2 DEF FaultFree, FiredMoves, RunsBehind
<1>6. CASE Minute
  BY <1>0, <1>5, <1>6 DEF Minute, CronTypes
<1>7. CASE LockExpires
  <2>1. ~Leading(leader)
    BY <1>1, <1>7 DEF LockExpires
  <2>2. \A n \in Crons : ~Leading(n)
    BY <1>4, <2>1 DEF HolderLeads
  <2> QED
    BY <1>0, <1>5, <1>7, <2>2 DEF LockExpires, CronTypes
<1>8. CASE UNCHANGED crvars
  BY <1>0, <1>5, <1>8 DEF crvars, CronTypes
<1>9. ASSUME NEW n \in Crons, NEW p \in {"idle", "leading"}, ticks[n].at \in {"down", "idle", "leading", "firing"}, ticks[n].due = {}
      PROVE  [ticks[n] EXCEPT !.at = p] \in Tick /\ [ticks[n] EXCEPT !.at = p].at = p /\ [ticks[n] EXCEPT !.at = p].due = {}
  <2>1. ticks[n] \in [at : {"down", "idle", "leading", "firing"}, due : SUBSET DueRow]
    BY <1>4, <1>9 DEF Tick
  <2> QED
    BY <1>9, <2>1 DEF Tick
<1>10. \A n \in Crons : ticks[n].at \notin {"firing", "fired"} => ticks[n].due = {}
  BY <1>3 DEF FaultFree, DueCurrent
<1>11. ASSUME NEW n \in Crons, RegisterCron(n) PROVE FaultFree'
  <2> DEFINE q == [ticks[n] EXCEPT !.at = "idle"]
  <2>1. ticks[n].at = "down" /\ ticks' = [ticks EXCEPT ![n] = q] /\ UNCHANGED <<minute, leader, fires>>
    BY <1>11 DEF RegisterCron
  <2>2. q \in Tick /\ q.at = "idle" /\ q.due = {}
    BY <1>9, <1>10, <2>1
  <2>3. table' = [name \in CronName |-> UpsertCronJob(name)]
    BY <1>1, <1>11 DEF RegisterCron
  <2>4. DOMAIN table \subseteq DOMAIN table' /\ \A c \in DOMAIN table : table'[c] = table[c]
    BY <1>0, <2>3 DEF UpsertCronJob, CronTypes
  <2>5. \A m \in Crons : m # n /\ Leading(m) => leader' = m
    BY <1>4, <2>1 DEF HolderLeads
  <2> HIDE DEF q
  <2> QED
    BY <1>0, <1>3, <2>1, <2>2, <2>4, <2>5, CronMoved
<1>12. ASSUME NEW n \in Crons, TickCron(n) PROVE FaultFree'
  <2> DEFINE q == [ticks[n] EXCEPT !.at = "leading"]
  <2>1. ticks[n].at = "idle" /\ ticks' = [ticks EXCEPT ![n] = q] /\ leader = NoCron /\ leader' = n /\ UNCHANGED <<minute, table, fires>>
    BY <1>12 DEF TickCron, Acquire
  <2>2. q \in Tick /\ q.at = "leading" /\ q.due = {}
    BY <1>9, <1>10, <2>1
  <2>3. \A m \in Crons : ~Leading(m)
    BY <1>4, <2>1, CronAssumption DEF HolderLeads
  <2> HIDE DEF q
  <2> QED
    BY <1>0, <1>3, <2>1, <2>2, <2>3, CronMoved
<1>13. ASSUME NEW n \in Crons, ReleaseLock(n) PROVE FaultFree'
  <2> DEFINE q == [ticks[n] EXCEPT !.at = "idle"]
  <2>1. ticks[n].at = "firing" /\ ticks[n].due = {} /\ ticks' = [ticks EXCEPT ![n] = q] /\ UNCHANGED <<minute, table, fires>>
    BY <1>13 DEF ReleaseLock
  <2>2. q \in Tick /\ q.at = "idle" /\ q.due = {}
    BY <1>9, <2>1
  <2>3. \A m \in Crons : m # n => ~Leading(m)
    BY <1>4, <2>1 DEF HolderLeads, Leading
  <2> HIDE DEF q
  <2> QED
    BY <1>0, <1>3, <2>1, <2>2, <2>3, CronMoved
<1>14. ASSUME NEW n \in Crons, CrashCron(n) PROVE FaultFree'
  BY <1>1, <1>14 DEF CrashCron
<1> QED
  BY <1>0, <1>2, <1>3, <1>6, <1>7, <1>8, <1>11, <1>12, <1>13, <1>14, CronRead, CronFired, CronSettled DEF CronNext, CronStep

\* For any processes, schedules and lengths of an hour and a day: as long as no process dies, no
\* statement fails and no lock expires under its holder, a due run is put into the queue once.
THEOREM RunsOnce == CronSpec => []RunFiredOnce
<1>1. CronInv => RunFiredOnce
  BY DEF CronInv, FaultFree, RunFiredOnce
<1> QED
  BY <1>1, CronStart, CronKept, PTL DEF CronSpec
=============================================================================
