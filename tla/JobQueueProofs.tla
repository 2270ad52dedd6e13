--------------------------- MODULE JobQueueProofs ---------------------------
(* Proofs about the job queue, for any number of jobs, keys and workers and  *)
(* any attempt limits, concurrency, batch size and fault bounds.             *)
EXTENDS JobQueue, TLAPS

USE ConstantsAssumption

\* The empty table and idle workers are well typed.
LEMMA TypeInit == Init => TypeOK
  BY DEF Init, TypeOK, Statuses, Claims

\* Every statement of the queue and every step of a worker keeps the types.
LEMMA TypeNext == TypeOK /\ [Next]_vars => TypeOK'
<1> SUFFICES ASSUME TypeOK, [Next]_vars PROVE TypeOK'
  OBVIOUS
<1> USE DEF TypeOK, Statuses, Claims
<1>1. ASSUME NEW j \in Jobs, NEW k \in Keys \cup {NoKey}, NEW d \in BOOLEAN,
             Enqueue(j, k, d)
      PROVE  TypeOK'
  BY <1>1 DEF Enqueue, workers
<1>2. ASSUME NEW j \in Jobs, BecomeAvailable(j) PROVE TypeOK'
  BY <1>2 DEF BecomeAvailable, workers
<1>3. ASSUME NEW j \in Jobs, LeaseExpires(j) PROVE TypeOK'
  BY <1>3 DEF LeaseExpires, Fault, workers
<1>4. ASSUME NEW j \in Jobs, Purge(j) PROVE TypeOK'
  BY <1>4 DEF Purge, PurgeCompleted, CleanDeadLetterJobs, workers
<1>5. ASSUME NEW w \in Workers, NEW S \in SUBSET Jobs, Dequeue(w, S) PROVE TypeOK'
  <2>1. /\ status' \in [Jobs -> Statuses]
        /\ leasedBy' \in [Jobs -> Workers \cup {NoWorker}]
    BY <1>5 DEF Dequeue
  <2>4. attempts' \in [Jobs -> Nat]
    BY <1>5 DEF Dequeue
  <2>5. expired' \in [Jobs -> BOOLEAN]
    BY <1>5, Zenon DEF Dequeue
  <2>2. {<<j, attempts[j] + 1>> : j \in S} \subseteq Claims
    <3>1. \A j \in S : j \in Jobs /\ attempts[j] + 1 \in Nat
      OBVIOUS
    <3> QED
      BY <3>1
  <2>3. batch' \in [Workers -> SUBSET Claims]
    BY <1>5, <2>2 DEF Dequeue
  <2> QED
    BY <1>5, <2>1, <2>3, <2>4, <2>5 DEF Dequeue
<1>6. ASSUME NEW w \in Workers, NEW t \in batch[w] \cup tasks[w], TaskStep(w, t)
      PROVE  TypeOK'
  <2>0. t \in Jobs \X Nat
    OBVIOUS
  <2>1. CASE StartTask(w, t)
    <3>1. /\ batch' \in [Workers -> SUBSET Claims]
          /\ tasks' \in [Workers -> SUBSET Claims]
          /\ beating' \in [Workers -> SUBSET Claims]
      BY <2>0, <2>1 DEF StartTask
    <3> QED
      BY <2>1, <3>1 DEF StartTask, rows
  <2>2. CASE Heartbeat(w, t)
    <3>1. expired' \in [Jobs -> BOOLEAN] /\ beating' \in [Workers -> SUBSET Claims]
      <4>1. CASE status[t[1]] = "running" /\ leasedBy[t[1]] = w
        BY <2>2, <4>1 DEF Heartbeat
      <4>2. CASE ~(status[t[1]] = "running" /\ leasedBy[t[1]] = w)
        BY <2>2, <4>2 DEF Heartbeat
      <4> QED
        BY <4>1, <4>2
    <3> QED
      BY <2>2, <3>1 DEF Heartbeat
  <2>3. CASE HeartbeatError(w, t)
    BY <2>0, <2>3 DEF HeartbeatError, Fault, rows
  <2>4. CASE HandlerOk(w, t)
    BY <2>0, <2>4 DEF HandlerOk, Complete, Leave, rows
  <2>5. CASE HandlerFail(w, t)
    BY <2>0, <2>5 DEF HandlerFail, Fail, Leave, rows
  <2>6. CASE StatementError(w, t)
    BY <2>0, <2>6 DEF StatementError, Fault, Leave, rows
  <2> QED
    BY <1>6, <2>1, <2>2, <2>3, <2>4, <2>5, <2>6 DEF TaskStep
<1>7. ASSUME NEW w \in Workers, Shutdown(w) PROVE TypeOK'
  BY <1>7 DEF Shutdown, rows
<1>8. ASSUME NEW w \in Workers, Drained(w) PROVE TypeOK'
  BY <1>8 DEF Drained, rows
<1>9. ASSUME NEW w \in Workers, Crash(w) PROVE TypeOK'
  BY <1>9 DEF Crash, rows
<1>10. CASE UNCHANGED vars
  BY <1>10 DEF vars, rows, workers
<1> HIDE DEF TypeOK, Statuses, Claims
<1> QED
  BY <1>1, <1>2, <1>3, <1>4, <1>5, <1>6, <1>7, <1>8, <1>9, <1>10 DEF Next

-----------------------------------------------------------------------------
(* The inductive invariant is the conjunction of the safety properties: the *)
(* freshness of a claim's attempt number (ClaimUnique) is what ties a lease *)
(* to its claimer, and both are what make a fault-free claim exclusive.     *)

IndInv ==
    /\ TypeOK
    /\ ClaimUnique
    /\ LeaseFollowsClaim
    /\ OutcomeJustified
    /\ ExclusiveWithoutFaults
    /\ KeysUnique

\* The inductive invariant holds of the empty table and idle workers.
LEMMA IndInit == Init => IndInv
<1> SUFFICES ASSUME Init PROVE IndInv
  OBVIOUS
<1>1. TypeOK
  BY TypeInit
<1>2. \A w \in Workers : Held(w) = {} /\ batch[w] = {}
  BY DEF Init, Held
<1>3. ClaimUnique /\ LeaseFollowsClaim /\ ExclusiveWithoutFaults
  BY <1>2 DEF Init, ClaimUnique, LeaseFollowsClaim, ExclusiveWithoutFaults
<1>4. OutcomeJustified /\ KeysUnique
  BY DEF Init, OutcomeJustified, KeysUnique, Live
<1> QED
  BY <1>1, <1>3, <1>4 DEF IndInv

\* A poll: the new claims carry attempt numbers no worker has seen.
LEMMA DequeueInv ==
    ASSUME IndInv, NEW w \in Workers, NEW S \in SUBSET Jobs, Dequeue(w, S)
    PROVE  /\ ClaimUnique'
           /\ LeaseFollowsClaim'
           /\ OutcomeJustified'
           /\ ExclusiveWithoutFaults'
           /\ KeysUnique'
<1> DEFINE fresh == {<<j, attempts[j] + 1>> : j \in S}
<1>t. /\ attempts \in [Jobs -> Nat]
      /\ batch \in [Workers -> SUBSET (Jobs \X Nat)]
      /\ tasks \in [Workers -> SUBSET (Jobs \X Nat)]
      /\ status \in [Jobs -> Statuses]
      /\ leasedBy \in [Jobs -> Workers \cup {NoWorker}]
  BY DEF IndInv, TypeOK, Claims
<1>f. \A t \in fresh : t[1] \in S /\ t[2] = attempts[t[1]] + 1
  OBVIOUS
<1>h. /\ Held(w)' = fresh \cup tasks[w]
      /\ batch'[w] = fresh /\ tasks' = tasks /\ batch[w] = {}
      /\ \A v \in Workers \ {w} : Held(v)' = Held(v) /\ batch'[v] = batch[v]
  BY <1>t DEF Dequeue, Held
<1>a. \A j \in Jobs : attempts'[j] = IF j \in S THEN attempts[j] + 1 ELSE attempts[j]
  BY DEF Dequeue
<1>o. \A v \in Workers : \A t \in Held(v) :
        /\ t \in Jobs \X Nat
        /\ t[1] \in Jobs /\ t[2] \in Nat /\ t[2] >= 1 /\ t[2] <= attempts[t[1]]
  BY <1>t DEF IndInv, ClaimUnique, Held
<1>n. \A v \in Workers : \A t \in Held(v) : t \notin fresh
  BY <1>f, <1>o, <1>t
<1>1. ClaimUnique'
  <2>1. ASSUME NEW v \in Workers, NEW t \in Held(v)'
        PROVE  t[2] \in 1..attempts'[t[1]]
    <3>1. CASE t \in fresh
      BY <3>1, <1>f, <1>a, <1>t
    <3>2. CASE t \in Held(v)
      BY <3>2, <1>o, <1>a, <1>t
    <3> QED
      BY <3>1, <3>2, <1>h DEF Held
  <2>2. \A v \in Workers : batch'[v] \cap tasks'[v] = {}
    BY <1>h, <1>n DEF IndInv, ClaimUnique, Held
  <2>3. ASSUME NEW u \in Workers, NEW v \in Workers, u # v
        PROVE  Held(u)' \cap Held(v)' = {}
    BY <2>3, <1>h, <1>n DEF IndInv, ClaimUnique, Held
  <2> QED
    BY <2>1, <2>2, <2>3 DEF ClaimUnique
<1>2. LeaseFollowsClaim'
  <2>1. \A j \in Jobs : status'[j] = "running" <=> leasedBy'[j] # NoWorker
    BY <1>t DEF Dequeue, IndInv, LeaseFollowsClaim
  <2>2. ASSUME NEW v \in Workers, NEW t \in Held(v)',
               status'[t[1]] = "running", t[2] = attempts'[t[1]]
        PROVE  leasedBy'[t[1]] = v
    <3>1. CASE t \in fresh /\ v = w
      BY <3>1, <1>f DEF Dequeue
    <3>2. CASE t \in Held(v)
      <4>1. t[1] \in Jobs \ S
        BY <2>2, <3>2, <1>o, <1>a, <1>t
      <4> QED
        BY <4>1, <2>2, <3>2, <1>a DEF Dequeue, IndInv, LeaseFollowsClaim
    <3> QED
      BY <3>1, <3>2, <1>h DEF Held
  <2> QED
    BY <2>1, <2>2 DEF LeaseFollowsClaim
<1>3. OutcomeJustified'
  BY <1>t, <1>a DEF Dequeue, IndInv, OutcomeJustified
<1>4. ExclusiveWithoutFaults'
  <2> SUFFICES ASSUME faults' = 0, NEW v \in Workers, phase'[v] = "up",
                      NEW t \in Held(v)'
               PROVE  /\ t[2] = attempts'[t[1]]
                      /\ status'[t[1]] = "running"
                      /\ leasedBy'[t[1]] = v
                      /\ ~expired'[t[1]]
    BY DEF ExclusiveWithoutFaults
  <2>1. CASE t \in fresh /\ v = w
    BY <2>1, <1>f, <1>a DEF Dequeue
  <2>2. CASE t \in Held(v)
    <3>1. /\ t[2] = attempts[t[1]] /\ status[t[1]] = "running"
          /\ leasedBy[t[1]] = v /\ ~expired[t[1]]
      BY <2>2 DEF Dequeue, IndInv, ExclusiveWithoutFaults
    <3>2. t[1] \in Jobs \ S
      BY <2>2, <3>1, <1>o DEF Dequeue, Eligible
    <3> QED
      BY <3>1, <3>2 DEF Dequeue
  <2> QED
    BY <2>1, <2>2, <1>h DEF Held
<1>5. KeysUnique'
  BY DEF Dequeue, Eligible, IndInv, KeysUnique, Live
<1> QED
  BY <1>1, <1>2, <1>3, <1>4, <1>5

\* Steps of producers, of time and of the purges: no worker's claims change.
LEMMA RowStepInv ==
    ASSUME IndInv, UNCHANGED <<workers, ran, attempts, leasedBy>>, NEW j \in Jobs,
           \/ \E k \in Keys \cup {NoKey}, d \in BOOLEAN : Enqueue(j, k, d)
           \/ BecomeAvailable(j)
           \/ LeaseExpires(j)
           \/ Purge(j)
    PROVE  /\ ClaimUnique'
           /\ LeaseFollowsClaim'
           /\ OutcomeJustified'
           /\ ExclusiveWithoutFaults'
           /\ KeysUnique'
<1>t. /\ status \in [Jobs -> Statuses]
      /\ key \in [Jobs -> Keys \cup {NoKey}]
      /\ expired \in [Jobs -> BOOLEAN]
      /\ tasks \in [Workers -> SUBSET (Jobs \X Nat)]
      /\ batch \in [Workers -> SUBSET (Jobs \X Nat)]
      /\ faults \in Nat
  BY DEF IndInv, TypeOK, Claims
<1>h. /\ \A w \in Workers : Held(w)' = Held(w)
      /\ \A w \in Workers : \A t \in Held(w) : t[1] \in Jobs
  BY <1>t DEF workers, Held
<1>s. \A i \in Jobs : \/ status'[i] = status[i]
                      \/ status[i] = "none" /\ status'[i] = "pending"
                      \/ status[i] \in {"succeeded", "dead"} /\ status'[i] = "purged"
  BY <1>t DEF Enqueue, BecomeAvailable, LeaseExpires, Purge, PurgeCompleted, CleanDeadLetterJobs
<1>1. ClaimUnique'
  BY <1>h DEF IndInv, ClaimUnique, workers
<1>2. LeaseFollowsClaim'
  BY <1>h, <1>s DEF IndInv, LeaseFollowsClaim
<1>3. OutcomeJustified'
  BY <1>s DEF IndInv, OutcomeJustified
<1>4. ExclusiveWithoutFaults'
  <2> SUFFICES ASSUME faults' = 0, NEW w \in Workers, phase[w] = "up", NEW t \in Held(w)
               PROVE  /\ t[2] = attempts[t[1]]
                      /\ status'[t[1]] = "running"
                      /\ leasedBy[t[1]] = w
                      /\ ~expired'[t[1]]
    BY <1>h DEF ExclusiveWithoutFaults, workers
  <2>0. faults = 0
    BY <1>t DEF Enqueue, BecomeAvailable, LeaseExpires, Purge, PurgeCompleted, CleanDeadLetterJobs, Fault
  <2>1. /\ t[2] = attempts[t[1]] /\ status[t[1]] = "running"
        /\ leasedBy[t[1]] = w /\ ~expired[t[1]] /\ t[1] \in Jobs
    BY <2>0, <1>h DEF IndInv, ExclusiveWithoutFaults
  <2>2. status'[t[1]] = "running"
    BY <2>1, <1>s
  <2>3. ~expired'[t[1]]
    <3>1. CASE LeaseExpires(j) /\ t[1] = j
      <4>1. t = <<j, attempts[j]>>
        BY <2>1, <3>1, <1>t DEF Held
      <4>2. Attended(j)
        BY <2>1, <3>1, <4>1 DEF Attended, Held
      <4> QED
        BY <3>1, <4>2, <2>0, <1>t DEF LeaseExpires, Fault
    <3>2. CASE LeaseExpires(j) /\ t[1] # j
      BY <2>1, <3>2, <1>t DEF LeaseExpires
    <3>3. CASE ~LeaseExpires(j)
      BY <2>1, <3>3 DEF Enqueue, BecomeAvailable, Purge, PurgeCompleted, CleanDeadLetterJobs
    <3> QED
      BY <3>1, <3>2, <3>3
  <2> QED
    BY <2>1, <2>2, <2>3
<1>5. KeysUnique'
  <2>1. CASE \E k \in Keys \cup {NoKey}, d \in BOOLEAN : Enqueue(j, k, d)
    BY <2>1, <1>t DEF Enqueue, KeyTaken, IndInv, KeysUnique, Live
  <2>2. CASE BecomeAvailable(j) \/ LeaseExpires(j) \/ Purge(j)
    BY <2>2, <1>t DEF BecomeAvailable, LeaseExpires, Purge, PurgeCompleted, CleanDeadLetterJobs, IndInv, KeysUnique, Live
  <2> QED
    BY <2>1, <2>2
<1> QED
  BY <1>1, <1>2, <1>3, <1>4, <1>5

\* Steps that only take claims away from workers, or stop workers.
LEMMA ShedInv ==
    ASSUME IndInv, UNCHANGED rows, faults' \in Nat, faults' >= faults, ran \subseteq ran',
           \A w \in Workers : /\ batch'[w] \cap tasks'[w] = {}
                              /\ Held(w)' \subseteq Held(w)
                              /\ phase'[w] = "up" => phase[w] = "up"
    PROVE  /\ ClaimUnique'
           /\ LeaseFollowsClaim'
           /\ OutcomeJustified'
           /\ ExclusiveWithoutFaults'
           /\ KeysUnique'
<1>0. faults \in Nat
  BY DEF IndInv, TypeOK
<1>1. ClaimUnique'
  BY DEF rows, IndInv, ClaimUnique
<1>2. LeaseFollowsClaim'
  BY DEF rows, IndInv, LeaseFollowsClaim
<1>3. OutcomeJustified' /\ KeysUnique'
  BY DEF rows, IndInv, OutcomeJustified, KeysUnique
<1>4. ExclusiveWithoutFaults'
  BY <1>0 DEF rows, IndInv, ExclusiveWithoutFaults
<1> QED
  BY <1>1, <1>2, <1>3, <1>4

\* Complete or Fail by the worker of claim t: the row's lease is given up, and
\* any other claim of the job is one that faults already made stale.
LEMMA SettleInv ==
    ASSUME IndInv, NEW w \in Workers, NEW t \in tasks[w], phase[w] = "up",
           Leave(w, t), faults' = faults,
           ran' \in {ran, ran \cup {t[1]}},
           (Complete(t[1]) /\ ran' = ran \cup {t[1]}) \/ Fail(t[1])
    PROVE  /\ ClaimUnique'
           /\ LeaseFollowsClaim'
           /\ OutcomeJustified'
           /\ ExclusiveWithoutFaults'
           /\ KeysUnique'
<1>t. /\ status \in [Jobs -> Statuses]
      /\ key \in [Jobs -> Keys \cup {NoKey}]
      /\ attempts \in [Jobs -> Nat]
      /\ expired \in [Jobs -> BOOLEAN]
      /\ leasedBy \in [Jobs -> Workers \cup {NoWorker}]
      /\ tasks \in [Workers -> SUBSET (Jobs \X Nat)]
      /\ batch \in [Workers -> SUBSET (Jobs \X Nat)]
  BY DEF IndInv, TypeOK, Claims
<1>j. t \in Jobs \X Nat /\ t[1] \in Jobs /\ t \in Held(w)
  BY <1>t DEF Held
<1>h. /\ Held(w)' = Held(w) \ {t}
      /\ \A v \in Workers \ {w} : Held(v)' = Held(v)
      /\ \A v \in Workers : tasks'[v] \subseteq tasks[v] /\ batch'[v] = batch[v]
      /\ \A v \in Workers : \A s \in Held(v) : s \in Jobs \X Nat /\ s[1] \in Jobs
  BY <1>t, <1>j DEF Leave, Held, IndInv, ClaimUnique
<1>s. /\ attempts' = attempts /\ key' = key
      /\ \A i \in Jobs \ {t[1]} : /\ status'[i] = status[i]
                                  /\ leasedBy'[i] = leasedBy[i]
                                  /\ expired'[i] = expired[i]
      /\ \/ status'[t[1]] = "succeeded" /\ ran' = ran \cup {t[1]}
         \/ status'[t[1]] = "dead" /\ attempts[t[1]] >= MaxAttempts[t[1]]
         \/ status'[t[1]] = "pending"
         \/ status'[t[1]] = status[t[1]] /\ status[t[1]] \in {"none", "purged"}
      /\ status[t[1]] \in Live \/ leasedBy'[t[1]] = leasedBy[t[1]]
      /\ status[t[1]] \in Live => leasedBy'[t[1]] = NoWorker
      /\ status[t[1]] \notin Live => status'[t[1]] = status[t[1]]
  BY <1>t, <1>j DEF Complete, Fail, Live, Statuses, rows
<1>1. ClaimUnique'
  BY <1>h, <1>s DEF IndInv, ClaimUnique
<1>2. LeaseFollowsClaim'
  <2>1. \A i \in Jobs : status'[i] = "running" <=> leasedBy'[i] # NoWorker
    BY <1>s, <1>j DEF IndInv, LeaseFollowsClaim
  <2>2. status'[t[1]] # "running"
    BY <1>s
  <2> QED
    BY <1>h, <1>s, <2>1, <2>2 DEF IndInv, LeaseFollowsClaim
<1>3. OutcomeJustified'
  BY <1>s, <1>j DEF IndInv, OutcomeJustified
<1>4. ExclusiveWithoutFaults'
  <2> SUFFICES ASSUME faults = 0, NEW v \in Workers, phase[v] = "up", NEW s \in Held(v)'
               PROVE  /\ s[2] = attempts[s[1]]
                      /\ status'[s[1]] = "running"
                      /\ leasedBy'[s[1]] = v
                      /\ ~expired'[s[1]]
    BY <1>s DEF ExclusiveWithoutFaults, Leave
  <2>1. s \in Held(v) /\ (v = w => s # t)
    BY <1>h
  <2>2. /\ s[2] = attempts[s[1]] /\ status[s[1]] = "running"
        /\ leasedBy[s[1]] = v /\ ~expired[s[1]]
    BY <2>1 DEF IndInv, ExclusiveWithoutFaults
  <2>3. t[2] = attempts[t[1]] /\ leasedBy[t[1]] = w
    BY <1>j DEF IndInv, ExclusiveWithoutFaults
  <2>4. s[1] # t[1]
    BY <2>1, <2>2, <2>3, <1>h, <1>j
  <2> QED
    BY <2>2, <2>4, <1>s, <1>h, <2>1
<1>5. KeysUnique'
  BY <1>s, <1>t DEF IndInv, KeysUnique, Live
<1> QED
  BY <1>1, <1>2, <1>3, <1>4, <1>5

\* Every statement of the queue and every step of a worker keeps it.
LEMMA IndNext == IndInv /\ [Next]_vars => IndInv'
<1> SUFFICES ASSUME IndInv, [Next]_vars PROVE IndInv'
  OBVIOUS
<1>0. TypeOK'
  BY TypeNext DEF IndInv
<1> DEFINE Rest == /\ ClaimUnique
                   /\ LeaseFollowsClaim
                   /\ OutcomeJustified
                   /\ ExclusiveWithoutFaults
                   /\ KeysUnique
<1>t. /\ tasks \in [Workers -> SUBSET (Jobs \X Nat)]
      /\ batch \in [Workers -> SUBSET (Jobs \X Nat)]
      /\ expired \in [Jobs -> BOOLEAN]
      /\ phase \in [Workers -> {"up", "draining", "down"}]
      /\ faults \in Nat
  BY DEF IndInv, TypeOK, Claims
<1>d. \A w \in Workers : batch[w] \cap tasks[w] = {}
  BY DEF IndInv, ClaimUnique
<1>1. ASSUME NEW j \in Jobs, NEW k \in Keys \cup {NoKey}, NEW d \in BOOLEAN,
             Enqueue(j, k, d)
      PROVE  Rest'
  BY <1>1, RowStepInv DEF Enqueue, workers
<1>2. ASSUME NEW j \in Jobs, BecomeAvailable(j) PROVE Rest'
  BY <1>2, RowStepInv DEF BecomeAvailable, workers
<1>3. ASSUME NEW j \in Jobs, LeaseExpires(j) PROVE Rest'
  BY <1>3, RowStepInv DEF LeaseExpires, workers
<1>4. ASSUME NEW j \in Jobs, Purge(j) PROVE Rest'
  BY <1>4, RowStepInv DEF Purge, PurgeCompleted, CleanDeadLetterJobs, workers
<1>5. ASSUME NEW w \in Workers, NEW S \in SUBSET Jobs, Dequeue(w, S) PROVE Rest'
  BY <1>5, DequeueInv
<1>6. ASSUME NEW w \in Workers, NEW t \in batch[w] \cup tasks[w], TaskStep(w, t)
      PROVE  Rest'
  <2>1. CASE StartTask(w, t)
    <3>1. UNCHANGED rows /\ faults' = faults /\ ran' = ran /\ phase' = phase
      BY <2>1 DEF StartTask
    <3>2. \A v \in Workers : batch'[v] \cap tasks'[v] = {} /\ Held(v)' \subseteq Held(v)
      BY <2>1, <1>t, <1>d DEF StartTask, Held
    <3> QED
      BY <3>1, <3>2, <1>t, ShedInv
  <2>2. CASE Heartbeat(w, t)
    <3>1. \A v \in Workers : Held(v)' = Held(v)
      BY <2>2 DEF Heartbeat, Held
    <3>2. \A j \in Jobs : expired'[j] => expired[j]
      BY <2>2, <1>t DEF Heartbeat
    <3>3. \A v \in Workers : \A s \in Held(v) : s[1] \in Jobs
      BY <1>t DEF Held
    <3> QED
      BY <2>2, <3>1, <3>2, <3>3
         DEF Heartbeat, IndInv, ClaimUnique, LeaseFollowsClaim, OutcomeJustified,
             ExclusiveWithoutFaults, KeysUnique
  <2>3. CASE HeartbeatError(w, t)
    <3>1. UNCHANGED rows /\ faults' = faults + 1 /\ ran' = ran /\ phase' = phase
      BY <2>3 DEF HeartbeatError, Fault
    <3>2. \A v \in Workers : batch'[v] \cap tasks'[v] = {} /\ Held(v)' \subseteq Held(v)
      BY <2>3, <1>d DEF HeartbeatError, Held
    <3> QED
      BY <3>1, <3>2, <1>t, ShedInv
  <2>4. CASE HandlerOk(w, t)
    BY <2>4, SettleInv DEF HandlerOk
  <2>5. CASE HandlerFail(w, t)
    BY <2>5, SettleInv DEF HandlerFail
  <2>6. CASE StatementError(w, t)
    <3>1. UNCHANGED rows /\ faults' \in Nat /\ faults' >= faults /\ ran \subseteq ran'
      BY <2>6, <1>t DEF StatementError, Fault
    <3>2. \A v \in Workers : batch'[v] \cap tasks'[v] = {} /\ Held(v)' \subseteq Held(v)
      BY <2>6, <1>t, <1>d DEF StatementError, Leave, Held
    <3> QED
      BY <2>6, <3>1, <3>2, ShedInv DEF StatementError, Leave
  <2> QED
    BY <1>6, <2>1, <2>2, <2>3, <2>4, <2>5, <2>6 DEF TaskStep
<1>7. ASSUME NEW w \in Workers, Shutdown(w) \/ Drained(w) \/ Crash(w) PROVE Rest'
  <2>1. UNCHANGED rows /\ faults' = faults /\ ran' = ran
    BY <1>7 DEF Shutdown, Drained, Crash
  <2>2. \A v \in Workers : /\ batch'[v] \cap tasks'[v] = {}
                           /\ Held(v)' \subseteq Held(v)
                           /\ phase'[v] = "up" => phase[v] = "up"
    BY <1>7, <1>t, <1>d DEF Shutdown, Drained, Crash, Held
  <2> QED
    BY <2>1, <2>2, <1>t, ShedInv
<1>8. ASSUME UNCHANGED vars PROVE Rest'
  <2>1. \A v \in Workers : Held(v)' = Held(v)
    BY <1>8 DEF vars, workers, Held
  <2>2. /\ UNCHANGED rows /\ faults' = faults /\ ran' = ran
        /\ phase' = phase /\ batch' = batch /\ tasks' = tasks
    BY <1>8 DEF vars, workers
  <2>3. \A v \in Workers : /\ batch'[v] \cap tasks'[v] = {}
                           /\ Held(v)' \subseteq Held(v)
                           /\ phase'[v] = "up" => phase[v] = "up"
    BY <2>1, <2>2, <1>d
  <2> QED
    BY <2>2, <2>3, <1>t, ShedInv
<1> HIDE DEF Rest
<1>9. Rest'
  BY <1>1, <1>2, <1>3, <1>4, <1>5, <1>6, <1>7, <1>8 DEF Next
<1> QED
  BY <1>0, <1>9 DEF IndInv, Rest

-----------------------------------------------------------------------------
\* Every reachable state of the queue and its workers is well typed.
THEOREM TypeCorrect == Spec => []TypeOK
  BY TypeInit, TypeNext, PTL DEF Spec

\* The claims that Dequeue hands out are never shared between workers.
THEOREM ClaimsSound == Spec => []ClaimUnique
<1>1. IndInv => ClaimUnique
  BY DEF IndInv
<1> QED
  BY <1>1, IndInit, IndNext, PTL DEF Spec

\* A row has a lease exactly while it is running, and Heartbeat, Complete and Fail,
\* however late, leave it with the worker of the newest claim.
THEOREM LeasesSound == Spec => []LeaseFollowsClaim
<1>1. IndInv => LeaseFollowsClaim
  BY DEF IndInv
<1> QED
  BY <1>1, IndInit, IndNext, PTL DEF Spec

\* The outcome columns tell the truth: Complete and Fail, however late, never mark
\* an unrun job succeeded or dead-letter one with attempts left.
THEOREM OutcomesSound == Spec => []OutcomeJustified
<1>1. IndInv => OutcomeJustified
  BY DEF IndInv
<1> QED
  BY <1>1, IndInit, IndNext, PTL DEF Spec

\* A dead-lettered job is never rescheduled: Fail reads attempts that no step
\* lowers, and Dequeue selects only pending rows and expired leases.
THEOREM DeadLettersStay == Spec => DeadIsFinal
<1> DEFINE A == \A j \in Jobs : status[j] = "dead" =>
                    status'[j] \in {"dead", "succeeded", "purged"}
<1>1. IndInv /\ [Next]_vars => [A]_vars
  <2> SUFFICES ASSUME IndInv, Next, NEW i \in Jobs, status[i] = "dead"
               PROVE  status'[i] \in {"dead", "succeeded", "purged"}
    OBVIOUS
  <2>t. /\ status \in [Jobs -> Statuses]
        /\ \A w \in Workers : \A t \in batch[w] \cup tasks[w] : t[1] \in Jobs
        /\ attempts[i] >= MaxAttempts[i]
    BY DEF IndInv, TypeOK, Claims, OutcomeJustified
  <2>1. ASSUME NEW j \in Jobs,
               \/ \E k \in Keys \cup {NoKey}, d \in BOOLEAN : Enqueue(j, k, d)
               \/ BecomeAvailable(j) \/ LeaseExpires(j) \/ Purge(j)
        PROVE  status'[i] \in {"dead", "succeeded", "purged"}
    BY <2>1, <2>t DEF Enqueue, BecomeAvailable, LeaseExpires, Purge, PurgeCompleted, CleanDeadLetterJobs
  <2>2. ASSUME NEW w \in Workers, NEW S \in SUBSET Jobs, Dequeue(w, S)
        PROVE  status'[i] \in {"dead", "succeeded", "purged"}
    BY <2>2, <2>t DEF Dequeue, Eligible
  <2>3. ASSUME NEW w \in Workers, NEW t \in batch[w] \cup tasks[w], TaskStep(w, t)
        PROVE  status'[i] \in {"dead", "succeeded", "purged"}
    <3>1. CASE HandlerOk(w, t)
      BY <3>1, <2>t DEF HandlerOk, Complete, rows
    <3>2. CASE HandlerFail(w, t)
      BY <3>2, <2>t DEF HandlerFail, Fail, rows
    <3>3. CASE StartTask(w, t) \/ Heartbeat(w, t) \/ HeartbeatError(w, t)
                 \/ StatementError(w, t)
      BY <3>3 DEF StartTask, Heartbeat, HeartbeatError, StatementError, rows
    <3> QED
      BY <2>3, <3>1, <3>2, <3>3 DEF TaskStep
  <2>4. ASSUME NEW w \in Workers, Shutdown(w) \/ Drained(w) \/ Crash(w)
        PROVE  status'[i] \in {"dead", "succeeded", "purged"}
    BY <2>4 DEF Shutdown, Drained, Crash, rows
  <2> QED
    BY <2>1, <2>2, <2>3, <2>4 DEF Next
<1>2. Spec => []IndInv
  BY IndInit, IndNext, PTL DEF Spec
<1> QED
  BY <1>1, <1>2, PTL DEF Spec, DeadIsFinal

\* Leases give running workers mutual exclusion as long as no heartbeat is late
\* and no statement fails, through any number of crashes and shutdowns.
THEOREM MutualExclusion == Spec => []ExclusiveWithoutFaults
<1>1. IndInv => ExclusiveWithoutFaults
  BY DEF IndInv
<1> QED
  BY <1>1, IndInit, IndNext, PTL DEF Spec

\* Enqueue's ON CONFLICT clause keeps idempotency keys unique among retained rows.
THEOREM Idempotency == Spec => []KeysUnique
<1>1. IndInv => KeysUnique
  BY DEF IndInv
<1> QED
  BY <1>1, IndInit, IndNext, PTL DEF Spec

-----------------------------------------------------------------------------
(* The refinement. A row step maps to the ledger's step for that row; leases, *)
(* slots, heartbeats and crashes change nothing the ledger sees.              *)

Open == [j \in Jobs |-> LedgerState[status[j]]]

\* The ledger knows each status by one state, and settled and open ones apart.
LEMMA LedgerStates ==
    ASSUME TypeOK, NEW j \in Jobs
    PROVE  /\ (status[j] = "none") <=> (Open[j] = "absent")
           /\ (status[j] \in {"pending", "running"}) <=> (Open[j] = "open")
           /\ (status[j] = "succeeded") <=> (Open[j] = "done")
           /\ (status[j] = "dead") <=> (Open[j] = "dead")
           /\ (status[j] \in Live) <=> (Open[j] \in {"open", "done", "dead"})
  BY DEF TypeOK, Statuses, LedgerState, Open, Live

\* Producers, the clock and the sweeps.
LEMMA RowStepsRefine ==
    ASSUME TypeOK, NEW j \in Jobs,
           \/ \E k \in Keys \cup {NoKey}, d \in BOOLEAN : Enqueue(j, k, d)
           \/ BecomeAvailable(j) \/ LeaseExpires(j) \/ Purge(j)
    PROVE  [Ledger!LedgerNext]_(Ledger!lvars)
<1>1. ASSUME NEW k \in Keys \cup {NoKey}, NEW d \in BOOLEAN, Enqueue(j, k, d)
      PROVE  Ledger!Submit(j, k)
  <2>1. Open[j] = "absent" /\ Open' = [Open EXCEPT ![j] = "open"]
    BY <1>1, LedgerStates DEF Enqueue, TypeOK, Open, LedgerState
  <2>2. k # NoKey => \A h \in Jobs : Open[h] \in {"open", "done", "dead"} => key[h] # k
    BY <1>1, LedgerStates DEF Enqueue, KeyTaken
  <2> QED
    BY <1>1, <2>1, <2>2 DEF Enqueue, Ledger!Submit, Ledger!Kept, Open
<1>2. CASE BecomeAvailable(j) \/ LeaseExpires(j)
  BY <1>2 DEF BecomeAvailable, LeaseExpires, Ledger!lvars
<1>3. CASE Purge(j)
  <2>0. Open[j] \in {"done", "dead"} /\ status' = [status EXCEPT ![j] = "purged"]
    BY <1>3, LedgerStates DEF Purge, PurgeCompleted, CleanDeadLetterJobs
  <2>1. Open[j] \in {"done", "dead"} /\ Open' = [Open EXCEPT ![j] = "gone"]
    BY <2>0 DEF TypeOK, Open, LedgerState
  <2>2. Ledger!Discard(j)
    BY <1>3, <2>1 DEF Purge, PurgeCompleted, CleanDeadLetterJobs, Ledger!Discard, Open
  <2> QED
    BY <2>2 DEF Ledger!LedgerNext
<1> QED
  BY <1>1, <1>2, <1>3 DEF Ledger!LedgerNext

\* A poll hands out what it claims; claimed rows were open before and are after.
LEMMA DequeueRefines ==
    ASSUME TypeOK, NEW w \in Workers, NEW S \in SUBSET Jobs, Dequeue(w, S)
    PROVE  Ledger!HandOut(S)
<1>1. \A j \in S : Open[j] = "open"
  BY LedgerStates DEF Dequeue, Eligible
<1>2. Open' = Open
  BY <1>1 DEF Dequeue, TypeOK, Open, LedgerState, Eligible
<1> QED
  BY <1>1, <1>2 DEF Dequeue, Ledger!HandOut, Open

\* A handler that returns maps to success, reported or not, or to a refusal.
LEMMA TaskStepsRefine ==
    ASSUME TypeOK, NEW w \in Workers, NEW t \in batch[w] \cup tasks[w], TaskStep(w, t)
    PROVE  [Ledger!LedgerNext]_(Ledger!lvars)
<1>0. t[1] \in Jobs
  BY DEF TypeOK, Claims
<1> DEFINE j == t[1]
<1> HIDE DEF j
<1>j. j = t[1] /\ j \in Jobs
  BY <1>0 DEF j
<1>1. CASE HandlerOk(w, t)
  <2>1. CASE status[j] \in Live
    <3>1. Open[j] \in {"open", "done", "dead"} /\ Open' = [Open EXCEPT ![j] = "done"]
      BY <1>1, <1>j, <2>1, LedgerStates DEF HandlerOk, Complete, TypeOK, Open, LedgerState
    <3>2. Ledger!Succeed(j)
      BY <1>1, <1>j, <2>1, <3>1 DEF HandlerOk, Complete, Ledger!Succeed, Ledger!Returned, Ledger!Kept, Open
    <3> QED
      BY <1>j, <3>2 DEF Ledger!LedgerNext
  <2>2. CASE status[j] \notin Live
    <3>1. Ledger!SucceedUnreported(j)
      BY <1>1, <1>j, <2>2 DEF HandlerOk, Complete, rows, Ledger!SucceedUnreported, Ledger!Returned
    <3> QED
      BY <1>j, <3>1 DEF Ledger!LedgerNext
  <2> QED
    BY <2>1, <2>2
<1>2. CASE HandlerFail(w, t)
  <2>1. CASE status[j] \in Live
    <3>1. Open[j] \in {"open", "done", "dead"}
      BY <1>j, <2>1, LedgerStates
    <3>2. Open' = [Open EXCEPT ![j] = IF attempts[j] >= MaxAttempts[j] THEN "dead" ELSE "open"]
      <4>1. CASE attempts[j] >= MaxAttempts[j]
        <5>1. status' = [status EXCEPT ![j] = "dead"]
          BY <1>2, <1>j, <2>1, <4>1 DEF HandlerFail, Fail
        <5> QED
          BY <1>j, <4>1, <5>1 DEF TypeOK, Open, LedgerState
      <4>2. CASE ~(attempts[j] >= MaxAttempts[j])
        <5>1. status' = [status EXCEPT ![j] = "pending"]
          BY <1>2, <1>j, <2>1, <4>2 DEF HandlerFail, Fail
        <5> QED
          BY <1>j, <4>2, <5>1 DEF TypeOK, Open, LedgerState
      <4> QED
        BY <4>1, <4>2
    <3>3. Ledger!Refuse(j)
      BY <1>2, <1>j, <2>1, <3>1, <3>2 DEF HandlerFail, Fail, Ledger!Refuse, Ledger!Kept, Open
    <3> QED
      BY <1>j, <3>3 DEF Ledger!LedgerNext
  <2>2. CASE status[j] \notin Live
    BY <1>2, <1>j, <2>2 DEF HandlerFail, Fail, rows, Ledger!lvars
  <2> QED
    BY <2>1, <2>2
<1>3. CASE StatementError(w, t)
  <2>1. UNCHANGED <<status, key, attempts>>
    BY <1>3 DEF StatementError, rows
  <2>2. ran' = ran \/ ran' = ran \cup {j}
    BY <1>3, <1>j DEF StatementError
  <2>3. CASE ran' = ran
    BY <2>1, <2>3 DEF Ledger!lvars
  <2>4. CASE ran' = ran \cup {j}
    <3>1. Ledger!SucceedUnreported(j)
      BY <2>1, <2>4 DEF Ledger!SucceedUnreported, Ledger!Returned
    <3> QED
      BY <1>j, <3>1 DEF Ledger!LedgerNext
  <2> QED
    BY <2>2, <2>3, <2>4
<1>4. CASE StartTask(w, t) \/ Heartbeat(w, t) \/ HeartbeatError(w, t)
  BY <1>4 DEF StartTask, Heartbeat, HeartbeatError, rows, Ledger!lvars
<1> QED
  BY <1>1, <1>2, <1>3, <1>4 DEF TaskStep

\* The queue implements the ledger of work: the mapping takes initial states to initial
\* states, and every step to a step of the ledger or to none.
THEOREM QueueRefinesLedger == Spec => ImplementsLedger
<1>1. Init => Ledger!LedgerInit
  BY DEF Init, Ledger!LedgerInit, LedgerState
<1>2. TypeOK /\ [Next]_vars => [Ledger!LedgerNext]_(Ledger!lvars)
  <2> SUFFICES ASSUME TypeOK, [Next]_vars PROVE [Ledger!LedgerNext]_(Ledger!lvars)
    OBVIOUS
  <2>1. CASE UNCHANGED vars
    BY <2>1 DEF vars, rows, Ledger!lvars
  <2>2. ASSUME NEW w \in Workers, NEW S \in SUBSET Jobs, Dequeue(w, S)
        PROVE  [Ledger!LedgerNext]_(Ledger!lvars)
    BY <2>2, DequeueRefines DEF Ledger!LedgerNext
  <2>3. ASSUME NEW w \in Workers, Shutdown(w) \/ Drained(w) \/ Crash(w)
        PROVE  [Ledger!LedgerNext]_(Ledger!lvars)
    BY <2>3 DEF Shutdown, Drained, Crash, rows, Ledger!lvars
  <2> QED
    BY <2>1, <2>2, <2>3, RowStepsRefine, TaskStepsRefine DEF Next
<1> QED
  BY <1>1, <1>2, TypeCorrect, PTL DEF Spec, ImplementsLedger, Ledger!LedgerSpec
=============================================================================
