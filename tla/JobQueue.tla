------------------------------ MODULE JobQueue ------------------------------
(***************************************************************************)
(* The PostgreSQL-backed job queue (packages/platform/jobs) that every     *)
(* executable of Agnivo hands work through: the jobs table, the statements *)
(* Queue issues against it, and the Worker loops that consume it.          *)
(*                                                                         *)
(* Each SQL statement is one atomic step.  Wall-clock time is abstracted   *)
(* to the two facts the code reads of it: whether available_at has passed  *)
(* (avail) and whether leased_until has passed (expired).  One queue name  *)
(* is modelled; a worker never touches the rows of another queue.          *)
(*                                                                         *)
(* Dequeue may claim any set of eligible rows within its limit: FOR UPDATE *)
(* SKIP LOCKED passes over rows another statement has locked, so ORDER BY  *)
(* priority does not bound which subset a concurrent poll returns.         *)
(***************************************************************************)
EXTENDS Naturals, FiniteSets

CONSTANTS
    Jobs,         \* row ids; idx.NewUUID never repeats one
    Keys,         \* idempotency keys producers use
    NoKey,        \* the NULL idempotency key
    Workers,      \* worker ids; a restarted process gets a fresh one
    NoWorker,     \* the NULL leased_by
    Known,        \* jobs whose type has a registered handler
    MaxAttempts,  \* max_attempts of each row
    Concurrency,  \* WorkerConfig.Concurrency
    BatchSize,    \* WorkerConfig.BatchSize
    MaxFaults,    \* bound: late heartbeats and failed statements
    MaxStops      \* bound: crashes and shutdowns

ASSUME ConstantsAssumption ==
    /\ NoKey \notin Keys
    /\ NoWorker \notin Workers
    /\ Known \subseteq Jobs
    /\ MaxAttempts \in [Jobs -> Nat \ {0}]
    /\ Concurrency \in Nat \ {0}
    /\ BatchSize \in Nat \ {0}
    /\ MaxFaults \in Nat
    /\ MaxStops \in Nat

VARIABLES
    status,    \* jobs.status, or "none" before the insert, "purged" after delete
    key,       \* jobs.idempotency_key
    attempts,  \* jobs.attempts
    avail,     \* jobs.available_at <= now()
    leasedBy,  \* jobs.leased_by
    expired,   \* jobs.leased_until < now(), meaningful while running
    phase,     \* each worker's Run loop: "up", "draining" or "down"
    batch,     \* each worker's claimed jobs that wait for a semaphore slot
    tasks,     \* each worker's jobs inside process
    beating,   \* tasks whose heartbeat goroutine is still alive
    ran,       \* history: jobs some handler invocation returned nil for
    faults,    \* late heartbeats and failed statements so far
    stops      \* crashes and shutdowns so far

rows    == <<status, key, attempts, avail, leasedBy, expired>>
workers == <<phase, batch, tasks, beating>>
vars    == <<rows, workers, ran, faults, stops>>

Statuses == {"none", "pending", "running", "succeeded", "dead", "purged"}
Live     == {"pending", "running", "succeeded", "dead"}  \* the row exists

\* A worker's copy of a claimed row: the Job value that Dequeue returned.
Claims == Jobs \X Nat

\* The rows of jobs, and the batches and slots of the workers, are well formed.
TypeOK ==
    /\ status \in [Jobs -> Statuses]
    /\ key \in [Jobs -> Keys \cup {NoKey}]
    /\ attempts \in [Jobs -> Nat]
    /\ avail \in [Jobs -> BOOLEAN]
    /\ leasedBy \in [Jobs -> Workers \cup {NoWorker}]
    /\ expired \in [Jobs -> BOOLEAN]
    /\ phase \in [Workers -> {"up", "draining", "down"}]
    /\ batch \in [Workers -> SUBSET Claims]
    /\ tasks \in [Workers -> SUBSET Claims]
    /\ beating \in [Workers -> SUBSET Claims]
    /\ ran \subseteq Jobs
    /\ faults \in Nat
    /\ stops \in Nat

Init ==
    /\ status = [j \in Jobs |-> "none"]
    /\ key = [j \in Jobs |-> NoKey]
    /\ attempts = [j \in Jobs |-> 0]
    /\ avail = [j \in Jobs |-> FALSE]
    /\ leasedBy = [j \in Jobs |-> NoWorker]
    /\ expired = [j \in Jobs |-> FALSE]
    /\ phase = [w \in Workers |-> "up"]
    /\ batch = [w \in Workers |-> {}]
    /\ tasks = [w \in Workers |-> {}]
    /\ beating = [w \in Workers |-> {}]
    /\ ran = {}
    /\ faults = 0
    /\ stops = 0

Fault == faults < MaxFaults /\ faults' = faults + 1

-----------------------------------------------------------------------------
(* Producers and the passage of time.                                      *)

\* The partial unique index: (queue, idempotency_key) where the key is set.
KeyTaken(k) == k # NoKey /\ \E j \in Jobs : status[j] \in Live /\ key[j] = k

\* Queue.Enqueue.  On a key conflict the existing row is returned untouched,
\* whatever its status, so the insert is disabled; "delayed" is a Delay or a
\* RunAt in the future.
Enqueue(j, k, delayed) ==
    /\ status[j] = "none"
    /\ ~KeyTaken(k)
    /\ status' = [status EXCEPT ![j] = "pending"]
    /\ key' = [key EXCEPT ![j] = k]
    /\ avail' = [avail EXCEPT ![j] = ~delayed]
    /\ UNCHANGED <<attempts, leasedBy, expired, workers, ran, faults, stops>>

\* now() passes the available_at of a delayed or backed-off row.
BecomeAvailable(j) ==
    /\ status[j] = "pending"
    /\ ~avail[j]
    /\ avail' = [avail EXCEPT ![j] = TRUE]
    /\ UNCHANGED <<status, key, attempts, leasedBy, expired, workers, ran,
                   faults, stops>>

\* The worker that holds row j's lease still runs the claim that took it.
Attended(j) ==
    /\ leasedBy[j] \in Workers
    /\ phase[leasedBy[j]] = "up"
    /\ <<j, attempts[j]>> \in batch[leasedBy[j]] \cup tasks[leasedBy[j]]

\* now() passes leased_until.  For an attended claim that is a fault: its
\* heartbeat came late, or it waited too long for a semaphore slot.
LeaseExpires(j) ==
    /\ status[j] = "running"
    /\ ~expired[j]
    /\ IF Attended(j) THEN Fault ELSE UNCHANGED faults
    /\ expired' = [expired EXCEPT ![j] = TRUE]
    /\ UNCHANGED <<status, key, attempts, avail, leasedBy, workers, ran, stops>>

\* A purge that goes by the age of a row alone.
MutPurgeCompleted(j) ==
    /\ status[j] \in {"pending", "succeeded"}
    /\ status' = [status EXCEPT ![j] = "purged"]
    /\ UNCHANGED <<key, attempts, avail, leasedBy, expired, workers, ran,
                   faults, stops>>

\* Queue.PurgeCompleted deletes succeeded rows that have been idle for long.
PurgeCompleted(j) ==
    /\ status[j] = "succeeded"
    /\ status' = [status EXCEPT ![j] = "purged"]
    /\ UNCHANGED <<key, attempts, avail, leasedBy, expired, workers, ran,
                   faults, stops>>

\* The garbage collector of the ops workers does the same to dead letters.
CleanDeadLetterJobs(j) ==
    /\ status[j] = "dead"
    /\ status' = [status EXCEPT ![j] = "purged"]
    /\ UNCHANGED <<key, attempts, avail, leasedBy, expired, workers, ran,
                   faults, stops>>

Purge(j) == PurgeCompleted(j) \/ CleanDeadLetterJobs(j)

-----------------------------------------------------------------------------
(* Worker.Run and Worker.process.                                          *)

\* No reclaim branch; and dead rows taken for pending ones.
MutEligibleNoReclaim(j) == status[j] = "pending" /\ avail[j]
\* The WHERE clause of the claim statement.
Eligible(j) ==
    \/ status[j] = "pending" /\ avail[j]
    \/ status[j] = "running" /\ expired[j]

\* Queue.Dequeue by worker w's poll, returning the rows S.  The loop polls
\* again only once the previous batch has left for the semaphore.
Dequeue(w, S) ==
    /\ phase[w] = "up"
    /\ batch[w] = {}
    /\ S # {} /\ Cardinality(S) <= BatchSize
    /\ \A j \in S : Eligible(j)
    /\ status' = [j \in Jobs |-> IF j \in S THEN "running" ELSE status[j]]
    /\ attempts' = [j \in Jobs |-> IF j \in S THEN attempts[j] + 1 ELSE attempts[j]]
    /\ leasedBy' = [j \in Jobs |-> IF j \in S THEN w ELSE leasedBy[j]]
    /\ expired' = [j \in Jobs |-> IF j \in S THEN FALSE ELSE expired[j]]
    /\ batch' = [batch EXCEPT ![w] = {<<j, attempts[j] + 1>> : j \in S}]
    /\ UNCHANGED <<key, avail, phase, tasks, beating, ran, faults, stops>>

\* A batched job gets a semaphore slot; process starts, and with it the
\* heartbeat goroutine unless the type has no handler.  The loop does not look
\* at ctx between the jobs of a batch, so a draining worker starts them too,
\* but there the heartbeat's context is already cancelled.
StartTask(w, t) ==
    /\ phase[w] # "down"
    /\ t \in batch[w]
    /\ Cardinality(tasks[w]) < Concurrency
    /\ batch' = [batch EXCEPT ![w] = @ \ {t}]
    /\ tasks' = [tasks EXCEPT ![w] = @ \cup {t}]
    /\ beating' = IF phase[w] = "up" /\ t[1] \in Known
                  THEN [beating EXCEPT ![w] = @ \cup {t}] ELSE beating
    /\ UNCHANGED <<rows, phase, ran, faults, stops>>

\* Queue.Heartbeat by the task's goroutine: it renews the row's lease when the
\* row is running under this worker's id (expired or not); otherwise it gets
\* "lease lost" and the goroutine ends, though the handler goes on.
Heartbeat(w, t) ==
    /\ phase[w] = "up"
    /\ t \in beating[w]
    /\ IF status[t[1]] = "running" /\ leasedBy[t[1]] = w
       THEN /\ expired[t[1]]
            /\ expired' = [expired EXCEPT ![t[1]] = FALSE]
            /\ UNCHANGED beating
       ELSE /\ beating' = [beating EXCEPT ![w] = @ \ {t}]
            /\ UNCHANGED expired
    /\ UNCHANGED <<status, key, attempts, avail, leasedBy, phase, batch, tasks,
                   ran, faults, stops>>

\* The heartbeat statement fails for another reason: the goroutine ends.
HeartbeatError(w, t) ==
    /\ phase[w] = "up"
    /\ t \in beating[w]
    /\ Fault
    /\ beating' = [beating EXCEPT ![w] = @ \ {t}]
    /\ UNCHANGED <<rows, phase, batch, tasks, ran, stops>>

\* process returns: the goroutine leaves its slot and its heartbeat is stopped.
Leave(w, t) ==
    /\ tasks' = [tasks EXCEPT ![w] = @ \ {t}]
    /\ beating' = [beating EXCEPT ![w] = @ \ {t}]
    /\ UNCHANGED <<phase, batch>>

\* Queue.Complete: UPDATE ... WHERE id = $1, with no test of status or lease.
\* A purged row is not found, and the error is only logged.
Complete(j) ==
    IF status[j] \in Live
    THEN /\ status' = [status EXCEPT ![j] = "succeeded"]
         /\ leasedBy' = [leasedBy EXCEPT ![j] = NoWorker]
         /\ expired' = [expired EXCEPT ![j] = FALSE]
         /\ UNCHANGED <<key, attempts, avail>>
    ELSE UNCHANGED rows

\* Queue.Fail: UPDATE ... WHERE id = $1, deciding between retry and dead-letter
\* by the row's own counters, again with no test of status or lease.
Fail(j) ==
    IF status[j] \in Live
    THEN /\ IF attempts[j] >= MaxAttempts[j]
            THEN /\ status' = [status EXCEPT ![j] = "dead"]
                 /\ UNCHANGED avail
            ELSE /\ status' = [status EXCEPT ![j] = "pending"]
                 /\ avail' = [avail EXCEPT ![j] = FALSE]
         /\ leasedBy' = [leasedBy EXCEPT ![j] = NoWorker]
         /\ expired' = [expired EXCEPT ![j] = FALSE]
         /\ UNCHANGED <<key, attempts>>
    ELSE UNCHANGED rows

\* The handler returned nil and Complete reaches the database.
HandlerOk(w, t) ==
    /\ phase[w] = "up"
    /\ t \in tasks[w]
    /\ t[1] \in Known
    /\ Complete(t[1])
    /\ Leave(w, t)
    /\ ran' = ran \cup {t[1]}
    /\ UNCHANGED <<faults, stops>>

\* The handler returned an error or panicked, or the type has no handler.
HandlerFail(w, t) ==
    /\ phase[w] = "up"
    /\ t \in tasks[w]
    /\ Fail(t[1])
    /\ Leave(w, t)
    /\ UNCHANGED <<ran, faults, stops>>

\* Statements of a draining worker that do reach the database, late.
MutStatementError(w, t) ==
    /\ phase[w] = "draining" /\ t \in tasks[w]
    /\ Fail(t[1])
    /\ Leave(w, t)
    /\ UNCHANGED <<ran, faults, stops>>

\* The Complete or Fail statement itself fails: the error is logged and the row
\* stays running under a lease nobody renews.  A draining worker's statements
\* all fail, because they use the cancelled context of Run.
StatementError(w, t) ==
    /\ phase[w] # "down"
    /\ t \in tasks[w]
    /\ IF phase[w] = "up" THEN Fault ELSE UNCHANGED faults
    /\ ran' \in {ran, ran \cup ({t[1]} \cap Known)}
    /\ Leave(w, t)
    /\ UNCHANGED <<rows, stops>>

\* The lifecycle manager cancels Run's context; every heartbeat stops with it.
Shutdown(w) ==
    /\ phase[w] = "up"
    /\ stops < MaxStops
    /\ stops' = stops + 1
    /\ phase' = [phase EXCEPT ![w] = "draining"]
    /\ beating' = [beating EXCEPT ![w] = {}]
    /\ UNCHANGED <<rows, batch, tasks, ran, faults>>

\* Run sees the cancelled context, has waited for its goroutines, and returns.
Drained(w) ==
    /\ phase[w] = "draining"
    /\ batch[w] = {} /\ tasks[w] = {}
    /\ phase' = [phase EXCEPT ![w] = "down"]
    /\ UNCHANGED <<rows, batch, tasks, beating, ran, faults, stops>>

\* The worker's process dies: claimed and running jobs vanish with it.
Crash(w) ==
    /\ phase[w] # "down"
    /\ stops < MaxStops
    /\ stops' = stops + 1
    /\ phase' = [phase EXCEPT ![w] = "down"]
    /\ batch' = [batch EXCEPT ![w] = {}]
    /\ tasks' = [tasks EXCEPT ![w] = {}]
    /\ beating' = [beating EXCEPT ![w] = {}]
    /\ UNCHANGED <<rows, ran, faults>>

TaskStep(w, t) ==
    \/ StartTask(w, t)
    \/ Heartbeat(w, t)
    \/ HeartbeatError(w, t)
    \/ HandlerOk(w, t)
    \/ HandlerFail(w, t)
    \/ StatementError(w, t)

Next ==
    \/ \E j \in Jobs :
        \/ \E k \in Keys \cup {NoKey}, d \in BOOLEAN : Enqueue(j, k, d)
        \/ BecomeAvailable(j)
        \/ LeaseExpires(j)
        \/ Purge(j)
    \/ \E w \in Workers :
        \/ \E S \in SUBSET Jobs : Dequeue(w, S)
        \/ \E t \in batch[w] \cup tasks[w] : TaskStep(w, t)
        \/ Shutdown(w)
        \/ Drained(w)
        \/ Crash(w)

Spec == Init /\ [][Next]_vars

\* Fairness.  Time passes, a live worker's loop goes on polling, starting and
\* finishing what it claimed, and a handler returns.  A poll that keeps coming
\* back with room for row j eventually takes it (strong fairness: the worker is
\* busy with other batches in between).
Polls(j) == \E w \in Workers, S \in SUBSET Jobs : j \in S /\ Dequeue(w, S)

Finishes(w, t) ==
    \/ StartTask(w, t)
    \/ HandlerOk(w, t)
    \/ HandlerFail(w, t)
    \/ phase[w] = "draining" /\ StatementError(w, t)

Progress(w) == \E t \in batch[w] \cup tasks[w] : Finishes(w, t)

Fairness ==
    /\ \A j \in Jobs :
        /\ WF_vars(BecomeAvailable(j))
        /\ WF_vars(LeaseExpires(j) /\ ~Attended(j))
        /\ SF_vars(Polls(j))
    /\ \A w \in Workers : WF_vars(Progress(w))

FairSpec == Spec /\ Fairness

-----------------------------------------------------------------------------
(* Properties.                                                             *)

\* Every claim a worker holds, waiting for a slot or running.
Held(w) == batch[w] \cup tasks[w]

\* SKIP LOCKED plus the attempts counter: no two workers ever hold the same
\* claim of a row, and no worker holds a claim the row has not counted yet.
ClaimUnique ==
    /\ \A w \in Workers : \A t \in Held(w) : t[2] \in 1..attempts[t[1]]
    /\ \A w \in Workers : batch[w] \cap tasks[w] = {}
    /\ \A v, w \in Workers : v # w => Held(v) \cap Held(w) = {}

\* A row names a lease holder exactly while it is running, and then the holder
\* is the worker of the newest claim: a Heartbeat, Complete or Fail that a slow
\* worker sends late never leaves the lease with somebody else.
LeaseFollowsClaim ==
    /\ \A j \in Jobs : status[j] = "running" <=> leasedBy[j] # NoWorker
    /\ \A w \in Workers : \A t \in Held(w) :
        (status[t[1]] = "running" /\ t[2] = attempts[t[1]]) => leasedBy[t[1]] = w

\* A succeeded row is one that some handler invocation returned nil for, and a
\* dead row has used up its attempts, however late the statements arrived.
OutcomeJustified ==
    \A j \in Jobs :
        /\ status[j] = "succeeded" => j \in ran
        /\ status[j] = "dead" => attempts[j] >= MaxAttempts[j]

\* Mutual exclusion as far as leases give it: while no heartbeat has been late
\* and no statement has failed, workers that are up hold at most one claim of a
\* job between them, and that claim's lease is in force, whatever other workers
\* crash or drain meanwhile.
ExclusiveWithoutFaults ==
    faults = 0 =>
        \A w \in Workers : phase[w] = "up" =>
            \A t \in Held(w) :
                /\ t[2] = attempts[t[1]]
                /\ status[t[1]] = "running"
                /\ leasedBy[t[1]] = w
                /\ ~expired[t[1]]

\* The unique index with ON CONFLICT: retained rows never share a key, whichever
\* of them is pending, running, succeeded or dead-lettered.
KeysUnique ==
    \A i, j \in Jobs :
        (i # j /\ status[i] \in Live /\ status[j] \in Live /\ key[i] # NoKey)
            => key[i] # key[j]

\* A dead-lettered job never runs again by itself: a late Fail finds its attempts
\* still exhausted, and only a late Complete or the sweep takes it out.
DeadIsFinal ==
    [][\A j \in Jobs : status[j] = "dead" =>
            status'[j] \in {"dead", "succeeded", "purged"}]_vars

\* At-least-once: as long as some worker stays up, a job that was enqueued is
\* eventually settled, through crashes, shutdowns, lost leases and lost replies.
EventuallySettled ==
    \A j \in Jobs :
        status[j] \in {"pending", "running"} ~>
            status[j] \in {"succeeded", "dead", "purged"}

-----------------------------------------------------------------------------
(* The queue as a ledger of work: rows that are pending or running are open.*)

LedgerState ==
    [none |-> "absent", pending |-> "open", running |-> "open",
     succeeded |-> "done", dead |-> "dead", purged |-> "gone"]

Ledger == INSTANCE WorkLedger WITH
    Work <- Jobs, Tags <- Keys, NoTag <- NoKey, Limit <- MaxAttempts,
    ledger <- [j \in Jobs |-> LedgerState[status[j]]],
    tag <- key, tries <- attempts, returned <- ran

\* The queue and its workers implement the ledger: whatever leases expire, whoever
\* crashes and however late the statements arrive, nobody loses open work, every claim
\* counts as a try, and work is settled only by a handler or by its limit.
ImplementsLedger == Ledger!LedgerSpec
=============================================================================
