---------------------------- MODULE CronScheduler ----------------------------
(* The cron processes (ops/cron): every tick takes a Redis lock, reads the due  *)
(* rows of ops_cron_jobs and, row by row, enqueues the job and moves            *)
(* next_run_at. The lock has a TTL, which nothing renews during a tick.         *)
EXTENDS Naturals, FiniteSets

CONSTANTS
    Crons,      \* cron processes
    CronJobs,   \* built-in schedules, a function from names to their kind
    CHour, CDay, \* an hour and a day, in the minutes of the idempotency key
    MaxMinute,  \* bound on the clock
    CMaxFaults, \* bound on crashes, failed statements and overrun locks
    NoNext,     \* a NULL next_run_at
    NoCron      \* nobody holds the lock

ASSUME CalendarAssumption == CHour \in Nat \ {0} /\ CDay \in Nat \ {0} /\ CDay % CHour = 0
ASSUME CronAssumption == CMaxFaults \in Nat /\ NoNext \notin Nat /\ NoCron \notin Crons

VARIABLES
    minute,  \* the clock
    table,   \* ops_cron_jobs: next_run_at and last_error of the registered rows
    leader,  \* holder of the key cron:leader
    ticks,   \* what each process is doing, and the due rows it still has to fire
    fires,   \* rows that the schedules put into the jobs table
    cfaults

crvars == <<minute, table, leader, ticks, fires, cfaults>>

CronName == DOMAIN CronJobs

\* A due row as the tick read it: the name and the run that is due.
DueRow == [name : CronName, slot : Nat \cup {NoNext}]

CronInit ==
    /\ minute = 1
    /\ table = [c \in {} |-> <<>>]
    /\ leader = NoCron
    /\ ticks = [n \in Crons |-> [at |-> "down", due |-> {}]]
    /\ fires = {} /\ cfaults = 0

CFault == cfaults < CMaxFaults /\ cfaults' = cfaults + 1

Floor(t, unit) == (t \div unit) * unit

\* nextRunAfter, with months and years of a fixed length; a full cron expression falls
\* back to the next minute.
NextRunAfter(schedule, from) ==
    CASE schedule = "@yearly"  -> Floor(from, 365 * CDay) + 365 * CDay
      [] schedule = "@monthly" -> Floor(from, 30 * CDay) + 30 * CDay
      [] schedule = "@weekly"  -> Floor(from, CDay) + 7 * CDay
      [] schedule = "@daily"   -> Floor(from, CDay) + CDay
      [] schedule = "@hourly"  -> Floor(from, CHour) + CHour
      [] OTHER -> from + 1

\* UpsertCronJob leaves next_run_at of a known row, and NULL for a new one, alone.
UpsertCronJob(name) == IF name \in DOMAIN table THEN table[name] ELSE [next |-> NoNext, err |-> FALSE]

\* registerCron seeds the built-in schedules, an error of one is logged, and Run starts.
RegisterCron(n) ==
    /\ ticks[n].at = "down"
    /\ \E failed \in SUBSET (CronName \ DOMAIN table) :
        /\ failed # {} => CFault
        /\ failed = {} => UNCHANGED cfaults
        /\ table' = [name \in CronName \ failed |-> UpsertCronJob(name)]
    /\ ticks' = [ticks EXCEPT ![n].at = "idle"]
    /\ UNCHANGED <<minute, leader, fires>>

MutAcquire(n) == leader' = n

\* Acquire is SET NX PX: only when the key is not there.
Acquire(n) == leader = NoCron /\ leader' = n

\* tick: a follower does nothing.
TickCron(n) ==
    /\ ticks[n].at = "idle"
    /\ Acquire(n)
    /\ ticks' = [ticks EXCEPT ![n].at = "leading"]
    /\ UNCHANGED <<minute, table, fires, cfaults>>

IsDue(name) == table[name].next = NoNext \/ table[name].next <= minute

\* fireDueJobs: GetCronJobsDue.
GetCronJobsDue(n) ==
    /\ ticks[n].at = "leading"
    /\ ticks' = [ticks EXCEPT ![n] =
            [at |-> "firing", due |-> {[name |-> c, slot |-> table[c].next] : c \in {c \in DOMAIN table : IsDue(c)}}]]
    /\ UNCHANGED <<minute, table, leader, fires, cfaults>>

\* fire: the key is the name and the minute, so a second enqueue in the minute adds no row.
FireEnqueue(n) ==
    /\ ticks[n].at = "firing"
    /\ \E row \in ticks[n].due, ok \in BOOLEAN :
        /\ IF ok THEN UNCHANGED cfaults ELSE CFault
        /\ fires' = IF ok /\ \A f \in fires : ~(f.name = row.name /\ f.at = minute)
                    THEN fires \cup {[name |-> row.name, slot |-> row.slot, at |-> minute]} ELSE fires
        /\ ticks' = [ticks EXCEPT ![n] =
                [at |-> "fired", due |-> @.due \ {row}, name |-> row.name, ok |-> ok,
                 next |-> NextRunAfter(CronJobs[row.name], minute)]]
    /\ UNCHANGED <<minute, table, leader>>

\* UpdateCronJobAfterRun, also when the enqueue failed; its own error is logged.
UpdateCronJobAfterRun(n) ==
    /\ ticks[n].at = "fired"
    /\ \/ table' = [table EXCEPT ![ticks[n].name] = [next |-> ticks[n].next, err |-> ~ticks[n].ok]] /\ UNCHANGED cfaults
       \/ CFault /\ UNCHANGED table
    /\ ticks' = [ticks EXCEPT ![n] = [at |-> "firing", due |-> @.due]]
    /\ UNCHANGED <<minute, leader, fires>>

\* The deferred Release removes the key only when it holds this process's token.
ReleaseLock(n) ==
    /\ ticks[n].at = "firing" /\ ticks[n].due = {}
    /\ leader' = IF leader = n THEN NoCron ELSE leader
    /\ ticks' = [ticks EXCEPT ![n].at = "idle"]
    /\ UNCHANGED <<minute, table, fires, cfaults>>

Leading(n) == ticks[n].at \notin {"down", "idle"}

MutLockExpires ==
    /\ leader # NoCron /\ Leading(leader) /\ CFault
    /\ leader' = NoCron
    /\ UNCHANGED <<minute, table, ticks, fires>>

\* The TTL passes: the holder has died, or its tick takes longer than a minute.
LockExpires ==
    /\ leader # NoCron
    /\ IF Leading(leader) THEN CFault ELSE UNCHANGED cfaults
    /\ leader' = NoCron
    /\ UNCHANGED <<minute, table, ticks, fires>>

CrashCron(n) ==
    /\ ticks[n].at # "down" /\ CFault
    /\ ticks' = [ticks EXCEPT ![n] = [at |-> "down", due |-> {}]]
    /\ UNCHANGED <<minute, table, leader, fires>>

Minute == minute < MaxMinute /\ minute' = minute + 1 /\ UNCHANGED <<table, leader, ticks, fires, cfaults>>

CronStep(n) ==
    \/ RegisterCron(n) \/ TickCron(n) \/ GetCronJobsDue(n) \/ FireEnqueue(n)
    \/ UpdateCronJobAfterRun(n) \/ ReleaseLock(n)

CronNext == Minute \/ LockExpires \/ \E n \in Crons : CronStep(n) \/ CrashCron(n)

\* The ticker fires as long as the process runs, a process that died is started again
\* by its supervisor, and Redis drops the key of a dead process. A tick may lose the
\* race for the lock every time, so its fairness is strong: the lock is free in between.
CronFairness == WF_crvars(LockExpires /\ ~Leading(leader)) /\ \A n \in Crons : SF_crvars(CronStep(n))

CronSpec == CronInit /\ [][CronNext]_crvars /\ CronFairness

-----------------------------------------------------------------------------
(* Properties *)

\* As long as no process dies, no statement fails and no lock expires under its holder,
\* a due run is put into the queue once, by whichever process leads.
RunFiredOnce ==
    cfaults = 0 => \A f, g \in fires : (f.name = g.name /\ f.slot = g.slot) => f = g

\* A dead leader does not stop the others: a job that is due is dealt with in the end,
\* again and again, by whichever process takes the lock next.
DueRunHandled == \A c \in CronName : []<>(c \in DOMAIN table => ~IsDue(c))
=============================================================================
