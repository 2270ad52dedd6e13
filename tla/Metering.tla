------------------------------ MODULE Metering ------------------------------
(* Usage of one organization in one dimension (ops/metering, ops/quota,         *)
(* ops/analytics): raw records, their daily rollups, the quota checks that       *)
(* read the rollups, the daily snapshot, and the purge of old raw records.       *)
EXTENDS Integers, Rows

CONSTANTS
    Meters,       \* callers that check the quota and record usage
    Limit,        \* limitFor the plan: a number, or Unlimited
    Unlimited,
    Deltas,       \* quantities that are recorded, all positive (Record refuses others)
    LastDay,      \* bound on the clock
    RawRetention, \* UsageRawRetention in days
    MaxUsage      \* bound on the usage recorded for a day

ASSUME MeteringAssumption ==
    /\ RawRetention \in Nat \ {0} /\ LastDay \in Nat /\ MaxUsage \in Nat
    /\ Deltas \subseteq Nat \ {0} /\ Limit \in Nat \cup {Unlimited} /\ Unlimited \notin Nat
    /\ NoRow \notin Nat

VARIABLES
    uday,      \* the clock
    raw,       \* ops_usage_records: quantity by period and day of recording
    rollups,   \* ops_usage_rollups by period
    snapshots, \* ops_analytics_daily by period
    everUsed,  \* all that was ever recorded for a period
    decided    \* the last answer each caller got, and the usage it was about

uvars == <<uday, raw, rollups, snapshots, everUsed, decided>>

Days == 0..LastDay

MeteringInit ==
    /\ uday = 0
    /\ raw = [k \in Days \X Days |-> 0]
    /\ rollups = [p \in Days |-> NoRow] /\ snapshots = [p \in Days |-> NoRow]
    /\ everUsed = [p \in Days |-> 0]
    /\ decided = [w \in Meters |-> NoRow]

\* SUM(quantity) of quantities by day, up to each day.
SumUpTo(quantity) ==
    LET sum[d \in Days] == IF d = 0 THEN quantity[0] ELSE sum[d - 1] + quantity[d] IN sum

\* The records there are of a period, whenever they were made.
RawTotal(p) == SumUpTo([d \in Days |-> raw[<<p, d>>]])[LastDay]

\* GetCurrentUsage: what the rollup of the day says, 0 without one.
CurrentUsage(p) == IF rollups[p] = NoRow THEN 0 ELSE rollups[p]

\* Check: pct > 100 refuses, and a limit of 0 refuses everything.
Allowed(delta) == Limit = Unlimited \/ (Limit # 0 /\ CurrentUsage(uday) + delta <= Limit)

\* Enforce: when the limits or the rollup cannot be read, it allows.
Enforce(w, delta, readable) ==
    /\ decided' = [decided EXCEPT ![w] = [allowed |-> ~readable \/ Allowed(delta), readable |-> readable,
                                          delta |-> delta, used |-> everUsed[uday], rolled |-> CurrentUsage(uday)]]
    /\ UNCHANGED <<uday, raw, rollups, snapshots, everUsed>>

\* Record, by a caller that was allowed to; RecordBatch may give a period of its own.
RecordUsage(w, period) ==
    /\ decided[w] # NoRow /\ decided[w].allowed
    /\ LET q == decided[w].delta IN
       /\ everUsed[period] + q <= MaxUsage
       /\ raw' = [raw EXCEPT ![<<period, uday>>] = @ + q]
       /\ everUsed' = [everUsed EXCEPT ![period] = @ + q]
    /\ decided' = [decided EXCEPT ![w] = NoRow]
    /\ UNCHANGED <<uday, rollups, snapshots>>

MutRollupUsage(period) ==
    /\ rollups' = IF RawTotal(period) = 0 THEN rollups ELSE [rollups EXCEPT ![period] = CurrentUsage(period) + RawTotal(period)]
    /\ UNCHANGED <<uday, raw, snapshots, everUsed, decided>>

\* RollupUsage: the sum of the records there are replaces the total; without records
\* there is no group, and the row stays. The job may run again at any time.
RollupUsage(period) ==
    /\ rollups' = IF RawTotal(period) = 0 THEN rollups ELSE [rollups EXCEPT ![period] = RawTotal(period)]
    /\ UNCHANGED <<uday, raw, snapshots, everUsed, decided>>

\* handleUsageRollup: the period of the payload, today when it is empty.
HandleUsageRollup == \E period \in 0..uday : RollupUsage(period)

\* handleAnalytics: the snapshot of the period, yesterday when it is empty, is replaced.
AggregateDaily ==
    /\ \E period \in 0..uday : snapshots' = [snapshots EXCEPT ![period] = CurrentUsage(period)]
    /\ UNCHANGED <<uday, raw, rollups, everUsed, decided>>

\* cleanRawUsage deletes by the time of recording, not by the period; of the day that the
\* cut-off falls into, some of the records are left.
CleanRawUsage ==
    LET cutoff == uday - RawRetention IN
    /\ \E left \in [0..cutoff -> 0..MaxUsage] :
        /\ \A p \in 0..cutoff : left[p] <= raw[<<p, cutoff>>]
        /\ raw' = [k \in DOMAIN raw |-> IF k[2] < cutoff THEN 0
                                       ELSE IF k[2] = cutoff /\ k[1] <= cutoff THEN left[k[1]]
                                       ELSE raw[k]]
    /\ UNCHANGED <<uday, rollups, snapshots, everUsed, decided>>

UsageDay == uday < LastDay /\ uday' = uday + 1 /\ UNCHANGED <<raw, rollups, snapshots, everUsed, decided>>

MeteringNext ==
    \/ UsageDay \/ HandleUsageRollup \/ AggregateDaily \/ CleanRawUsage
    \/ \E w \in Meters, delta \in Deltas, readable \in BOOLEAN : Enforce(w, delta, readable)
    \/ \E w \in Meters, p \in 0..uday : RecordUsage(w, p)

MeteringSpec == MeteringInit /\ [][MeteringNext]_uvars

-----------------------------------------------------------------------------
(* Properties *)

\* Neither the rollups nor the snapshots count a record twice, however often and late
\* their jobs run; and the raw records and the totals are those of the tables.
UsageCountedOnce ==
    \A p \in Days : RawTotal(p) <= everUsed[p] /\ CurrentUsage(p) <= everUsed[p] /\ (snapshots[p] # NoRow => snapshots[p] <= everUsed[p])

\* The records of a period are complete until the retention since its day has passed, though
\* they may come late and the purge does not look at the period.
RecentComplete == \A p \in Days : uday < p + RawRetention => RawTotal(p) = everUsed[p]

\* Usage that was allowed, with every record of the day rolled up and the limits read,
\* is within the limit: what exceeds it was recorded since the last rollup.
AllowedWithinLimit ==
    \A w \in Meters :
        (decided[w] # NoRow /\ decided[w].allowed /\ decided[w].readable /\ Limit # Unlimited /\ decided[w].used = decided[w].rolled)
        => decided[w].used + decided[w].delta <= Limit

\* Usage is counted once and, while it is recent, all of it; and what Check allows on
\* up-to-date rollups is within the limit.
UsageTrue == UsageCountedOnce /\ RecentComplete /\ AllowedWithinLimit
=============================================================================
