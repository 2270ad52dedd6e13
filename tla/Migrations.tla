----------------------------- MODULE Migrations -----------------------------
(* Migrate of platform/database/postgres, which every executable runs when it  *)
(* starts, on one database: an advisory lock of the session, the versions that *)
(* are applied, and each missing one in a transaction with its record. The     *)
(* executables bring different lists, which branch: the runtime agent's and    *)
(* the proxy's both extend the scheduler's.                                   *)
EXTENDS Naturals, Sequences, FiniteSetsExt, SequencesExt

CONSTANTS
    Replicas,    \* starting processes
    NoReplica,   \* the lock is free
    Wanted,      \* the versions that each process brings, in ascending order
    GMaxFaults   \* bound on processes that die and statements that fail

\* A list has a version once, and a version that two lists share comes after the same ones
\* in both: the lists of the executables grew by appending, and branch.
ASSUME WantedAssumption ==
    /\ NoReplica \notin Replicas
    /\ \A r \in Replicas : Wanted[r] \in Seq(Nat)
    /\ \A r \in Replicas : \A i, h \in 1..Len(Wanted[r]) : Wanted[r][i] = Wanted[r][h] => i = h
    /\ \A r, q \in Replicas : \A i \in 1..Len(Wanted[r]), k \in 1..Len(Wanted[q]) :
        Wanted[r][i] = Wanted[q][k] => \A h \in 1..k : \E g \in 1..i : Wanted[q][h] = Wanted[r][g]

VARIABLES
    advisory,  \* who holds pg_advisory_lock(4242)
    applied,   \* schema_migrations: the versions whose statements took effect
    boots,     \* each process: start, locked, apply, conflict or up, and its place in its list
    snapshot,  \* what each process read of schema_migrations
    gfaults

mvars == <<advisory, applied, boots, snapshot, gfaults>>

At(phase, i) == [phase |-> phase, i |-> i]

MigrationsInit ==
    /\ advisory = NoReplica /\ gfaults = 0 /\ applied = {}
    /\ boots = [r \in Replicas |-> At("start", 0)]
    /\ snapshot = [r \in Replicas |-> {}]

GFault == gfaults < GMaxFaults /\ gfaults' = gfaults + 1
BootTo(r, b) == boots' = [boots EXCEPT ![r] = b]

\* pg_advisory_lock waits for its holder.
LockSession(r) ==
    /\ boots[r].phase = "start" /\ advisory = NoReplica
    /\ advisory' = r
    /\ BootTo(r, At("locked", 0))
    /\ UNCHANGED <<applied, snapshot, gfaults>>

MutLoadApplied(r) ==
    /\ boots[r].phase = "locked"
    /\ snapshot' = [snapshot EXCEPT ![r] = 1..Max(applied \union {0})]
    /\ BootTo(r, At("apply", 1))
    /\ UNCHANGED <<advisory, applied, gfaults>>

\* loadApplied, after the table was made.
LoadApplied(r) ==
    /\ boots[r].phase = "locked"
    /\ snapshot' = [snapshot EXCEPT ![r] = applied]
    /\ BootTo(r, At("apply", 1))
    /\ UNCHANGED <<advisory, applied, gfaults>>

\* The deferred unlock, on every way out; a lost session frees the lock as well.
Release(r) == advisory' = IF advisory = r THEN NoReplica ELSE advisory

\* The statements and the record in one transaction; the record's key refuses a version
\* that somebody else has recorded since, and the process does not start.
ApplyOne(r) ==
    LET i == boots[r].i
        v == Wanted[r][i]
    IN
    /\ boots[r].phase = "apply" /\ i <= Len(Wanted[r])
    /\ IF v \in applied \ snapshot[r]
       THEN BootTo(r, At("conflict", i)) /\ Release(r) /\ UNCHANGED applied
       ELSE BootTo(r, At("apply", i + 1)) /\ applied' = applied \union ({v} \ snapshot[r]) /\ UNCHANGED advisory
    /\ UNCHANGED <<snapshot, gfaults>>

\* The list is done: the process goes on with its start.
MigrateDone(r) ==
    /\ boots[r].phase = "apply" /\ boots[r].i > Len(Wanted[r])
    /\ BootTo(r, At("up", 0)) /\ Release(r)
    /\ UNCHANGED <<applied, snapshot, gfaults>>

\* A statement fails, or the process dies; either way the transaction is rolled back and the
\* process is started again.
MigrateFails(r) ==
    /\ boots[r].phase \in {"locked", "apply"} /\ GFault
    /\ BootTo(r, At("start", 0)) /\ Release(r)
    /\ snapshot' = [snapshot EXCEPT ![r] = {}]
    /\ UNCHANGED applied

MigrationsNext ==
    \E r \in Replicas : LockSession(r) \/ LoadApplied(r) \/ ApplyOne(r) \/ MigrateDone(r) \/ MigrateFails(r)

MigrationsSpec == MigrationsInit /\ [][MigrationsNext]_mvars

\* Some process that can go on does; which one the lock picks does not matter.
BootFair == \E r \in Replicas : LockSession(r) \/ LoadApplied(r) \/ ApplyOne(r) \/ MigrateDone(r)

-----------------------------------------------------------------------------
(* Properties *)

\* Executables that start together, with lists that overlap, never get in each other's
\* way: none meets a version that another recorded behind its back.
NoBootConflict == \A r \in Replicas : boots[r].phase # "conflict"

\* Whoever died in the middle, a version takes effect on top of the versions before it in
\* every list that has it.
AppliedOnBase ==
    \A r \in Replicas : \A i \in DOMAIN Wanted[r] :
        Wanted[r][i] \in applied => \A h \in 1..i : Wanted[r][h] \in applied

\* Whoever has the lock, every process comes up in the end, and with all of its own
\* versions, though a later one of another list may be in already.
EveryReplicaBoots ==
    (advisory # NoReplica) ~> \A r \in Replicas : boots[r].phase = "up" /\ ToSet(Wanted[r]) \subseteq applied
=============================================================================
