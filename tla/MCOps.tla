-------------------------------- MODULE MCOps --------------------------------
(* The operations modules and the platform's limiters side by side: a behaviour *)
(* is one of any of them, so the run explores the sum of their state spaces.     *)
EXTENDS Billing, Metering, Notifications, Backups, SleepWake, CircuitBreaker, TokenBucket, TLC

VARIABLE part

MCInit ==
    /\ part \in {"billing", "metering", "notes", "backups", "sleep", "breaker", "bucket"}
    /\ BillingInit /\ MeteringInit /\ NotesInit /\ BackupsInit /\ SleepInit /\ BreakerInit /\ BucketInit

allvars == <<part, bvars, uvars, nvars, bkvars, swvars, cbvars, tbvars>>

MCNext ==
    \/ part = "billing" /\ BillingNext /\ UNCHANGED <<part, uvars, nvars, bkvars, swvars, cbvars, tbvars>>
    \/ part = "metering" /\ MeteringNext /\ UNCHANGED <<part, bvars, nvars, bkvars, swvars, cbvars, tbvars>>
    \/ part = "notes" /\ NotesNext /\ UNCHANGED <<part, bvars, uvars, bkvars, swvars, cbvars, tbvars>>
    \/ part = "backups" /\ BackupsNext /\ UNCHANGED <<part, bvars, uvars, nvars, swvars, cbvars, tbvars>>
    \/ part = "sleep" /\ SleepNext /\ UNCHANGED <<part, bvars, uvars, nvars, bkvars, cbvars, tbvars>>
    \/ part = "breaker" /\ BreakerNext /\ UNCHANGED <<part, bvars, uvars, nvars, bkvars, swvars, tbvars>>
    \/ part = "bucket" /\ BucketNext /\ UNCHANGED <<part, bvars, uvars, nvars, bkvars, swvars, cbvars>>

MCSpec == MCInit /\ [][MCNext]_allvars

\* The parts share these values, so that one group serves them all.
MCSymmetry == Permutations(Billers) \cup Permutations(NoteIds)
=============================================================================
