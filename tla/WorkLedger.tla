----------------------------- MODULE WorkLedger -----------------------------
(***************************************************************************)
(* What the job queue promises its producers, without rows, leases,        *)
(* workers or time: a ledger of the work that was handed in.  Work is kept *)
(* open until a handler has returned nil for it or its tries are used up,  *)
(* every hand-out counts as a try, and only settled work is discarded.     *)
(* A report that comes late may reopen work that was done, as long as      *)
(* tries are left; that is the at-least-once half of the promise.          *)
(***************************************************************************)
EXTENDS Naturals

CONSTANTS
    Work,   \* what producers hand in
    Tags,   \* their idempotency keys,
    NoTag,  \* or none
    Limit   \* the tries of each piece of work

VARIABLES
    ledger,   \* absent, open, done, dead or gone
    tag,      \* the key it was handed in under
    tries,    \* how often it was handed out
    returned  \* what a handler has returned nil for

lvars == <<ledger, tag, tries, returned>>

Kept(i) == ledger[i] \in {"open", "done", "dead"}

LedgerInit ==
    /\ ledger = [i \in Work |-> "absent"]
    /\ tag = [i \in Work |-> NoTag]
    /\ tries = [i \in Work |-> 0]
    /\ returned = {}

\* Work is accepted under a key that nothing kept has.
Submit(i, k) ==
    /\ ledger[i] = "absent"
    /\ k # NoTag => \A h \in Work : Kept(h) => tag[h] # k
    /\ ledger' = [ledger EXCEPT ![i] = "open"]
    /\ tag' = [tag EXCEPT ![i] = k]
    /\ UNCHANGED <<tries, returned>>

\* Open work is handed out, again and again if need be.
HandOut(S) ==
    /\ \A i \in S : ledger[i] = "open"
    /\ tries' = [i \in Work |-> IF i \in S THEN tries[i] + 1 ELSE tries[i]]
    /\ UNCHANGED <<ledger, tag, returned>>

\* A handler returns nil; the report arrives, or it does not.
Returned(i) == returned' = returned \cup {i}

Succeed(i) ==
    /\ Kept(i)
    /\ ledger' = [ledger EXCEPT ![i] = "done"]
    /\ Returned(i)
    /\ UNCHANGED <<tag, tries>>

SucceedUnreported(i) == Returned(i) /\ UNCHANGED <<ledger, tag, tries>>

\* A failure is reported.
Refuse(i) ==
    /\ Kept(i)
    /\ ledger' = [ledger EXCEPT ![i] = IF tries[i] >= Limit[i] THEN "dead" ELSE "open"]
    /\ UNCHANGED <<tag, tries, returned>>

Discard(i) ==
    /\ ledger[i] \in {"done", "dead"}
    /\ ledger' = [ledger EXCEPT ![i] = "gone"]
    /\ UNCHANGED <<tag, tries, returned>>

LedgerNext ==
    \/ \E i \in Work :
        \/ \E k \in Tags \cup {NoTag} : Submit(i, k)
        \/ Succeed(i) \/ SucceedUnreported(i) \/ Refuse(i) \/ Discard(i)
    \/ \E S \in SUBSET Work : HandOut(S)

LedgerSpec == LedgerInit /\ [][LedgerNext]_lvars
=============================================================================
