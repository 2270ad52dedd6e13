------------------------------- MODULE Billing -------------------------------
(* The billing engine (ops/billing) for one organization: its row in            *)
(* ops_subscriptions, credits and invoices, and what the payment provider was    *)
(* told. Operations read the row, call the provider and write all its columns.  *)
EXTENDS Naturals, Sequences, FiniteSets, Rows

CONSTANTS
    Billers,       \* calls served at the same time
    Plans,         \* ops_plans without "free"
    Amounts,       \* what invoices are made out for
    Grants,        \* credits that are granted
    MaxBillingDay, \* bound on the clock
    Intervals,     \* billing intervals, of "monthly" and "yearly"
    MaxSubs,       \* bound on subscriptions made at the provider
    MaxCredit,     \* bound on credit grants
    MaxInvoices    \* bound on invoices

VARIABLES
    bday,     \* the clock
    sub,      \* the row of ops_subscriptions
    prov,     \* subscriptions at the provider: plan, and whether it is live
    granted,  \* ops_credits: amounts granted; used_cents is never written
    invoices, \* ops_invoices
    breqs,    \* running calls: the row they read, whether it was overwritten since
    torn      \* a call wrote an overwritten row, or stopped after the provider answered

bvars == <<bday, sub, prov, granted, invoices, breqs, torn>>

SubStatus == {"active", "trialing", "canceled", "grace_period"}
SubRow == [plan : Plans \cup {"free"}, status : SubStatus, interval : {"monthly", "yearly"}, sid : 0..MaxSubs, start : Nat, end : Nat]
Invoice == [start : Nat, end : Nat, amount : Nat, credits : Nat, total : Nat]

ASSUME BillingAssumption == MaxSubs \in Nat /\ Intervals \subseteq {"monthly", "yearly"} /\ NoRow \notin SubRow

BIdle == [op |-> "idle"]

BillingInit ==
    /\ bday = 0 /\ sub = NoRow /\ prov = <<>> /\ granted = 0 /\ invoices = {}
    /\ breqs = [w \in Billers |-> BIdle] /\ torn = FALSE

NextPeriodEnd(from, interval) == from + (IF interval = "yearly" THEN 3 ELSE 1)

\* UpsertSubscription: the row is keyed by the organization, and every column is written.
UpsertSubscription(row) == sub' = row

\* The other calls now hold a row that is no longer in the table.
Outdated(w) == [v \in Billers |-> IF v # w /\ breqs[v] # BIdle THEN [breqs[v] EXCEPT !.stale = TRUE] ELSE breqs[v]]

\* CreateCustomer, CreateSubscription, and a row with a period from now.
Subscribe(w, plan, interval, trial) ==
    /\ breqs[w] = BIdle /\ Len(prov) < MaxSubs
    /\ prov' = Append(prov, [plan |-> plan, live |-> TRUE])
    /\ UpsertSubscription([plan |-> plan, status |-> IF trial THEN "trialing" ELSE "active", interval |-> interval,
                           sid |-> Len(prov) + 1, start |-> bday, end |-> NextPeriodEnd(bday, interval)])
    /\ breqs' = Outdated(w)
    /\ UNCHANGED <<bday, granted, invoices, torn>>

\* ensureFreeSubscription: ChangePlan found no row.
EnsureFreeSubscription(w) ==
    /\ breqs[w].op = "plan" /\ breqs[w].at = "provider" /\ breqs[w].row = NoRow
    /\ LET row == [plan |-> "free", status |-> "active", interval |-> "monthly", sid |-> 0,
                   start |-> bday, end |-> NextPeriodEnd(bday, "monthly")] IN
       /\ UpsertSubscription(row)
       /\ breqs' = [Outdated(w) EXCEPT ![w].row = row, ![w].stale = FALSE]
    /\ torn' = (torn \/ breqs[w].stale)
    /\ UNCHANGED <<bday, prov, granted, invoices>>

\* ListSubscriptionsDueForRenewal: active rows whose period ends within a day.
DueForRenewal(row) == row # NoRow /\ row.status = "active" /\ row.end <= bday + 1

\* What the columns become; only these two calls have a provider's step.
NewRow(q) ==
    CASE q.op = "plan"   -> [q.row EXCEPT !.plan = q.arg]
      [] q.op = "cancel" -> [q.row EXCEPT !.status = IF q.arg THEN "grace_period" ELSE "canceled"]
      [] q.op = "renew"  -> [q.row EXCEPT !.start = bday, !.end = NextPeriodEnd(bday, q.row.interval), !.status = "active"]
      [] OTHER           -> [q.row EXCEPT !.status = "canceled", !.plan = "free"]

\* GetSubscription, or the list that the caller of RenewSubscription and
\* ProcessGraceExpiry took the row from.
GetSubscription(w, op, arg) ==
    /\ breqs[w] = BIdle
    /\ CASE op = "plan" -> TRUE [] op = "renew" -> DueForRenewal(sub)
         [] op = "expire" -> sub # NoRow /\ sub.status = "grace_period" [] OTHER -> sub # NoRow
    /\ breqs' = [breqs EXCEPT ![w] = [op |-> op, arg |-> arg, row |-> sub, stale |-> FALSE,
                                     at |-> IF op \in {"plan", "cancel"} THEN "provider" ELSE "write"]]
    /\ UNCHANGED <<bday, sub, prov, granted, invoices, torn>>

MutCallProvider(w) ==
    /\ breqs[w] # BIdle /\ breqs[w].at = "provider" /\ breqs[w].row # NoRow
    /\ breqs' = [breqs EXCEPT ![w].at = "write"]
    /\ UNCHANGED <<bday, sub, prov, granted, invoices, torn>>

\* UpdateSubscription or CancelSubscription of the row's subscription, if it has one.
CallProvider(w) ==
    /\ breqs[w] # BIdle /\ breqs[w].at = "provider" /\ breqs[w].row # NoRow
    /\ LET q == breqs[w] IN
       prov' = IF q.row.sid = 0 THEN prov
               ELSE IF q.op = "plan" THEN [prov EXCEPT ![q.row.sid].plan = q.arg]
               ELSE [prov EXCEPT ![q.row.sid].live = FALSE]
    /\ breqs' = [breqs EXCEPT ![w].at = "write"]
    /\ UNCHANGED <<bday, sub, granted, invoices, torn>>

WriteSubscription(w) ==
    /\ breqs[w] # BIdle /\ breqs[w].at = "write" /\ breqs[w].op # "invoice"
    /\ UpsertSubscription(NewRow(breqs[w]))
    /\ torn' = (torn \/ breqs[w].stale)
    /\ breqs' = [Outdated(w) EXCEPT ![w] = BIdle]
    /\ UNCHANGED <<bday, prov, granted, invoices>>

\* The database or the provider fails, or the process dies.
BillingCallFails(w) ==
    /\ breqs[w] # BIdle
    /\ torn' = (torn \/ breqs[w].at = "write")
    /\ breqs' = [breqs EXCEPT ![w] = BIdle]
    /\ UNCHANGED <<bday, sub, prov, granted, invoices>>

AddCredit(amount) ==
    /\ amount > 0 /\ granted + amount <= MaxCredit
    /\ granted' = granted + amount
    /\ UNCHANGED <<bday, sub, prov, invoices, breqs, torn>>

\* min64 of the available credits and the amount.
Applied(credits, amount) == IF credits < amount THEN credits ELSE amount

\* GenerateInvoice: the credits are read after the row, none when that fails, and the
\* invoice is inserted without a look at the ones of the same period.
GenerateInvoice(w) ==
    /\ breqs[w].op = "invoice" /\ Cardinality(invoices) < MaxInvoices
    /\ \E credits \in {granted, 0} :
        LET q == breqs[w]
            applied == Applied(credits, q.arg)
        IN  invoices' = invoices \cup {[start |-> q.row.start, end |-> q.row.end, amount |-> q.arg, credits |-> applied,
                                       total |-> IF q.arg < applied THEN 0 ELSE q.arg - applied]}
    /\ breqs' = [breqs EXCEPT ![w] = BIdle]
    /\ UNCHANGED <<bday, sub, prov, granted, torn>>

BillingDay == bday < MaxBillingDay /\ bday' = bday + 1 /\ UNCHANGED <<sub, prov, granted, invoices, breqs, torn>>

\* handleBillingCycle asks for an invoice of 0; other callers give the amount.
BillingNext ==
    \/ BillingDay
    \/ \E a \in Grants : AddCredit(a)
    \/ \E w \in Billers :
        \/ \E p \in Plans, i \in Intervals, t \in BOOLEAN : Subscribe(w, p, i, t)
        \/ \E p \in Plans \cup {"free"} : GetSubscription(w, "plan", p)
        \/ \E grace \in BOOLEAN : GetSubscription(w, "cancel", grace)
        \/ \E op \in {"renew", "expire"} : GetSubscription(w, op, 0)
        \/ \E a \in Amounts : GetSubscription(w, "invoice", a)
        \/ EnsureFreeSubscription(w) \/ CallProvider(w) \/ WriteSubscription(w) \/ GenerateInvoice(w) \/ BillingCallFails(w)

BillingSpec == BillingInit /\ [][BillingNext]_bvars

-----------------------------------------------------------------------------
(* Properties *)

\* The provider charges for the plan in the row: they differ only while a plan is being
\* changed, or after a call wrote an overwritten row or stopped half way.
PlanAtProvider ==
    (sub # NoRow /\ sub.sid # 0 /\ sub.status \in {"active", "trialing"} /\ ~torn /\ \A w \in Billers : breqs[w] = BIdle)
    => prov[sub.sid].plan = sub.plan
=============================================================================
