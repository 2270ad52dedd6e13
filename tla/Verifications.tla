--------------------------- MODULE Verifications ----------------------------
(* Proofs that a domain is its owner's (proxy/dns, proxy/recovery): one row a  *)
(* domain in proxy_domain_verifications, which requests set to pending and the *)
(* reconcilers' passes check against DNS.                                     *)
EXTENDS Naturals, FiniteSets, Rows

CONSTANTS
    VDomains,   \* domains
    Checkers,   \* reconcilers
    VMaxCalls,  \* bound on requests
    VMaxPasses, \* bound on passes
    VMaxFaults  \* bound on failing statements and restarts

VARIABLES
    vrows,    \* proxy_domain_verifications
    zone,     \* challenges that are published: pairs of a domain and a kind of value
    checks,   \* each reconciler's pass: the rows left, the row at hand and the answer
    seen,     \* challenges that a check saw
    outdated, \* domains whose row was written while a check had it
    vcalls, vpasses, vfaults

vvars == <<vrows, zone, checks, seen, outdated, vcalls, vpasses, vfaults>>

Methods == {"txt", "cname", "a"}
VerificationRow == [method : Methods, status : {"pending", "verified"}, waits : BOOLEAN, hosted : BOOLEAN]

\* What a pass keeps of a row it has listed.
ListedRow == [domain : VDomains, method : Methods, hosted : BOOLEAN]

ASSUME VerificationsAssumption == NoRow \notin VerificationRow \union ListedRow \union Checkers

NoPass == [at |-> "idle", todo |-> {}, row |-> NoRow, found |-> FALSE]

VerificationsInit ==
    /\ vrows = [d \in VDomains |-> NoRow]
    /\ zone = {} /\ seen = {} /\ outdated = {}
    /\ checks = [c \in Checkers |-> NoPass]
    /\ vcalls = 0 /\ vpasses = 0 /\ vfaults = 0

VFault == vfaults < VMaxFaults /\ vfaults' = vfaults + 1

\* Checks that hold a copy of the row.
Holds(c, d) == \E r \in checks[c].todo \union ({checks[c].row} \ {NoRow}) : r.domain = d

\* The row is written: the other copies of it are outdated.
Writes(c, d) == outdated' = IF \E b \in Checkers \ {c} : Holds(b, d) THEN outdated \union {d} ELSE outdated

\* UpsertVerification: the hostname is that of the first request.
UpsertVerification(d, method, hosted) ==
    vrows' = [vrows EXCEPT ![d] = [method |-> method, status |-> "pending", waits |-> FALSE,
                                   hosted |-> IF @ = NoRow THEN hosted ELSE @.hosted]]

\* MarkVerified and MarkVerificationFailed, by id: whatever the row has become.
MarkVerified(d) == vrows' = [vrows EXCEPT ![d].status = "verified"]
MarkVerificationFailed(d) == vrows' = [vrows EXCEPT ![d].status = "pending", ![d].waits = TRUE]

\* DomainVerifyRequest: the row becomes pending with the challenge of the method. The
\* domain worker gives no hostname.
DomainVerifyRequest(d, method, hosted) ==
    /\ vcalls < VMaxCalls /\ vcalls' = vcalls + 1
    /\ UpsertVerification(d, method, hosted)
    /\ Writes(NoRow, d)
    /\ UNCHANGED <<zone, checks, seen, vpasses, vfaults>>

\* ListPendingVerifications: pending, and not tried in the last two minutes.
Pending == {d \in VDomains : vrows[d] # NoRow /\ vrows[d].status = "pending" /\ ~vrows[d].waits}

\* reconcileVerifications begins.
StartsPass(c) ==
    /\ checks[c] = NoPass /\ Pending # {} /\ vpasses < VMaxPasses /\ vpasses' = vpasses + 1
    /\ checks' = [checks EXCEPT ![c] = [NoPass EXCEPT !.at = "next",
                    !.todo = {[domain |-> d, method |-> vrows[d].method, hosted |-> vrows[d].hosted] : d \in Pending}]]
    /\ UNCHANGED <<vrows, zone, seen, outdated, vcalls, vfaults>>

MutVerified(r) == r.hosted

\* GenerateChallenge: for an address record it is no address.
GenerateChallenge(method) == IF method \in {"txt", "cname"} THEN method ELSE "bare"

\* verifyTXT, on the domain or under _agnivo-challenge.
VerifyTXT(r) == <<r.domain, GenerateChallenge(r.method)>> \in zone

\* verifyCNAME: the target is the challenge or ends in it.
VerifyCNAME(r) == <<r.domain, GenerateChallenge(r.method)>> \in zone

\* verifyA, verifyAAAA: an address of the host is the challenge.
VerifyAddress(r) == <<r.domain, GenerateChallenge(r.method)>> \in zone

\* Verify; nothing is found without a hostname.
Verified(r) ==
    /\ r.hosted
    /\ \/ r.method = "txt" /\ VerifyTXT(r)
       \/ r.method = "cname" /\ VerifyCNAME(r)
       \/ r.method = "a" /\ VerifyAddress(r)

LooksUp(c) ==
    /\ checks[c].at = "next"
    /\ \E r \in checks[c].todo :
        /\ checks' = [checks EXCEPT ![c] = [at |-> "mark", todo |-> @.todo \ {r}, row |-> r, found |-> Verified(r)]]
        /\ seen' = IF <<r.domain, r.method>> \in zone THEN seen \union {<<r.domain, r.method>>} ELSE seen
    /\ UNCHANGED <<vrows, zone, outdated, vcalls, vpasses, vfaults>>

\* The lookup times out or finds nothing, although the challenge may be published.
LookupFails(c) ==
    /\ checks[c].at = "next" /\ VFault
    /\ \E r \in checks[c].todo :
        checks' = [checks EXCEPT ![c] = [at |-> "mark", todo |-> @.todo \ {r}, row |-> r, found |-> FALSE]]
    /\ UNCHANGED <<vrows, zone, seen, outdated, vcalls, vpasses>>

NextRow(c) == checks' = [checks EXCEPT ![c] = IF @.todo = {} THEN NoPass ELSE [NoPass EXCEPT !.at = "next", !.todo = checks[c].todo]]

\* What the pass records of a row.
MarksRow(c) ==
    /\ checks[c].at = "mark"
    /\ IF checks[c].found THEN MarkVerified(checks[c].row.domain) ELSE MarkVerificationFailed(checks[c].row.domain)
    /\ Writes(c, checks[c].row.domain) /\ NextRow(c)
    /\ UNCHANGED <<zone, seen, vcalls, vpasses, vfaults>>

\* The statement fails; the pass goes on.
MarkFails(c) ==
    /\ checks[c].at = "mark" /\ VFault /\ NextRow(c)
    /\ UNCHANGED <<vrows, zone, seen, outdated, vcalls, vpasses>>

\* The process stops in the middle of a pass.
CheckerStops(c) ==
    /\ checks[c] # NoPass /\ VFault
    /\ checks' = [checks EXCEPT ![c] = NoPass]
    /\ UNCHANGED <<vrows, zone, seen, outdated, vcalls, vpasses>>

\* Two minutes pass after a failed attempt.
RetryDue(d) ==
    /\ vrows[d] # NoRow /\ vrows[d].waits
    /\ vrows' = [vrows EXCEPT ![d].waits = FALSE]
    /\ UNCHANGED <<zone, checks, seen, outdated, vcalls, vpasses, vfaults>>

\* The owner publishes or withdraws a record.
OwnerEdits(d, method) ==
    /\ zone' = IF <<d, method>> \in zone THEN zone \ {<<d, method>>} ELSE zone \union {<<d, method>>}
    /\ UNCHANGED <<vrows, checks, seen, outdated, vcalls, vpasses, vfaults>>

VerificationsNext ==
    \/ \E d \in VDomains :
        \/ RetryDue(d)
        \/ \E method \in Methods, hosted \in BOOLEAN : DomainVerifyRequest(d, method, hosted)
        \/ \E method \in {"txt", "cname"} : OwnerEdits(d, method)
    \/ \E c \in Checkers :
        StartsPass(c) \/ LooksUp(c) \/ LookupFails(c) \/ MarksRow(c) \/ MarkFails(c) \/ CheckerStops(c)

-----------------------------------------------------------------------------
(* Properties *)

\* The rows are those that the verification statements write; challenges are of known domains.
VerificationsTypeOK ==
    /\ \A d \in VDomains : vrows[d] # NoRow => vrows[d] \in VerificationRow
    /\ zone \subseteq VDomains \X Methods /\ seen \subseteq VDomains \X Methods

\* A verified domain has a hostname, and the challenge of its row was seen in DNS, unless
\* the row was requested anew while a check had it.
VerifiedSeen ==
    \A d \in VDomains :
        (vrows[d] # NoRow /\ vrows[d].status = "verified")
            => vrows[d].hosted /\ (<<d, vrows[d].method>> \in seen \/ d \in outdated)
=============================================================================
