---------------------------- MODULE Certificates ----------------------------
(* Certificates (proxy/cert): one row a hostname in proxy_certificates, and    *)
(* Caddy's automation list, which AutomateCert and RevokeCert read and write   *)
(* back in two requests. The protocol itself is Caddy's; its results come in   *)
(* as reports.                                                                *)
EXTENDS Naturals, FiniteSets, Rows

CONSTANTS
    CertHosts,  \* hostnames
    Issuers,    \* requests, and the passes of the reconcilers
    IMaxCalls,  \* bound on requests and passes
    IMaxFaults  \* bound on failing requests to Caddy, statements and restarts

VARIABLES
    certs,     \* proxy_certificates
    automate,  \* Caddy's list of hostnames
    reports,   \* hostnames whose certificate Caddy has obtained, not recorded yet
    ireqs,     \* what each request or pass is doing
    upset,     \* hostnames that a write of an outdated list dropped, whose step failed, or
               \* whose certificate a report revived after it was revoked or had failed
    crossed,   \* hostnames that two requests or passes worked on at once
    icalls, ifaults

ivars == <<certs, automate, reports, ireqs, upset, crossed, icalls, ifaults>>

CertStatuses == {"issuing", "active", "renewing", "expired", "revoked", "failed"}
Ages == {"undated", "fresh", "due", "past"}
CertRow == [status : CertStatuses, age : Ages]

ASSUME CertsAssumption == NoRow \notin CertRow /\ NoRow \notin CertHosts

IIdle == [at |-> "idle", op |-> "none", host |-> NoRow, list |-> {}, todo |-> {}]

CertsInit ==
    /\ certs = [h \in CertHosts |-> NoRow]
    /\ automate = {} /\ reports = {}
    /\ ireqs = [a \in Issuers |-> IIdle]
    /\ upset = {} /\ crossed = {} /\ icalls = 0 /\ ifaults = 0

IFault == ifaults < IMaxFaults /\ ifaults' = ifaults + 1
ICall(a) == ireqs[a] = IIdle /\ icalls < IMaxCalls /\ icalls' = icalls + 1
Goes(a, at, list) == ireqs' = [ireqs EXCEPT ![a].at = at, ![a].list = list]

\* A request is over; a pass goes on with the next hostname it listed.
Resumes(a) == ireqs' = [ireqs EXCEPT ![a] = IF @.todo = {} THEN IIdle ELSE [@ EXCEPT !.at = "next", !.host = NoRow, !.list = {}]]

\* A pass has done what it could for a hostname it listed.
PassesOver(a, h) == ireqs' = [ireqs EXCEPT ![a] = IF @.todo = {h} THEN IIdle ELSE [@ EXCEPT !.todo = ireqs[a].todo \ {h}]]

WorksOn(a, h) == ireqs[a].host = h \/ h \in ireqs[a].todo
Crosses(hosts) == crossed' = crossed \union {h \in hosts : \E a \in Issuers : WorksOn(a, h)}

\* UpsertCertificate with what RequestCert gives: no dates.
UpsertCertificate(h) == certs' = [certs EXCEPT ![h] = [status |-> "issuing", age |-> "undated"]]

\* SetCertStatus, by id: whatever the row has become.
SetCertStatus(h, status) == certs' = [certs EXCEPT ![h].status = status]

\* SetCertIssued, by the id that GetCertByHostname found.
SetCertIssued(h) == certs' = IF certs[h] = NoRow THEN certs ELSE [certs EXCEPT ![h] = [status |-> "active", age |-> "fresh"]]

-----------------------------------------------------------------------------
(* Caddy's list *)

\* A list that needs no change.
InPlace(q) == (q.host \in automate) = (q.op # "revoke")

\* The first half of AutomateCert and RevokeCert. An error reads as an empty list for the
\* one and ends the other, as does a list that needs no change.
ReadList(a) ==
    /\ ireqs[a].at = "read"
    /\ LET q == ireqs[a]
           done == IF q.op = "revoke" THEN Goes(a, "revoked", {}) ELSE Resumes(a)
       IN  \/ /\ IF InPlace(q) THEN done ELSE Goes(a, "write", automate)
              /\ UNCHANGED ifaults
           \/ IFault /\ IF q.op = "revoke" THEN done ELSE Goes(a, "write", {})
    /\ UNCHANGED <<certs, automate, reports, upset, crossed, icalls>>

MutWritten(q) == IF q.op = "revoke" THEN q.list \ {q.host} ELSE {q.host}

\* The list as it is written back.
Written(q) == IF q.op = "revoke" THEN q.list \ {q.host} ELSE q.list \union {q.host}

\* The second half. A failed write fails a request; renewals and revocations log it.
WriteList(a) ==
    /\ ireqs[a].at = "write"
    /\ LET q == ireqs[a] IN
       \/ /\ automate' = Written(q)
          /\ upset' = upset \union (automate \ q.list)
          /\ IF q.op = "revoke" THEN Goes(a, "revoked", {}) ELSE Resumes(a)
          /\ UNCHANGED ifaults
       \/ /\ IFault /\ upset' = upset \union {q.host} /\ UNCHANGED automate
          /\ IF q.op = "renew" THEN Resumes(a)
             ELSE Goes(a, IF q.op = "revoke" THEN "revoked" ELSE "failed", {})
    /\ UNCHANGED <<certs, reports, crossed, icalls>>

-----------------------------------------------------------------------------
(* Operations *)

Starts(a, op, h, todo, at) == ireqs' = [ireqs EXCEPT ![a] = [at |-> at, op |-> op, host |-> h, list |-> {}, todo |-> todo]]

\* RequestCert: the row, new or not, becomes issuing and loses its dates. The domain
\* worker's requests have no hostname and are refused.
RequestCert(a, h) ==
    /\ ICall(a)
    /\ UpsertCertificate(h)
    /\ Starts(a, "request", h, {}, "read") /\ Crosses({h})
    /\ UNCHANGED <<automate, reports, upset, ifaults>>

\* The write failed: the row becomes failed, if that statement does not fail too.
FailCert(a) ==
    /\ ireqs[a].at = "failed"
    /\ \/ SetCertStatus(ireqs[a].host, "failed") /\ UNCHANGED ifaults
       \/ IFault /\ UNCHANGED certs
    /\ Resumes(a)
    /\ UNCHANGED <<automate, reports, upset, crossed, icalls>>

\* ListCertsDueForRenewal.
DueForRenewal == {h \in CertHosts : certs[h] # NoRow /\ certs[h].status = "active" /\ certs[h].age \in {"due", "past"}}

\* ReconcileRenewals, from the reconciler's loop.
ReconcileRenewals(a) ==
    /\ ICall(a) /\ DueForRenewal # {}
    /\ Starts(a, "renew", NoRow, DueForRenewal, "next") /\ Crosses(DueForRenewal)
    /\ UNCHANGED <<certs, automate, reports, upset, ifaults>>

\* RenewCert of a listed row, in the order of the dates: the status, then the list.
RenewCert(a) ==
    /\ ireqs[a].at = "next" /\ ireqs[a].op = "renew"
    /\ \E h \in ireqs[a].todo :
        \/ /\ SetCertStatus(h, "renewing")
           /\ Starts(a, "renew", h, ireqs[a].todo \ {h}, "read")
           /\ UNCHANGED ifaults
        \/ /\ IFault /\ UNCHANGED certs
           /\ PassesOver(a, h)
    /\ UNCHANGED <<automate, reports, upset, crossed, icalls>>

\* ReconcileExpired, after the renewals: of the listed rows, those past their date.
ReconcileExpired(a) ==
    LET past == {h \in DueForRenewal : certs[h].age = "past"} IN
    /\ ICall(a) /\ past # {}
    /\ Starts(a, "expire", NoRow, past, "next") /\ Crosses(past)
    /\ UNCHANGED <<certs, automate, reports, upset, ifaults>>

ExpireCert(a) ==
    /\ ireqs[a].at = "next" /\ ireqs[a].op = "expire"
    /\ \E h \in ireqs[a].todo :
        /\ \/ SetCertStatus(h, "expired") /\ UNCHANGED ifaults
           \/ IFault /\ UNCHANGED certs
        /\ PassesOver(a, h)
    /\ UNCHANGED <<automate, reports, upset, crossed, icalls>>

\* RevokeCert: Caddy's list first, then the status.
RevokeCert(a, h) ==
    /\ ICall(a) /\ certs[h] # NoRow
    /\ Starts(a, "revoke", h, {}, "read") /\ Crosses({h})
    /\ UNCHANGED <<certs, automate, reports, upset, ifaults>>

MarkRevoked(a) ==
    /\ ireqs[a].at = "revoked"
    /\ \/ SetCertStatus(ireqs[a].host, "revoked") /\ UNCHANGED <<upset, ifaults>>
       \/ IFault /\ upset' = upset \union {ireqs[a].host} /\ UNCHANGED certs
    /\ Resumes(a)
    /\ UNCHANGED <<automate, reports, crossed, icalls>>

\* Caddy obtains a certificate for a hostname of its list; the report may be late.
CaddyObtains(h) ==
    /\ h \in automate \ reports
    /\ reports' = reports \union {h}
    /\ UNCHANGED <<certs, automate, ireqs, upset, crossed, icalls, ifaults>>

\* MarkIssued: the row of the hostname, if any, becomes active with new dates.
MarkIssued(h) ==
    /\ h \in reports /\ reports' = reports \ {h}
    /\ SetCertIssued(h)
    /\ upset' = IF certs[h] # NoRow /\ certs[h].status \in {"revoked", "failed"} THEN upset \union {h} ELSE upset
    /\ UNCHANGED <<automate, ireqs, crossed, icalls, ifaults>>

\* The renewal date passes, then the expiry.
CertAges(h) ==
    /\ certs[h] # NoRow /\ certs[h].age \in {"fresh", "due"}
    /\ certs' = [certs EXCEPT ![h].age = IF @ = "fresh" THEN "due" ELSE "past"]
    /\ UNCHANGED <<automate, reports, ireqs, upset, crossed, icalls, ifaults>>

\* The process stops: what it was doing is not taken up again.
IssuerStops(a) ==
    /\ ireqs[a] # IIdle /\ IFault
    /\ ireqs' = [ireqs EXCEPT ![a] = IIdle]
    /\ upset' = upset \union {h \in CertHosts : WorksOn(a, h)}
    /\ UNCHANGED <<certs, automate, reports, crossed, icalls>>

CertsNext ==
    \/ \E h \in CertHosts : CaddyObtains(h) \/ MarkIssued(h) \/ CertAges(h)
    \/ \E a \in Issuers :
        \/ ReadList(a) \/ WriteList(a) \/ FailCert(a) \/ ReconcileRenewals(a) \/ RenewCert(a)
        \/ ReconcileExpired(a) \/ ExpireCert(a) \/ MarkRevoked(a) \/ IssuerStops(a)
        \/ \E h \in CertHosts : RequestCert(a, h) \/ RevokeCert(a, h)

-----------------------------------------------------------------------------
(* Properties *)

\* The rows are those that cert.Manager writes, and the lists in flight are lists of hostnames.
CertsTypeOK ==
    /\ \A h \in CertHosts : certs[h] # NoRow => certs[h] \in CertRow
    /\ automate \subseteq CertHosts /\ reports \subseteq CertHosts
    /\ \A a \in Issuers : ireqs[a].todo \subseteq CertHosts /\ ireqs[a].list \subseteq CertHosts

\* A certificate that is awaited, valid or renewed is in Caddy's list once its request is
\* over, unless a write of an outdated list dropped it, a step failed, two requests worked
\* on it, or a late report revived it.
Automated ==
    \A h \in CertHosts :
        (certs[h] # NoRow /\ certs[h].status \in {"issuing", "active", "renewing"})
            => \/ h \in automate \/ h \in upset \union crossed
               \/ \E a \in Issuers : WorksOn(a, h)
=============================================================================
