------------------------------- MODULE Domains -------------------------------
(* Domains of projects (controlplane/domain): the primary flag of the others    *)
(* is cleared in one statement, and the domain inserted in the next.            *)
EXTENDS Naturals, FiniteSets, Rows

CONSTANTS
    DomainIds,  \* rows
    Sites,      \* projects
    Hostnames,  \* hostnames
    Adders      \* requests served at the same time

VARIABLES
    domains,    \* controlplane_domains
    domainJobs, \* the jobs enqueued for each domain
    dreqs       \* what each running request has done

dvars == <<domains, domainJobs, dreqs>>

\* A row remembers which rows were live when the others were told to be no longer primary.
DomainRow == [site : Sites, host : Hostnames, primary : BOOLEAN, deleted : BOOLEAN, before : SUBSET DomainIds]

ASSUME DomainsAssumption == NoRow \notin DomainRow

DIdle == [op |-> "idle"]

DomainsInit ==
    /\ domains = [d \in DomainIds |-> NoRow]
    /\ domainJobs = [d \in DomainIds |-> {}]
    /\ dreqs = [w \in Adders |-> DIdle]

CreateDomain(w, p, h, primary) ==
    /\ dreqs[w] = DIdle
    /\ dreqs' = [dreqs EXCEPT ![w] = [op |-> IF primary THEN "clear" ELSE "insert", site |-> p, host |-> h, primary |-> primary, before |-> {}]]
    /\ UNCHANGED <<domains, domainJobs>>

MutClearPrimary(w) ==
    /\ dreqs[w].op = "clear"
    /\ dreqs' = [dreqs EXCEPT ![w].op = "insert", ![w].before = LiveIds(domains)]
    /\ UNCHANGED <<domains, domainJobs>>

\* Create: no live domain of the project stays primary.
ClearPrimary(w) ==
    /\ dreqs[w].op = "clear"
    /\ domains' = [d \in DomainIds |->
            IF d \in Find(domains, LAMBDA r : r.site = dreqs[w].site) THEN [domains[d] EXCEPT !.primary = FALSE] ELSE domains[d]]
    /\ dreqs' = [dreqs EXCEPT ![w].op = "insert", ![w].before = LiveIds(domains)]
    /\ UNCHANGED domainJobs

\* controlplane_domains_hostname_uniq.
HostFree(h) == Find(domains, LAMBDA r : r.host = h) = {}

\* The insert; a refused one leaves the project without the primary domain it had.
InsertDomain(w, d) ==
    /\ dreqs[w].op = "insert" /\ domains[d] = NoRow
    /\ LET q == dreqs[w] IN
       IF ~HostFree(q.host) THEN UNCHANGED domains /\ dreqs' = [dreqs EXCEPT ![w] = DIdle]
       ELSE /\ domains' = Insert(domains, d, [site |-> q.site, host |-> q.host, primary |-> q.primary, deleted |-> FALSE, before |-> q.before])
            /\ dreqs' = [dreqs EXCEPT ![w] = [op |-> "jobs", id |-> d, todo |-> {"domain.verify", "domain.ssl_request"}]]
    /\ UNCHANGED domainJobs

\* EnqueueDomainVerify, EnqueueSSLRequest: an error of either is ignored.
EnqueueDomainJobs(w) ==
    /\ dreqs[w].op = "jobs"
    /\ \E done \in SUBSET dreqs[w].todo : domainJobs' = [domainJobs EXCEPT ![dreqs[w].id] = done]
    /\ dreqs' = [dreqs EXCEPT ![w] = DIdle]
    /\ UNCHANGED domains

DeleteDomain(d) ==
    /\ d \in LiveIds(domains)
    /\ domains' = SoftDelete(domains, d)
    /\ UNCHANGED <<domainJobs, dreqs>>

DomainRequestFails(w) == dreqs[w] # DIdle /\ dreqs' = [dreqs EXCEPT ![w] = DIdle] /\ UNCHANGED <<domains, domainJobs>>

DomainsNext ==
    \/ \E w \in Adders :
        \/ ClearPrimary(w) \/ EnqueueDomainJobs(w) \/ DomainRequestFails(w)
        \/ \E p \in Sites, h \in Hostnames, primary \in BOOLEAN : CreateDomain(w, p, h, primary)
        \/ \E d \in DomainIds : InsertDomain(w, d)
    \/ \E d \in DomainIds : DeleteDomain(d)

-----------------------------------------------------------------------------
(* Properties *)

\* The rows are those that domain.Repository writes, each with its two jobs at most.
DomainsTypeOK ==
    \A d \in DomainIds :
        /\ domains[d] # NoRow => domains[d] \in DomainRow
        /\ domainJobs[d] # {} => domains[d] # NoRow /\ domainJobs[d] \subseteq {"domain.verify", "domain.ssl_request"}

\* A hostname leads to one project: no two live domains have it, whatever races.
OneDomainPerHost == \A d, e \in LiveIds(domains) : domains[d].host = domains[e].host => d = e

\* Two primary domains of a project were added at the same time: neither was there when
\* the request of the other cleared the flags.
TwoPrimariesRaced ==
    \A d, e \in LiveIds(domains) :
        (d # e /\ domains[d].site = domains[e].site /\ domains[d].primary /\ domains[e].primary)
        => d \notin domains[e].before
=============================================================================
