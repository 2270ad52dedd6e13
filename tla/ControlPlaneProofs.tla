------------------------- MODULE ControlPlaneProofs -------------------------
(* Theorems about the tables of the control plane and of the proxy manager, for *)
(* any rows, requests served at the same time, deliveries, calls and failures.  *)
EXTENDS MCControlPlane, FiniteSetTheorems, TLAPS

-----------------------------------------------------------------------------
(* Domains *)

DomainJobNames == {"domain.verify", "domain.ssl_request"}

DomainRequest ==
    {DIdle}
    \union [op : {"clear", "insert"}, site : Sites, host : Hostnames, primary : BOOLEAN, before : SUBSET DomainIds]
    \union [op : {"jobs"}, id : DomainIds, todo : {DomainJobNames}]

DomainsTypes ==
    /\ domains \in [DomainIds -> DomainRow \union {NoRow}]
    /\ domainJobs \in [DomainIds -> SUBSET DomainJobNames]
    /\ dreqs \in [Adders -> DomainRequest]

\* A row that is soft-deleted is the same row otherwise.
LEMMA DomainDeleted ==
    ASSUME DomainsTypes, NEW d \in LiveIds(domains)
    PROVE  /\ d \in DomainIds /\ domains[d] \in DomainRow
           /\ SoftDelete(domains, d) = [domains EXCEPT ![d] = [domains[d] EXCEPT !.deleted = TRUE]]
<1>1. d \in DomainIds /\ domains[d] \in DomainRow
  BY DEF LiveIds, DomainsTypes
<1> DEFINE changed == [c \in DOMAIN domains[d] |-> IF c \in DOMAIN [deleted |-> TRUE] THEN [deleted |-> TRUE][c] ELSE domains[d][c]]
<1>a. DOMAIN domains[d] = {"site", "host", "primary", "deleted", "before"}
  BY <1>1 DEF DomainRow
<1>b. DOMAIN [deleted |-> TRUE] = {"deleted"} /\ [deleted |-> TRUE]["deleted"] = TRUE
  OBVIOUS
<1>c. changed = [c \in {"site", "host", "primary", "deleted", "before"} |-> IF c = "deleted" THEN TRUE ELSE domains[d][c]]
  BY <1>a, <1>b
<1>2. changed = [domains[d] EXCEPT !.deleted = TRUE]
  BY <1>1, <1>a, <1>c DEF DomainRow
<1>3. SoftDelete(domains, d) = [domains EXCEPT ![d] = changed]
  BY <1>1, Zenon DEF SoftDelete, Update
<1> QED
  BY <1>1, <1>2, <1>3

\* Jobs are those of inserted rows.
JobsOfRows ==
    /\ \A d \in DomainIds : domainJobs[d] # {} => domains[d] # NoRow
    /\ \A w \in Adders : dreqs[w].op = "jobs" => domains[dreqs[w].id] # NoRow

\* A request that has cleared the flags, and a primary row that was inserted since, know rows
\* that were there and are no longer primary, whatever became of them.
FlagsCleared ==
    /\ \A w \in Adders : dreqs[w].op \in {"clear", "insert"} => \A e \in dreqs[w].before :
        /\ domains[e] # NoRow
        /\ (dreqs[w].primary /\ domains[e].site = dreqs[w].site) => ~domains[e].primary
    /\ \A d \in DomainIds : domains[d] # NoRow => \A e \in domains[d].before :
        /\ domains[e] # NoRow
        /\ (domains[d].primary /\ domains[e].site = domains[d].site) => ~domains[e].primary

DomainsInv == DomainsTypes /\ JobsOfRows /\ FlagsCleared /\ OneDomainPerHost

\* Statements that only clear flags and delete rows keep what is known of the rows.
LEMMA DomainRowsKept ==
    ASSUME DomainsInv, DomainsTypes', UNCHANGED <<domainJobs>>,
           \A d \in DomainIds : domains[d] = NoRow => domains'[d] = NoRow,
           \A d \in DomainIds : domains[d] # NoRow =>
                /\ domains'[d] # NoRow
                /\ domains'[d].site = domains[d].site /\ domains'[d].host = domains[d].host
                /\ domains'[d].before = domains[d].before
                /\ (domains'[d].primary => domains[d].primary) /\ (domains[d].deleted => domains'[d].deleted)
    PROVE  /\ \A d \in DomainIds : domainJobs'[d] # {} => domains'[d] # NoRow
           /\ \A d \in DomainIds : domains'[d] # NoRow => \A e \in domains'[d].before :
                /\ domains'[e] # NoRow
                /\ (domains'[d].primary /\ domains'[e].site = domains'[d].site) => ~domains'[e].primary
           /\ OneDomainPerHost'
<1>1. \A d \in DomainIds : domains[d] # NoRow => domains[d] \in DomainRow
  BY DEF DomainsInv, DomainsTypes
<1>2. \A d \in LiveIds(domains') : d \in LiveIds(domains) /\ d \in DomainIds
  BY DEF LiveIds, DomainsInv, DomainsTypes
<1>3. OneDomainPerHost'
  BY <1>2 DEF OneDomainPerHost, DomainsInv, LiveIds, DomainsTypes
<1>4. ASSUME NEW d \in DomainIds, domains'[d] # NoRow, NEW e \in domains'[d].before
      PROVE /\ domains'[e] # NoRow
            /\ (domains'[d].primary /\ domains'[e].site = domains'[d].site) => ~domains'[e].primary
  <2>1. domains[d] # NoRow /\ e \in domains[d].before
    BY <1>4
  <2>2. e \in DomainIds /\ domains[e] # NoRow
    BY <2>1, <1>1 DEF DomainsInv, FlagsCleared, DomainRow
  <2> QED
    BY <2>1, <2>2 DEF DomainsInv, FlagsCleared
<1> QED
  BY <1>3, <1>4 DEF DomainsInv, JobsOfRows

\* Every statement of the requests for domains keeps the invariant.
LEMMA DomainsStep == DomainsInv /\ [DomainsNext]_dvars => DomainsInv'
<1> SUFFICES ASSUME DomainsInv, [DomainsNext]_dvars PROVE DomainsInv'
  OBVIOUS
<1>0. DomainsTypes /\ JobsOfRows /\ FlagsCleared /\ OneDomainPerHost
  BY DEF DomainsInv
<1>1. CASE UNCHANGED dvars
  BY <1>0, <1>1 DEF dvars, DomainsInv, DomainsTypes, JobsOfRows, FlagsCleared, OneDomainPerHost
<1>2. ASSUME NEW w \in Adders, NEW p \in Sites, NEW h \in Hostnames, NEW primary \in BOOLEAN, CreateDomain(w, p, h, primary)
      PROVE DomainsInv'
  <2>1. DomainsTypes'
    BY <1>0, <1>2 DEF CreateDomain, DomainsTypes, DomainRequest
  <2>2. JobsOfRows' /\ FlagsCleared'
    BY <1>0, <1>2 DEF CreateDomain, JobsOfRows, FlagsCleared, DomainsTypes
  <2>3. OneDomainPerHost'
    BY <1>0, <1>2 DEF CreateDomain, OneDomainPerHost
  <2> QED
    BY <2>1, <2>2, <2>3 DEF DomainsInv
<1>3. ASSUME NEW w \in Adders, ClearPrimary(w) PROVE DomainsInv'
  <2> DEFINE q == dreqs[w]
             q2 == [q EXCEPT !.op = "insert", !.before = LiveIds(domains)]
  <2>1. q \in [op : {"clear", "insert"}, site : Sites, host : Hostnames, primary : BOOLEAN, before : SUBSET DomainIds] /\ q.op = "clear"
    BY <1>0, <1>3 DEF ClearPrimary, DomainsTypes, DomainRequest, DIdle
  <2>2. /\ dreqs' = [dreqs EXCEPT ![w] = q2] /\ UNCHANGED domainJobs
        /\ domains' = [d \in DomainIds |-> IF d \in LiveIds(domains) /\ domains[d].site = q.site THEN [domains[d] EXCEPT !.primary = FALSE] ELSE domains[d]]
    BY <1>3 DEF ClearPrimary, Find
  <2>3. LiveIds(domains) \subseteq DomainIds /\ \A d \in LiveIds(domains) : domains[d] # NoRow /\ domains[d] \in DomainRow
    BY <1>0 DEF LiveIds, DomainsTypes
  <2>4. /\ q2 \in [op : {"clear", "insert"}, site : Sites, host : Hostnames, primary : BOOLEAN, before : SUBSET DomainIds]
        /\ q2.op = "insert" /\ q2.before = LiveIds(domains) /\ q2.site = q.site /\ q2.primary = q.primary
    BY <2>1, <2>3
  <2>5. DomainsTypes'
    BY <1>0, <2>2, <2>3, <2>4, ZenonT(60) DEF DomainsTypes, DomainRequest, DomainRow
  <2>6. \A d \in DomainIds : domains[d] = NoRow => domains'[d] = NoRow
    BY <2>2, <2>3
  <2>7. \A d \in DomainIds : domains[d] # NoRow =>
                /\ domains'[d] # NoRow
                /\ domains'[d].site = domains[d].site /\ domains'[d].host = domains[d].host
                /\ domains'[d].before = domains[d].before
                /\ (domains'[d].primary => domains[d].primary) /\ (domains[d].deleted => domains'[d].deleted)
    BY <1>0, <2>2, <2>3, DomainsAssumption DEF DomainsTypes, DomainRow
  <2>8. \A d \in LiveIds(domains) : domains'[d].site = q.site => ~domains'[d].primary
    BY <2>2, <2>3 DEF DomainRow
  <2>9. ASSUME NEW v \in Adders PROVE
            /\ dreqs'[v].op = "jobs" => domains'[dreqs'[v].id] # NoRow
            /\ dreqs'[v].op \in {"clear", "insert"} => \A e \in dreqs'[v].before :
                /\ domains'[e] # NoRow
                /\ (dreqs'[v].primary /\ domains'[e].site = dreqs'[v].site) => ~domains'[e].primary
    <3>1. CASE v = w
      BY <3>1, <2>2, <2>3, <2>4, <2>7, <2>8, <1>0 DEF DomainsTypes
    <3>2. CASE v # w
      <4>1. dreqs'[v] = dreqs[v] /\ dreqs[v] \in DomainRequest
        BY <3>2, <2>2, <1>0 DEF DomainsTypes
      <4>2. dreqs[v].op = "jobs" => dreqs[v].id \in DomainIds
        BY <4>1 DEF DomainRequest, DIdle
      <4>3. dreqs[v].op \in {"clear", "insert"} => dreqs[v].before \subseteq DomainIds
        BY <4>1 DEF DomainRequest, DIdle
      <4> QED
        BY <4>1, <4>2, <4>3, <2>7, <1>0 DEF JobsOfRows, FlagsCleared
    <3> QED
      BY <3>1, <3>2
  <2> QED
    BY <2>2, <2>5, <2>6, <2>7, <2>9, DomainRowsKept DEF DomainsInv, JobsOfRows, FlagsCleared
<1>4. ASSUME NEW w \in Adders, NEW d \in DomainIds, InsertDomain(w, d) PROVE DomainsInv'
  <2> DEFINE q == dreqs[w]
             row == [site |-> q.site, host |-> q.host, primary |-> q.primary, deleted |-> FALSE, before |-> q.before]
  <2>1. /\ q \in [op : {"clear", "insert"}, site : Sites, host : Hostnames, primary : BOOLEAN, before : SUBSET DomainIds]
        /\ q.op = "insert" /\ domains[d] = NoRow /\ UNCHANGED domainJobs
    BY <1>0, <1>4 DEF InsertDomain, DomainsTypes, DomainRequest, DIdle
  <2>2. CASE UNCHANGED domains /\ dreqs' = [dreqs EXCEPT ![w] = DIdle]
    <3>1. DomainsTypes'
      BY <1>0, <2>1, <2>2 DEF DomainsTypes, DomainRequest
    <3>2. JobsOfRows' /\ FlagsCleared'
      BY <1>0, <2>1, <2>2 DEF JobsOfRows, FlagsCleared, DomainsTypes, DIdle
    <3> QED
      BY <1>0, <2>2, <3>1, <3>2 DEF OneDomainPerHost, DomainsInv
  <2>3. CASE /\ HostFree(q.host) /\ domains' = [domains EXCEPT ![d] = row]
             /\ dreqs' = [dreqs EXCEPT ![w] = [op |-> "jobs", id |-> d, todo |-> DomainJobNames]]
    <3>1. row \in DomainRow /\ row # NoRow
      <4>1. q.site \in Sites /\ q.host \in Hostnames /\ q.primary \in BOOLEAN /\ q.before \in SUBSET DomainIds
        BY <2>1
      <4>2. row \in DomainRow
        BY <4>1, Zenon DEF DomainRow
      <4> QED
        BY <4>2, DomainsAssumption
    <3>2. DomainsTypes'
      <4>1. [op |-> "jobs", id |-> d, todo |-> DomainJobNames] \in DomainRequest
        BY DEF DomainRequest
      <4> HIDE DEF row
      <4> QED
        BY <1>0, <2>1, <2>3, <3>1, <4>1 DEF DomainsTypes
    <3>3. /\ domains'[d] = row
          /\ \A e \in DomainIds : domains[e] # NoRow => e # d /\ domains'[e] = domains[e]
          /\ \A e \in DomainIds : e # d => domains'[e] = domains[e]
      BY <1>0, <2>1, <2>3 DEF DomainsTypes
    <3>4. dreqs'[w] = [op |-> "jobs", id |-> d, todo |-> DomainJobNames] /\ \A v \in Adders \ {w} : dreqs'[v] = dreqs[v]
      BY <1>0, <2>3 DEF DomainsTypes
    <3>5. \A v \in Adders : dreqs'[v].op \in {"clear", "insert"} => v # w /\ dreqs[v].before \subseteq DomainIds
      <4>1. \A v \in Adders : dreqs[v].op \in {"clear", "insert"} => dreqs[v].before \subseteq DomainIds
        BY <1>0 DEF DomainsTypes, DomainRequest, DIdle
      <4> QED
        BY <4>1, <3>4
    <3>6. \A v \in Adders : dreqs'[v].op = "jobs" => domains'[dreqs'[v].id] # NoRow
      <4>1. \A v \in Adders : dreqs[v].op = "jobs" => dreqs[v].id \in DomainIds
        BY <1>0 DEF DomainsTypes, DomainRequest, DIdle
      <4> QED
        BY <4>1, <1>0, <3>1, <3>3, <3>4 DEF JobsOfRows
    <3>7. JobsOfRows'
      BY <1>0, <2>1, <3>1, <3>3, <3>6 DEF JobsOfRows
    <3>8. \A v \in Adders : dreqs'[v].op \in {"clear", "insert"} => \A e \in dreqs'[v].before :
            /\ domains'[e] # NoRow
            /\ (dreqs'[v].primary /\ domains'[e].site = dreqs'[v].site) => ~domains'[e].primary
      BY <1>0, <3>3, <3>4, <3>5 DEF FlagsCleared
    <3>9. \A c \in DomainIds : domains'[c] # NoRow => \A e \in domains'[c].before :
            /\ domains'[e] # NoRow
            /\ (domains'[c].primary /\ domains'[e].site = domains'[c].site) => ~domains'[e].primary
      <4>1. \A c \in DomainIds : domains[c] # NoRow => domains[c].before \subseteq DomainIds
        BY <1>0 DEF DomainsTypes, DomainRow
      <4>2. \A e \in row.before : e \in DomainIds /\ domains[e] # NoRow /\ ((row.primary /\ domains[e].site = row.site) => ~domains[e].primary)
        BY <1>0, <2>1 DEF FlagsCleared
      <4> QED
        BY <4>1, <4>2, <1>0, <3>3 DEF FlagsCleared
    <3>10. OneDomainPerHost'
      <4>1. \A e \in LiveIds(domains) : domains[e].host # q.host
        BY <2>3 DEF HostFree, Find
      <4>2. \A e \in LiveIds(domains') : e = d \/ (e \in LiveIds(domains) /\ domains'[e] = domains[e])
        BY <1>0, <3>2, <3>3 DEF LiveIds, DomainsTypes
      <4> QED
        BY <4>1, <4>2, <1>0, <3>3 DEF OneDomainPerHost
    <3> QED
      BY <3>2, <3>7, <3>8, <3>9, <3>10 DEF DomainsInv, FlagsCleared
  <2> QED
    BY <1>4, <2>2, <2>3 DEF InsertDomain, Insert, DomainJobNames
<1>5. ASSUME NEW w \in Adders, EnqueueDomainJobs(w) PROVE DomainsInv'
  <2>1. /\ dreqs[w].id \in DomainIds /\ dreqs[w].todo = DomainJobNames /\ domains[dreqs[w].id] # NoRow
        /\ UNCHANGED domains /\ dreqs' = [dreqs EXCEPT ![w] = DIdle]
    BY <1>0, <1>5 DEF EnqueueDomainJobs, DomainsTypes, DomainRequest, DIdle, JobsOfRows
  <2>2. PICK done \in SUBSET DomainJobNames : domainJobs' = [domainJobs EXCEPT ![dreqs[w].id] = done]
    BY <1>5, <2>1 DEF EnqueueDomainJobs
  <2>3. DomainsTypes'
    BY <1>0, <2>1, <2>2 DEF DomainsTypes, DomainRequest
  <2>4. JobsOfRows'
    BY <1>0, <2>1, <2>2 DEF JobsOfRows, DomainsTypes, DIdle
  <2>5. FlagsCleared'
    BY <1>0, <2>1 DEF FlagsCleared, DomainsTypes, DIdle
  <2> QED
    BY <1>0, <2>1, <2>3, <2>4, <2>5 DEF OneDomainPerHost, DomainsInv
<1>6. ASSUME NEW w \in Adders, DomainRequestFails(w) PROVE DomainsInv'
  <2>1. UNCHANGED <<domains, domainJobs>> /\ dreqs' = [dreqs EXCEPT ![w] = DIdle]
    BY <1>6 DEF DomainRequestFails
  <2>2. DomainsTypes'
    BY <1>0, <2>1 DEF DomainsTypes, DomainRequest
  <2>3. JobsOfRows' /\ FlagsCleared'
    BY <1>0, <2>1 DEF JobsOfRows, FlagsCleared, DomainsTypes, DIdle
  <2> QED
    BY <1>0, <2>1, <2>2, <2>3 DEF OneDomainPerHost, DomainsInv
<1>7. ASSUME NEW d \in DomainIds, DeleteDomain(d) PROVE DomainsInv'
  <2>1. /\ UNCHANGED <<domainJobs, dreqs>> /\ domains[d] \in DomainRow /\ domains[d] # NoRow
        /\ domains' = [domains EXCEPT ![d] = [domains[d] EXCEPT !.deleted = TRUE]]
    BY <1>0, <1>7, DomainDeleted DEF DeleteDomain, LiveIds
  <2>2. DomainsTypes'
    BY <1>0, <2>1 DEF DomainsTypes, DomainRow
  <2>3. \A e \in DomainIds : domains[e] = NoRow => domains'[e] = NoRow
    BY <1>0, <2>1 DEF DomainsTypes
  <2>4. \A e \in DomainIds : domains[e] # NoRow =>
                /\ domains'[e] # NoRow
                /\ domains'[e].site = domains[e].site /\ domains'[e].host = domains[e].host
                /\ domains'[e].before = domains[e].before
                /\ (domains'[e].primary => domains[e].primary) /\ (domains[e].deleted => domains'[e].deleted)
    BY <1>0, <2>1, DomainsAssumption DEF DomainsTypes, DomainRow
  <2>5. \A v \in Adders : /\ dreqs[v].op = "jobs" => dreqs[v].id \in DomainIds
                          /\ dreqs[v].op \in {"clear", "insert"} => dreqs[v].before \subseteq DomainIds
    BY <1>0 DEF DomainsTypes, DomainRequest, DIdle
  <2>6. \A v \in Adders :
            /\ dreqs'[v].op = "jobs" => domains'[dreqs'[v].id] # NoRow
            /\ dreqs'[v].op \in {"clear", "insert"} => \A e \in dreqs'[v].before :
                /\ domains'[e] # NoRow
                /\ (dreqs'[v].primary /\ domains'[e].site = dreqs'[v].site) => ~domains'[e].primary
    BY <2>1, <2>4, <2>5, <1>0 DEF JobsOfRows, FlagsCleared
  <2> QED
    BY <2>1, <2>2, <2>3, <2>4, <2>6, DomainRowsKept DEF DomainsInv, JobsOfRows, FlagsCleared
<1> QED
  BY <1>1, <1>2, <1>3, <1>4, <1>5, <1>6, <1>7 DEF DomainsNext

\* The behaviours of the domains of projects.
DomainsSpec == DomainsInit /\ [][DomainsNext]_dvars

\* Empty tables satisfy the invariant.
LEMMA DomainsStart == DomainsInit => DomainsInv
<1> SUFFICES ASSUME DomainsInit PROVE DomainsInv
  OBVIOUS
<1>1. DomainsTypes
  BY DEF DomainsInit, DomainsTypes, DomainRequest
<1>2. JobsOfRows /\ FlagsCleared
  BY DEF DomainsInit, JobsOfRows, FlagsCleared, DIdle
<1>3. OneDomainPerHost
  BY DEF DomainsInit, OneDomainPerHost, LiveIds
<1> QED
  BY <1>1, <1>2, <1>3 DEF DomainsInv

\* Two primary domains of a project only come about when their requests raced: whoever adds
\* a primary domain after another one was there takes the flag from it.
THEOREM PrimariesRaced == DomainsSpec => []TwoPrimariesRaced
<1>1. DomainsInv => TwoPrimariesRaced
  <2> SUFFICES ASSUME DomainsInv, NEW d \in LiveIds(domains), NEW e \in LiveIds(domains), d # e,
                      domains[d].site = domains[e].site, domains[d].primary, domains[e].primary
               PROVE d \notin domains[e].before
    BY DEF TwoPrimariesRaced
  <2> QED
    BY DEF DomainsInv, FlagsCleared, DomainsTypes, LiveIds
<1> QED
  BY <1>1, DomainsStart, DomainsStep, PTL DEF DomainsSpec

-----------------------------------------------------------------------------
(* Repositories and webhooks *)

\* A set whose elements are all the same has one element at most.
LEMMA AtMostOne ==
    ASSUME NEW S, \A x, y \in S : x = y
    PROVE  Cardinality(S) <= 1
<1>1. CASE S = {}
  BY <1>1, FS_EmptySet
<1>2. ASSUME NEW x \in S PROVE Cardinality(S) <= 1
  <2>1. S = {x}
    OBVIOUS
  <2> QED
    BY <2>1, FS_Singleton
<1> QED
  BY <1>1, <1>2

GitAnswers == {"accepted", "rejected", "error"}

ConnectRequest == [op : {"connect"}, project : ProjIds, url : Urls, replaced : SUBSET RepoIds]
UpdateRequest == [op : {"update"}, id : RepoIds, url : Urls]
DisconnectRequest == [op : {"disconnect"}, id : RepoIds]
HandleRequest == [op : {"handle"}, delivery : Deliveries]
DeployRequest == [op : {"deploy", "deploy2"}, delivery : Deliveries \union {NoRow}, project : ProjIds, org : Orgs \union {NoRow}]

GitRequest == {GIdle} \union ConnectRequest \union UpdateRequest \union DisconnectRequest \union HandleRequest \union DeployRequest

GitTypes ==
    /\ repos \in [RepoIds -> RepoRow \union {NoRow}]
    /\ recorded \subseteq Deliveries
    /\ passes \in [Deliveries -> Nat]
    /\ answers \in [Deliveries -> SUBSET GitAnswers]
    /\ greqs \in [Clerks -> GitRequest]

\* What a request has read of the repositories is still there.
ReadsKnown ==
    \A w \in Clerks :
        /\ greqs[w].op = "connect" => \A r \in greqs[w].replaced : repos[r] # NoRow
        /\ greqs[w].op \in {"update", "disconnect"} => repos[greqs[w].id] # NoRow

\* The record of a delivery and the times it was let past the record agree.
PassesRecorded == \A d \in Deliveries : passes[d] = IF d \in recorded THEN 1 ELSE 0

\* Two connected rows of a project are the same row.
ConnectedOnce ==
    \A r, s \in RepoIds :
        (repos[r] # NoRow /\ repos[s] # NoRow /\ repos[r].connected /\ repos[s].connected /\ repos[r].project = repos[s].project) => r = s

GitInv == GitTypes /\ ReadsKnown /\ PassesRecorded /\ ConnectedOnce

\* A request that is at one of its positions has read what that position needs.
LEMMA GitRequestShape ==
    ASSUME GitTypes, NEW w \in Clerks
    PROVE  /\ greqs[w].op = "connect" => greqs[w] \in ConnectRequest
           /\ greqs[w].op = "update" => greqs[w] \in UpdateRequest
           /\ greqs[w].op = "disconnect" => greqs[w] \in DisconnectRequest
           /\ greqs[w].op = "handle" => greqs[w] \in HandleRequest
           /\ greqs[w].op \in {"deploy", "deploy2"} => greqs[w] \in DeployRequest
<1>1. greqs[w] \in GitRequest
  BY DEF GitTypes
<1>2. GIdle.op = "idle"
  BY DEF GIdle
<1>3. \A q \in ConnectRequest : q.op = "connect"
  BY DEF ConnectRequest
<1>4. \A q \in UpdateRequest : q.op = "update"
  BY DEF UpdateRequest
<1>5. \A q \in DisconnectRequest : q.op = "disconnect"
  BY DEF DisconnectRequest
<1>6. \A q \in HandleRequest : q.op = "handle"
  BY DEF HandleRequest
<1>7. \A q \in DeployRequest : q.op \in {"deploy", "deploy2"}
  BY DEF DeployRequest
<1> QED
  BY <1>1, <1>2, <1>3, <1>4, <1>5, <1>6, <1>7 DEF GitRequest

\* A request that moves on, with rows of the repositories that are there, keeps what the
\* requests know.
LEMMA GitRequestMoves ==
    ASSUME GitInv, NEW w \in Clerks, NEW q \in GitRequest, greqs' = [greqs EXCEPT ![w] = q], UNCHANGED repos,
           q.op = "connect" => \A r \in q.replaced : repos[r] # NoRow,
           q.op \in {"update", "disconnect"} => repos[q.id] # NoRow
    PROVE  /\ greqs' \in [Clerks -> GitRequest] /\ repos' \in [RepoIds -> RepoRow \union {NoRow}]
           /\ ReadsKnown' /\ ConnectedOnce'
<1>1. greqs' \in [Clerks -> GitRequest] /\ repos' \in [RepoIds -> RepoRow \union {NoRow}]
  BY DEF GitInv, GitTypes
<1>2. \A v \in Clerks : greqs'[v] = IF v = w THEN q ELSE greqs[v]
  BY DEF GitInv, GitTypes
<1>3. ReadsKnown'
  BY <1>2 DEF GitInv, ReadsKnown
<1>4. ConnectedOnce'
  BY DEF GitInv, ConnectedOnce
<1> QED
  BY <1>1, <1>3, <1>4

\* Rows of repositories that are written, and none is removed, keep what the requests know.
LEMMA ReposWritten ==
    ASSUME GitInv, NEW w \in Clerks, greqs' = [greqs EXCEPT ![w] = GIdle],
           \A r \in RepoIds : repos[r] # NoRow => repos'[r] # NoRow
    PROVE  greqs' \in [Clerks -> GitRequest] /\ ReadsKnown'
<1>1. greqs' \in [Clerks -> GitRequest]
  BY DEF GitInv, GitTypes, GitRequest
<1>2. \A v \in Clerks : greqs'[v] = IF v = w THEN GIdle ELSE greqs[v]
  BY DEF GitInv, GitTypes
<1>3. \A v \in Clerks : /\ greqs[v].op = "connect" => greqs[v].replaced \subseteq RepoIds
                        /\ greqs[v].op \in {"update", "disconnect"} => greqs[v].id \in RepoIds
  BY GitRequestShape DEF GitInv, ConnectRequest, UpdateRequest, DisconnectRequest
<1>4. ReadsKnown'
  BY <1>2, <1>3 DEF GitInv, ReadsKnown, GIdle
<1> QED
  BY <1>1, <1>4

\* An answer is recorded under its delivery.
LEMMA AnswersTyped ==
    ASSUME GitTypes, NEW w \in Clerks, NEW d, NEW a \in GitAnswers, WAnswer(w, d, a)
    PROVE  answers' \in [Deliveries -> SUBSET GitAnswers] /\ greqs' = [greqs EXCEPT ![w] = GIdle]
  BY DEF WAnswer, GDone, GTo, GitTypes

\* Every statement of the requests for repositories and of the webhooks keeps the invariant,
\* and none touches the projects.
LEMMA GitStep == GitInv /\ [GitNext]_gvars => GitInv' /\ UNCHANGED projects
<1> SUFFICES ASSUME GitInv, [GitNext]_gvars PROVE GitInv' /\ UNCHANGED projects
  OBVIOUS
<1>0. GitTypes /\ ReadsKnown /\ PassesRecorded /\ ConnectedOnce
  BY DEF GitInv
<1>a. GIdle \in GitRequest /\ GIdle.op = "idle"
  BY DEF GitRequest, GIdle
<1>b. ASSUME NEW w \in Clerks, NEW q \in GitRequest, greqs' = [greqs EXCEPT ![w] = q], UNCHANGED <<repos, recorded, passes>>,
             q.op = "connect" => \A r \in q.replaced : repos[r] # NoRow,
             q.op \in {"update", "disconnect"} => repos[q.id] # NoRow,
             answers' \in [Deliveries -> SUBSET GitAnswers]
      PROVE GitInv'
  <2>1. /\ greqs' \in [Clerks -> GitRequest] /\ repos' \in [RepoIds -> RepoRow \union {NoRow}]
        /\ ReadsKnown' /\ ConnectedOnce'
    BY <1>b, GitRequestMoves
  <2> QED
    BY <1>0, <1>b, <2>1 DEF GitInv, GitTypes, PassesRecorded
<1>c. ASSUME NEW w \in Clerks, greqs' = [greqs EXCEPT ![w] = GIdle], UNCHANGED <<repos, recorded, passes>>,
             answers' \in [Deliveries -> SUBSET GitAnswers]
      PROVE GitInv'
  BY <1>a, <1>b, <1>c
<1>d. answers \in [Deliveries -> SUBSET GitAnswers]
  BY <1>0 DEF GitTypes
<1>1. CASE UNCHANGED gvars
  BY <1>0, <1>1 DEF gvars, GitInv, GitTypes, ReadsKnown, PassesRecorded, ConnectedOnce
<1>2. ASSUME NEW w \in Clerks, NEW p \in ProjIds, NEW u \in Urls, ConnectRepository(w, p, u) PROVE GitInv' /\ UNCHANGED projects
  <2>1. ConnectReplace(p, u) \in GitRequest /\ \A r \in ConnectReplace(p, u).replaced : repos[r] # NoRow
    BY DEF ConnectReplace, Connections, GitRequest, ConnectRequest
  <2>2. ConnectReplace(p, u).op = "connect"
    BY DEF ConnectReplace
  <2>3. greqs' = [greqs EXCEPT ![w] = ConnectReplace(p, u)] /\ UNCHANGED <<projects, repos, recorded, passes, answers>>
    BY <1>2 DEF ConnectRepository, RepositoryRoute, GTo
  <2> QED
    BY <1>b, <1>d, <2>1, <2>2, <2>3
<1>3. ASSUME NEW w \in Clerks, NEW p \in ProjIds, NEW u \in Urls, UpdateRepository(w, p, u) PROVE GitInv' /\ UNCHANGED projects
  <2>1. PICK r \in Connections(p) : RepositoryRoute(w, [op |-> "update", id |-> r, url |-> u])
    BY <1>3 DEF UpdateRepository
  <2> DEFINE q == [op |-> "update", id |-> r, url |-> u]
  <2>2. q \in GitRequest /\ q.op = "update" /\ repos[q.id] # NoRow
    BY DEF Connections, GitRequest, UpdateRequest
  <2>3. greqs' = [greqs EXCEPT ![w] = q] /\ UNCHANGED <<projects, repos, recorded, passes, answers>>
    BY <2>1 DEF RepositoryRoute, GTo
  <2> HIDE DEF q
  <2> QED
    BY <1>b, <1>d, <2>2, <2>3
<1>4. ASSUME NEW w \in Clerks, NEW p \in ProjIds, DisconnectRepository(w, p) PROVE GitInv' /\ UNCHANGED projects
  <2>1. PICK r \in Connections(p) : RepositoryRoute(w, [op |-> "disconnect", id |-> r])
    BY <1>4 DEF DisconnectRepository
  <2> DEFINE q == [op |-> "disconnect", id |-> r]
  <2>2. q \in GitRequest /\ q.op = "disconnect" /\ repos[q.id] # NoRow
    BY DEF Connections, GitRequest, DisconnectRequest
  <2>3. greqs' = [greqs EXCEPT ![w] = q] /\ UNCHANGED <<projects, repos, recorded, passes, answers>>
    BY <2>1 DEF RepositoryRoute, GTo
  <2> HIDE DEF q
  <2> QED
    BY <1>b, <1>d, <2>2, <2>3
<1>5. ASSUME NEW w \in Clerks, NEW r \in RepoIds, ConnectInsert(w, r) PROVE GitInv' /\ UNCHANGED projects
  <2> DEFINE q == greqs[w]
             row == [project |-> q.project, url |-> q.url, clone |-> q.url, connected |-> TRUE]
  <2>1. q \in ConnectRequest /\ repos[r] = NoRow /\ greqs' = [greqs EXCEPT ![w] = GIdle] /\ UNCHANGED <<projects, recorded, passes, answers>>
    BY <1>0, <1>5, GitRequestShape DEF ConnectInsert, GDone, GTo
  <2>2. \A x \in q.replaced : x \in RepoIds /\ repos[x] # NoRow /\ x # r
    BY <1>0, <1>5, <2>1 DEF ReadsKnown, ConnectRequest
  <2>3. CASE ~ConnectFits(w)
    <3>1. repos' = repos
      BY <1>5, <2>3 DEF ConnectInsert
    <3> QED
      BY <1>c, <1>d, <2>1, <3>1
  <2>4. CASE ConnectFits(w)
    <3>1. row \in RepoRow
      BY <2>1 DEF ConnectRequest, RepoRow
    <3> HIDE DEF row
    <3>2. repos' = [x \in RepoIds |-> IF x = r THEN row ELSE IF x \in q.replaced THEN [repos[x] EXCEPT !.connected = FALSE] ELSE repos[x]]
      BY <1>5, <2>4 DEF ConnectInsert, row
    <3>3. \A x \in RepoIds : repos[x] # NoRow => repos[x] \in RepoRow
      BY <1>0 DEF GitTypes
    <3>4. \A x \in q.replaced : [repos[x] EXCEPT !.connected = FALSE] \in RepoRow /\ [repos[x] EXCEPT !.connected = FALSE].connected = FALSE
      BY <2>2, <3>3 DEF RepoRow
    <3>5. repos' \in [RepoIds -> RepoRow \union {NoRow}]
      BY <1>0, <3>1, <3>2, <3>4 DEF GitTypes
    <3>6. \A x \in RepoIds : repos[x] # NoRow => repos'[x] # NoRow
      BY <2>1, <3>2, <3>4, GitAssumption
    <3>7. greqs' \in [Clerks -> GitRequest] /\ ReadsKnown'
      BY <2>1, <3>6, ReposWritten
    <3>8. repos'[r] = row /\ row.project = q.project
      BY <3>2 DEF row
    <3>9. \A x \in RepoIds : (x # r /\ repos'[x] # NoRow /\ repos'[x].connected) =>
            repos'[x] = repos[x] /\ repos[x] # NoRow /\ repos[x].project # q.project
      <4>1. \A x \in RepoIds : (repos[x] # NoRow /\ repos[x].connected /\ repos[x].project = q.project) => x \in q.replaced
        BY <2>4 DEF ConnectFits, Connections
      <4> QED
        BY <3>2, <3>4, <4>1
    <3>10. ConnectedOnce'
      BY <1>0, <3>8, <3>9 DEF ConnectedOnce
    <3> QED
      BY <1>0, <2>1, <3>5, <3>7, <3>10 DEF GitInv, GitTypes, PassesRecorded
  <2> QED
    BY <2>3, <2>4
<1>6. ASSUME NEW w \in Clerks, UpdateRepo(w) PROVE GitInv' /\ UNCHANGED projects
  <2>1. /\ greqs[w] \in UpdateRequest /\ greqs' = [greqs EXCEPT ![w] = GIdle] /\ UNCHANGED <<projects, recorded, passes, answers>>
        /\ repos' = [repos EXCEPT ![greqs[w].id].clone = greqs[w].url]
    BY <1>0, <1>6, GitRequestShape DEF UpdateRepo, GDone, GTo
  <2>2. greqs[w].id \in RepoIds /\ repos[greqs[w].id] \in RepoRow /\ greqs[w].url \in Urls
    BY <1>0, <2>1, <1>6 DEF UpdateRequest, ReadsKnown, GitTypes, UpdateRepo
  <2>3. \A x \in RepoIds : IF x = greqs[w].id
            THEN repos'[x] \in RepoRow /\ repos'[x].connected = repos[x].connected /\ repos'[x].project = repos[x].project
            ELSE repos'[x] = repos[x]
    BY <1>0, <2>1, <2>2 DEF RepoRow, GitTypes
  <2>4. repos' \in [RepoIds -> RepoRow \union {NoRow}]
    BY <1>0, <2>1, <2>3 DEF GitTypes
  <2>5. greqs' \in [Clerks -> GitRequest] /\ ReadsKnown'
    BY <2>1, <2>3, GitAssumption, ReposWritten
  <2>6. ConnectedOnce'
    BY <1>0, <2>2, <2>3, GitAssumption DEF ConnectedOnce
  <2> QED
    BY <1>0, <2>1, <2>4, <2>5, <2>6 DEF GitInv, GitTypes, PassesRecorded
<1>7. ASSUME NEW w \in Clerks, Disconnect(w) PROVE GitInv' /\ UNCHANGED projects
  <2>1. /\ greqs[w] \in DisconnectRequest /\ greqs' = [greqs EXCEPT ![w] = GIdle] /\ UNCHANGED <<projects, recorded, passes, answers>>
        /\ repos' = [repos EXCEPT ![greqs[w].id].connected = FALSE]
    BY <1>0, <1>7, GitRequestShape DEF Disconnect, GDone, GTo
  <2>2. greqs[w].id \in RepoIds /\ repos[greqs[w].id] \in RepoRow
    BY <1>0, <2>1, <1>7 DEF DisconnectRequest, ReadsKnown, GitTypes, Disconnect
  <2>3. \A x \in RepoIds : IF x = greqs[w].id
            THEN repos'[x] \in RepoRow /\ repos'[x].connected = FALSE
            ELSE repos'[x] = repos[x]
    BY <1>0, <2>1, <2>2 DEF RepoRow, GitTypes
  <2>4. repos' \in [RepoIds -> RepoRow \union {NoRow}]
    BY <1>0, <2>1, <2>3 DEF GitTypes
  <2>5. greqs' \in [Clerks -> GitRequest] /\ ReadsKnown'
    BY <2>1, <2>3, GitAssumption, ReposWritten
  <2>6. ConnectedOnce'
    BY <1>0, <2>2, <2>3 DEF ConnectedOnce
  <2> QED
    BY <1>0, <2>1, <2>4, <2>5, <2>6 DEF GitInv, GitTypes, PassesRecorded
<1>8. ASSUME NEW w \in Clerks, NEW d \in Deliveries, Handle(w, d) PROVE GitInv' /\ UNCHANGED projects
  <2>1. UNCHANGED <<projects, repos>>
    BY <1>8 DEF Handle
  <2>2. CASE RecordDelivery(d) /\ recorded' = recorded \union {d} /\ passes' = [passes EXCEPT ![d] = @ + 1]
             /\ GTo(w, [op |-> "handle", delivery |-> d]) /\ UNCHANGED answers
    <3> DEFINE q == [op |-> "handle", delivery |-> d]
    <3>1. q \in GitRequest /\ q.op = "handle" /\ greqs' = [greqs EXCEPT ![w] = q]
      BY <2>2 DEF GitRequest, HandleRequest, GTo
    <3> HIDE DEF q
    <3>2. /\ greqs' \in [Clerks -> GitRequest] /\ repos' \in [RepoIds -> RepoRow \union {NoRow}]
          /\ ReadsKnown' /\ ConnectedOnce'
      BY <2>1, <3>1, GitRequestMoves
    <3>3. d \notin recorded /\ passes[d] = 0
      BY <1>0, <2>2 DEF RecordDelivery, PassesRecorded
    <3>4. PassesRecorded' /\ passes' \in [Deliveries -> Nat] /\ recorded' \subseteq Deliveries
      BY <1>0, <2>2, <3>3 DEF PassesRecorded, GitTypes
    <3> QED
      BY <1>d, <2>1, <2>2, <3>2, <3>4 DEF GitInv, GitTypes
  <2>3. CASE (WAnswer(w, d, "accepted") \/ WAnswer(w, d, "rejected")) /\ UNCHANGED <<recorded, passes>>
    <3>1. answers' \in [Deliveries -> SUBSET GitAnswers] /\ greqs' = [greqs EXCEPT ![w] = GIdle]
      BY <1>0, <2>3, AnswersTyped DEF GitAnswers
    <3> QED
      BY <1>c, <2>1, <2>3, <3>1
  <2> QED
    BY <1>8, <2>2, <2>3 DEF Handle
<1>9. ASSUME NEW w \in Clerks, TriggerDeploy(w) PROVE GitInv' /\ UNCHANGED projects
  <2>1. greqs[w] \in HandleRequest /\ UNCHANGED <<projects, repos, recorded, passes>>
    BY <1>0, <1>9, GitRequestShape DEF TriggerDeploy
  <2>2. CASE WAnswer(w, greqs[w].delivery, "accepted")
    <3>1. answers' \in [Deliveries -> SUBSET GitAnswers] /\ greqs' = [greqs EXCEPT ![w] = GIdle]
      BY <1>0, <2>2, AnswersTyped DEF GitAnswers
    <3> QED
      BY <1>c, <2>1, <3>1
  <2>3. ASSUME NEW r \in FindRepoByURL(greqs[w].delivery.url), UNCHANGED answers,
               GTo(w, [op |-> "deploy", delivery |-> greqs[w].delivery, project |-> repos[r].project, org |-> NoRow])
        PROVE GitInv'
    <3> DEFINE q == [op |-> "deploy", delivery |-> greqs[w].delivery, project |-> repos[r].project, org |-> NoRow]
    <3>1. r \in RepoIds /\ repos[r] \in RepoRow
      BY <1>0 DEF FindRepoByURL, GitTypes
    <3>2. q \in GitRequest /\ q.op = "deploy"
      BY <2>1, <3>1 DEF HandleRequest, RepoRow, GitRequest, DeployRequest
    <3>3. greqs' = [greqs EXCEPT ![w] = q]
      BY <2>3 DEF GTo
    <3> HIDE DEF q
    <3> QED
      BY <1>b, <1>d, <2>1, <2>3, <3>2, <3>3
  <2> QED
    BY <1>9, <2>1, <2>2, <2>3 DEF TriggerDeploy
<1>10. ASSUME NEW w \in Clerks, NEW o \in Orgs, NEW p \in ProjIds, DeployRoute(w, o, p) PROVE GitInv' /\ UNCHANGED projects
  <2> DEFINE q == [op |-> "deploy", delivery |-> NoRow, project |-> p, org |-> o]
  <2>1. q \in GitRequest /\ q.op = "deploy"
    BY DEF GitRequest, DeployRequest
  <2>2. greqs' = [greqs EXCEPT ![w] = q] /\ UNCHANGED <<projects, repos, recorded, passes, answers>>
    BY <1>10 DEF DeployRoute, RepositoryRoute, GTo
  <2> HIDE DEF q
  <2> QED
    BY <1>b, <1>d, <2>1, <2>2
<1>11. ASSUME NEW w \in Clerks, DeployCheck(w) PROVE GitInv' /\ UNCHANGED projects
  <2>1. greqs[w] \in DeployRequest /\ UNCHANGED <<projects, repos, recorded, passes>>
    BY <1>0, <1>11, GitRequestShape DEF DeployCheck
  <2> DEFINE q == [greqs[w] EXCEPT !.op = "deploy2"]
  <2>2. q \in GitRequest /\ q.op = "deploy2"
    BY <2>1 DEF GitRequest, DeployRequest
  <2>3. \/ greqs' = [greqs EXCEPT ![w] = q] /\ UNCHANGED answers
        \/ greqs' = [greqs EXCEPT ![w] = GIdle] /\ UNCHANGED answers
        \/ WAnswer(w, greqs[w].delivery, "error")
    BY <1>11 DEF DeployCheck, GTo, GDone
  <2> HIDE DEF q
  <2>4. CASE greqs' = [greqs EXCEPT ![w] = q] /\ UNCHANGED answers
    BY <1>b, <1>d, <2>1, <2>2, <2>4
  <2>5. CASE greqs' = [greqs EXCEPT ![w] = GIdle] /\ UNCHANGED answers
    BY <1>c, <1>d, <2>1, <2>5
  <2>6. CASE WAnswer(w, greqs[w].delivery, "error")
    <3>1. answers' \in [Deliveries -> SUBSET GitAnswers] /\ greqs' = [greqs EXCEPT ![w] = GIdle]
      BY <1>0, <2>6, AnswersTyped DEF GitAnswers
    <3> QED
      BY <1>c, <2>1, <3>1
  <2> QED
    BY <2>1, <2>3, <2>4, <2>5, <2>6
<1>12. ASSUME NEW w \in Clerks, CreateDeployment(w) PROVE GitInv' /\ UNCHANGED projects
  <2>1. UNCHANGED <<projects, repos, recorded, passes>>
    BY <1>12 DEF CreateDeployment
  <2>2. \/ greqs' = [greqs EXCEPT ![w] = GIdle] /\ UNCHANGED answers
        \/ WAnswer(w, greqs[w].delivery, "accepted")
    BY <1>12 DEF CreateDeployment, GTo, GDone
  <2>3. CASE greqs' = [greqs EXCEPT ![w] = GIdle] /\ UNCHANGED answers
    BY <1>c, <1>d, <2>1, <2>3
  <2>4. CASE WAnswer(w, greqs[w].delivery, "accepted")
    <3>1. answers' \in [Deliveries -> SUBSET GitAnswers] /\ greqs' = [greqs EXCEPT ![w] = GIdle]
      BY <1>0, <2>4, AnswersTyped DEF GitAnswers
    <3> QED
      BY <1>c, <2>1, <3>1
  <2> QED
    BY <2>1, <2>2, <2>3, <2>4
<1>13. ASSUME NEW w \in Clerks, GitRequestFails(w) PROVE GitInv' /\ UNCHANGED projects
  BY <1>13, <1>c, <1>d DEF GitRequestFails, GDone, GTo
<1>14. CASE GitNext
  BY <1>14, <1>2, <1>3, <1>4, <1>5, <1>6, <1>7, <1>8, <1>9, <1>10, <1>11, <1>12, <1>13 DEF GitNext
<1> QED
  BY <1>1, <1>14 DEF gvars

\* The behaviours of the repositories and webhooks over given projects.
GitSpec == GitProjects /\ GitInit /\ [][GitNext]_gvars

\* Empty tables satisfy the invariant.
LEMMA GitStart == GitInit => GitInv
<1> SUFFICES ASSUME GitInit PROVE GitInv
  OBVIOUS
<1>1. GitTypes
  BY DEF GitInit, GitTypes, GitRequest, GitAnswers
<1>2. ReadsKnown /\ PassesRecorded /\ ConnectedOnce
  BY DEF GitInit, ReadsKnown, PassesRecorded, ConnectedOnce, GIdle
<1> QED
  BY <1>1, <1>2 DEF GitInv

\* A delivery that providers send over and over, to several requests at once, gets past its
\* record once: the record is refused the second time.
THEOREM DeliveriesOnce == GitSpec => []DeliveryHandledOnce
<1>1. GitInv => DeliveryHandledOnce
  BY DEF GitInv, PassesRecorded, DeliveryHandledOnce
<1>2. GitInv /\ [GitNext]_gvars => GitInv'
  BY GitStep
<1> QED
  BY <1>1, <1>2, GitStart, PTL DEF GitSpec

\* What the invariant says of the tables.
LEMMA GitTablesKept == GitInv => GitTypeOK /\ OneConnection
<1> SUFFICES ASSUME GitInv PROVE GitTypeOK /\ OneConnection
  OBVIOUS
<1>1. GitTypeOK
  BY DEF GitInv, GitTypes, GitTypeOK, GitAnswers
<1>2. ASSUME NEW p \in ProjIds PROVE Cardinality(Connections(p)) <= 1
  <2>1. \A r, s \in Connections(p) : r = s
    BY DEF Connections, GitInv, ConnectedOnce
  <2> QED
    BY <2>1, AtMostOne
<1> QED
  BY <1>1, <1>2 DEF OneConnection

-----------------------------------------------------------------------------
(* Projects *)

ProjectStatuses == {"active", "archived", "deleted"}

CreateRequest == [op : {"create", "insert"}, org : Orgs, slug : Bases \X Nat]
ChangeRequest == [op : {"update", "update2"}, org : Orgs, id : ProjIds, vals : {Changes, Archive, Restore}]
RemoveRequest == [op : {"delete", "delete2"}, org : Orgs, id : ProjIds]
StampRequest == [op : {"update2"}, id : ProjIds, vals : {[status |-> "deleted"]}]
CopyRequest == [op : {"copy", "probe"}, org : Orgs, id : ProjIds, slug : Bases \X Nat]

ProjectRequest == {PIdle} \union CreateRequest \union ChangeRequest \union RemoveRequest \union StampRequest \union CopyRequest

ProjectsTypes ==
    /\ projects \in [ProjIds -> ProjectRow \union {NoRow}]
    /\ preqs \in [Clerks -> ProjectRequest]

\* The requests that probe for a slug, or write the one they found.
Naming == {"create", "insert", "copy", "probe"}

\* Rows that were given the slugs <<b, 0>> to <<b, n - 1>>, live or not.
NamesTaken(b, n) == \A k \in 0..(n - 1) : \E p \in ProjIds : projects[p] # NoRow /\ projects[p].slug = <<b, k>>

\* A duplication that has come to a number has found a row for each one before.
ProbesFound == \A w \in Clerks : preqs[w].op \in Naming => NamesTaken(preqs[w].slug[1], preqs[w].slug[2])

ProjectsInv == ProjectsTypes /\ ProbesFound /\ OneProjectPerSlug

\* There are no more numbers in use than rows, so that the slug of a duplication is bounded.
LEMMA NamesBounded ==
    ASSUME NEW b, NEW n \in Nat, NamesTaken(b, n)
    PROVE  n <= Cardinality(ProjIds)
<1> SUFFICES ASSUME ~(n <= Cardinality(ProjIds)) PROVE FALSE
  OBVIOUS
<1>1. Cardinality(ProjIds) \in Nat
  BY FS_CardinalityType, ProjectsAssumption
<1>2. IsFiniteSet(0..(n - 1)) /\ Cardinality(0..(n - 1)) = n
  <2> DEFINE m == n - 1
  <2>1. m \in Int /\ (0 > m => n = 0) /\ m - 0 + 1 = n
    OBVIOUS
  <2> HIDE DEF m
  <2>2. IsFiniteSet(0..m) /\ Cardinality(0..m) = IF 0 > m THEN 0 ELSE m - 0 + 1
    BY <2>1, FS_Interval
  <2> QED
    BY <2>1, <2>2 DEF m
<1> DEFINE Has(k, p) == projects[p] # NoRow /\ projects[p].slug = <<b, k>>
           f == [k \in 0..(n - 1) |-> CHOOSE p \in ProjIds : Has(k, p)]
<1>3. ASSUME NEW k \in 0..(n - 1) PROVE f[k] \in ProjIds /\ projects[f[k]].slug = <<b, k>>
  <2>1. \E p \in ProjIds : Has(k, p)
    BY DEF NamesTaken
  <2>2. f[k] = CHOOSE p \in ProjIds : Has(k, p)
    OBVIOUS
  <2> HIDE DEF Has, f
  <2>3. f[k] \in ProjIds /\ Has(k, f[k])
    BY <2>1, <2>2
  <2> QED
    BY <2>3 DEF Has
<1>4. f \in [0..(n - 1) -> ProjIds]
  BY <1>3
<1> HIDE DEF f
<1>5. PICK x, y \in 0..(n - 1) : x # y /\ f[x] = f[y]
  BY <1>1, <1>2, <1>4, ProjectsAssumption, FS_PigeonHole
<1>6. <<b, x>> = <<b, y>>
  BY <1>3, <1>5
<1> QED
  BY <1>5, <1>6

\* An update of the status changes nothing else of a live row, and nothing of another.
LEMMA ProjectUpdated ==
    ASSUME ProjectsTypes, NEW p \in ProjIds, NEW vals \in {Changes, [status |-> "deleted"], Archive, Restore}
    PROVE  /\ Update(projects, p, vals) \in [ProjIds -> ProjectRow \union {NoRow}]
           /\ p \notin LiveIds(projects) => Update(projects, p, vals) = projects
           /\ \A q \in ProjIds \ {p} : Update(projects, p, vals)[q] = projects[q]
           /\ p \in LiveIds(projects) =>
                /\ Update(projects, p, vals)[p] \in ProjectRow
                /\ Update(projects, p, vals)[p].org = projects[p].org
                /\ Update(projects, p, vals)[p].slug = projects[p].slug
                /\ Update(projects, p, vals)[p].deleted = projects[p].deleted
<1>1. CASE p \notin LiveIds(projects)
  BY <1>1 DEF Update, ProjectsTypes
<1>2. CASE p \in LiveIds(projects)
  <2> DEFINE r == projects[p]
             cols == {"org", "slug", "status", "deleted"}
             changed == [c \in DOMAIN r |-> IF c \in DOMAIN vals THEN vals[c] ELSE r[c]]
  <2>1. r \in ProjectRow /\ DOMAIN r = cols
    BY <1>2 DEF LiveIds, ProjectsTypes, ProjectRow
  <2>2. \/ DOMAIN vals = {}
        \/ DOMAIN vals = {"status"} /\ vals["status"] \in ProjectStatuses
    <3>1. CASE vals = Changes
      BY <3>1 DEF Changes
    <3>2. CASE vals \in {[status |-> "deleted"], Archive, Restore}
      BY <3>2 DEF Archive, Restore, ProjectStatuses
    <3> QED
      BY <3>1, <3>2
  <2>3. PICK s \in ProjectStatuses : changed = [c \in cols |-> IF c = "status" THEN s ELSE r[c]]
    <3>1. CASE DOMAIN vals = {}
      <4>1. changed = [c \in cols |-> IF c = "status" THEN r["status"] ELSE r[c]]
        BY <3>1, <2>1
      <4> QED
        BY <4>1, <2>1 DEF ProjectRow, ProjectStatuses
    <3>2. CASE DOMAIN vals = {"status"} /\ vals["status"] \in ProjectStatuses
      <4>1. changed = [c \in cols |-> IF c = "status" THEN vals["status"] ELSE r[c]]
        BY <3>2, <2>1
      <4> QED
        BY <3>2, <4>1
    <3> QED
      BY <2>2, <3>1, <3>2
  <2>4. changed \in ProjectRow /\ changed.org = r.org /\ changed.slug = r.slug /\ changed.deleted = r.deleted
    <3>1. changed = [r EXCEPT !.status = s]
      BY <2>1, <2>3 DEF ProjectRow
    <3> QED
      BY <3>1, <2>1 DEF ProjectRow, ProjectStatuses
  <2>5. Update(projects, p, vals) = [projects EXCEPT ![p] = changed]
    BY <1>2, Zenon DEF Update
  <2> HIDE DEF changed
  <2> QED
    BY <1>2, <2>4, <2>5 DEF ProjectsTypes
<1> QED
  BY <1>1, <1>2

\* A project that is soft-deleted keeps its other columns; one that is not live stays as it is.
LEMMA ProjectDeleted ==
    ASSUME ProjectsTypes, NEW p \in ProjIds
    PROVE  /\ p \notin LiveIds(projects) => SoftDelete(projects, p) = projects
           /\ p \in LiveIds(projects) => SoftDelete(projects, p) = [projects EXCEPT ![p] = [projects[p] EXCEPT !.deleted = TRUE]]
<1>1. CASE p \notin LiveIds(projects)
  BY <1>1 DEF SoftDelete, Update
<1>2. CASE p \in LiveIds(projects)
  <2> DEFINE changed == [c \in DOMAIN projects[p] |-> IF c \in DOMAIN [deleted |-> TRUE] THEN [deleted |-> TRUE][c] ELSE projects[p][c]]
  <2>1. projects[p] \in ProjectRow /\ DOMAIN projects[p] = {"org", "slug", "status", "deleted"}
    BY <1>2 DEF LiveIds, ProjectsTypes, ProjectRow
  <2>2. DOMAIN [deleted |-> TRUE] = {"deleted"} /\ [deleted |-> TRUE]["deleted"] = TRUE
    OBVIOUS
  <2>3. changed = [c \in {"org", "slug", "status", "deleted"} |-> IF c = "deleted" THEN TRUE ELSE projects[p][c]]
    BY <2>1, <2>2
  <2>4. changed = [projects[p] EXCEPT !.deleted = TRUE]
    BY <2>1, <2>3 DEF ProjectRow
  <2>5. SoftDelete(projects, p) = [projects EXCEPT ![p] = changed]
    BY <1>2, Zenon DEF SoftDelete, Update
  <2> QED
    BY <1>2, <2>4, <2>5
<1> QED
  BY <1>1, <1>2

\* A request that is at one of its positions has read what that position needs.
LEMMA ProjectRequestShape ==
    ASSUME ProjectsTypes, NEW w \in Clerks
    PROVE  /\ preqs[w].op \in {"create", "insert"} => preqs[w] \in CreateRequest
           /\ preqs[w].op = "update" => preqs[w] \in ChangeRequest
           /\ preqs[w].op = "update2" => preqs[w] \in ChangeRequest \union StampRequest
           /\ preqs[w].op \in {"delete", "delete2"} => preqs[w] \in RemoveRequest
           /\ preqs[w].op \in {"copy", "probe"} => preqs[w] \in CopyRequest
<1>1. preqs[w] \in ProjectRequest
  BY DEF ProjectsTypes
<1>2. PIdle.op = "idle"
  BY DEF PIdle
<1>3. \A q \in CreateRequest : q.op \in {"create", "insert"}
  BY DEF CreateRequest
<1>4. \A q \in ChangeRequest : q.op \in {"update", "update2"}
  BY DEF ChangeRequest
<1>5. \A q \in RemoveRequest : q.op \in {"delete", "delete2"}
  BY DEF RemoveRequest
<1>6. \A q \in StampRequest : q.op = "update2"
  BY DEF StampRequest
<1>7. \A q \in CopyRequest : q.op \in {"copy", "probe"}
  BY DEF CopyRequest
<1> QED
  BY <1>1, <1>2, <1>3, <1>4, <1>5, <1>6, <1>7 DEF ProjectRequest

\* A request moves on, and no row loses its slug: what the others have probed is still taken.
LEMMA ProjectRequestMoves ==
    ASSUME ProjectsInv, NEW w \in Clerks, NEW q \in ProjectRequest, Advance(w, q),
           \A p \in ProjIds : projects[p] # NoRow => projects'[p] # NoRow /\ projects'[p].slug = projects[p].slug,
           q.op \in Naming => NamesTaken(q.slug[1], q.slug[2])
    PROVE  preqs' \in [Clerks -> ProjectRequest] /\ ProbesFound'
<1>1. preqs' \in [Clerks -> ProjectRequest] /\ \A v \in Clerks : preqs'[v] = IF v = w THEN q ELSE preqs[v]
  BY DEF ProjectsInv, ProjectsTypes, Advance
<1>2. \A b, n : NamesTaken(b, n) => NamesTaken(b, n)'
  BY DEF NamesTaken
<1> QED
  BY <1>1, <1>2 DEF ProjectsInv, ProbesFound

\* Statements that give no row another slug or organization, and revive none, keep the slugs
\* apart.
LEMMA ProjectsChanged ==
    ASSUME ProjectsInv, projects' \in [ProjIds -> ProjectRow \union {NoRow}],
           \A p \in ProjIds : p \in LiveIds(projects') =>
                p \in LiveIds(projects) /\ projects'[p].org = projects[p].org /\ projects'[p].slug = projects[p].slug
    PROVE  OneProjectPerSlug'
<1>1. LiveIds(projects') \subseteq ProjIds
  BY DEF LiveIds
<1> QED
  BY <1>1 DEF ProjectsInv, OneProjectPerSlug

\* Every statement of the requests for projects keeps the invariant, and leaves the deleted
\* rows alone.
LEMMA ProjectsStep ==
    ASSUME ProjectsInv, [ProjectsNext]_pvars
    PROVE  ProjectsInv' /\ \A p \in ProjIds : (projects[p] # NoRow /\ projects[p].deleted) => projects'[p] = projects[p]
<1> DEFINE Frozen == \A p \in ProjIds : (projects[p] # NoRow /\ projects[p].deleted) => projects'[p] = projects[p]
<1>0. ProjectsTypes /\ ProbesFound /\ OneProjectPerSlug
  BY DEF ProjectsInv
<1>a. ASSUME NEW w \in Clerks, NEW q \in ProjectRequest, Advance(w, q), UNCHANGED projects,
             q.op \in Naming => NamesTaken(q.slug[1], q.slug[2])
      PROVE ProjectsInv' /\ Frozen
  <2>1. preqs' \in [Clerks -> ProjectRequest] /\ ProbesFound'
    BY <1>a, ProjectRequestMoves
  <2> QED
    BY <1>0, <1>a, <2>1 DEF ProjectsInv, ProjectsTypes, OneProjectPerSlug
<1>b. PIdle \in ProjectRequest /\ PIdle.op \notin Naming
  BY DEF PIdle, ProjectRequest, Naming
<1>c. ASSUME NEW w \in Clerks, Answer(w), UNCHANGED projects PROVE ProjectsInv' /\ Frozen
  BY <1>a, <1>b, <1>c DEF Answer
<1>d. \A b : NamesTaken(b, 0)
  BY DEF NamesTaken
<1>1. CASE UNCHANGED pvars
  BY <1>0, <1>1 DEF pvars, ProjectsInv, ProjectsTypes, ProbesFound, NamesTaken, OneProjectPerSlug
<1>2. ASSUME NEW w \in Clerks, NEW o \in Orgs, NEW b \in Bases, CreateProject(w, o, b) PROVE ProjectsInv' /\ Frozen
  <2> DEFINE q == [op |-> "create", org |-> o, slug |-> <<b, 0>>]
  <2>1. q \in ProjectRequest /\ q.slug[1] = b /\ q.slug[2] = 0
    BY DEF ProjectRequest, CreateRequest
  <2> HIDE DEF q
  <2> QED
    BY <1>2, <1>a, <1>d, <2>1 DEF CreateProject, ProjectRoute, q
<1>3. ASSUME NEW w \in Clerks, NEW o \in Orgs, NEW p \in ProjIds, NEW vals \in {Changes, Archive, Restore},
             ProjectRoute(w, [op |-> "update", org |-> o, id |-> p, vals |-> vals])
      PROVE ProjectsInv' /\ Frozen
  <2> DEFINE q == [op |-> "update", org |-> o, id |-> p, vals |-> vals]
  <2>1. q \in ProjectRequest /\ q.op \notin Naming
    BY DEF ProjectRequest, ChangeRequest, Naming
  <2> HIDE DEF q
  <2> QED
    BY <1>3, <1>a, <2>1 DEF ProjectRoute, q
<1>4. ASSUME NEW w \in Clerks, NEW o \in Orgs, NEW p \in ProjIds, DeleteProject(w, o, p) PROVE ProjectsInv' /\ Frozen
  <2> DEFINE q == [op |-> "delete", org |-> o, id |-> p]
  <2>1. q \in ProjectRequest /\ q.op \notin Naming
    BY DEF ProjectRequest, RemoveRequest, Naming
  <2> HIDE DEF q
  <2> QED
    BY <1>4, <1>a, <2>1 DEF DeleteProject, ProjectRoute, q
<1>5. ASSUME NEW w \in Clerks, NEW o \in Orgs, NEW p \in ProjIds, NEW b \in Bases, DuplicateProject(w, o, p, b) PROVE ProjectsInv' /\ Frozen
  <2> DEFINE q == [op |-> "copy", org |-> o, id |-> p, slug |-> <<b, 0>>]
  <2>1. q \in ProjectRequest /\ q.slug[1] = b /\ q.slug[2] = 0
    BY DEF ProjectRequest, CopyRequest
  <2> HIDE DEF q
  <2> QED
    BY <1>5, <1>a, <1>d, <2>1 DEF DuplicateProject, ProjectRoute, q
<1>6. ASSUME NEW w \in Clerks, CreateService(w) PROVE ProjectsInv' /\ Frozen
  <2> DEFINE q == [op |-> "insert", org |-> preqs[w].org, slug |-> preqs[w].slug]
  <2>1. preqs[w] \in CreateRequest /\ preqs[w].op = "create"
    BY <1>0, <1>6, ProjectRequestShape DEF CreateService
  <2>2. q \in ProjectRequest /\ q.slug = preqs[w].slug
    BY <2>1 DEF ProjectRequest, CreateRequest
  <2>3. NamesTaken(q.slug[1], q.slug[2])
    BY <1>0, <2>1, <2>2 DEF ProbesFound, Naming
  <2>4. (Answer(w) \/ Advance(w, q)) /\ UNCHANGED projects
    BY <1>6 DEF CreateService
  <2> HIDE DEF q
  <2> QED
    BY <1>a, <1>c, <2>2, <2>3, <2>4
<1>7. ASSUME NEW w \in Clerks, LookUp(w) PROVE ProjectsInv' /\ Frozen
  <2> DEFINE at == CASE preqs[w].op = "update" -> "update2" [] preqs[w].op = "delete" -> "delete2" [] preqs[w].op = "copy" -> "probe"
             q == [preqs[w] EXCEPT !.op = at]
  <2>1. (Answer(w) \/ Advance(w, q)) /\ UNCHANGED projects /\ preqs[w].op \in {"update", "delete", "copy"}
    BY <1>7 DEF LookUp
  <2>2. q \in ProjectRequest /\ (q.op \in Naming => NamesTaken(q.slug[1], q.slug[2]))
    <3>1. CASE preqs[w].op = "update"
      <4>1. at = "update2" /\ preqs[w] \in ChangeRequest
        BY <1>0, <3>1, ProjectRequestShape
      <4> HIDE DEF at
      <4> QED
        BY <4>1 DEF ProjectRequest, ChangeRequest, Naming
    <3>2. CASE preqs[w].op = "delete"
      <4>1. at = "delete2" /\ preqs[w] \in RemoveRequest
        BY <1>0, <3>2, ProjectRequestShape
      <4> HIDE DEF at
      <4> QED
        BY <4>1 DEF ProjectRequest, RemoveRequest, Naming
    <3>3. CASE preqs[w].op = "copy"
      <4>1. at = "probe" /\ preqs[w] \in CopyRequest
        BY <1>0, <3>3, ProjectRequestShape
      <4> HIDE DEF at
      <4>2. q \in ProjectRequest /\ q.slug = preqs[w].slug
        BY <4>1 DEF ProjectRequest, CopyRequest
      <4>3. NamesTaken(preqs[w].slug[1], preqs[w].slug[2])
        BY <1>0, <3>3 DEF ProbesFound, Naming
      <4> QED
        BY <4>2, <4>3
    <3> QED
      BY <2>1, <3>1, <3>2, <3>3
  <2> HIDE DEF q
  <2> QED
    BY <1>a, <1>c, <2>1, <2>2
<1>8. ASSUME NEW w \in Clerks, DuplicateProbe(w) PROVE ProjectsInv' /\ Frozen
  <2> DEFINE s == preqs[w].slug
             q1 == [preqs[w] EXCEPT !.slug = <<s[1], s[2] + 1>>]
             q2 == [op |-> "insert", org |-> preqs[w].org, slug |-> s]
  <2>1. preqs[w] \in CopyRequest /\ preqs[w].op = "probe" /\ UNCHANGED projects
    BY <1>0, <1>8, ProjectRequestShape DEF DuplicateProbe
  <2>2. s \in Bases \X Nat /\ s = <<s[1], s[2]>> /\ s[1] \in Bases /\ s[2] \in Nat
    BY <2>1 DEF CopyRequest
  <2>3. NamesTaken(s[1], s[2])
    BY <1>0, <2>1 DEF ProbesFound, Naming
  <2>4. CASE SlugExists(preqs[w].org, s) /\ Advance(w, q1)
    <3>1. PICK p \in LiveIds(projects) : projects[p].slug = s
      BY <2>4 DEF SlugExists, Find
    <3>2. p \in ProjIds /\ projects[p] # NoRow
      BY <1>0 DEF LiveIds, ProjectsTypes
    <3>3. NamesTaken(s[1], s[2] + 1)
      BY <2>2, <2>3, <3>1, <3>2, SMTT(60) DEF NamesTaken
    <3>4. q1 \in ProjectRequest /\ q1.slug[1] = s[1] /\ q1.slug[2] = s[2] + 1
      BY <2>1, <2>2 DEF ProjectRequest, CopyRequest
    <3> HIDE DEF q1
    <3> QED
      BY <1>a, <2>1, <2>4, <3>3, <3>4
  <2>5. CASE Advance(w, q2)
    <3>1. q2 \in ProjectRequest /\ q2.slug = s
      BY <2>1, <2>2 DEF ProjectRequest, CopyRequest, CreateRequest
    <3> HIDE DEF q2
    <3> QED
      BY <1>a, <2>1, <2>3, <2>5, <3>1
  <2> QED
    BY <1>8, <2>4, <2>5 DEF DuplicateProbe
<1>9. ASSUME NEW w \in Clerks, UpdateProject2(w) PROVE ProjectsInv' /\ Frozen
  <2>1. /\ preqs[w].id \in ProjIds /\ preqs[w].vals \in {Changes, [status |-> "deleted"], Archive, Restore}
        /\ projects' = Update(projects, preqs[w].id, preqs[w].vals) /\ Advance(w, PIdle)
    BY <1>0, <1>9, ProjectRequestShape DEF UpdateProject2, Answer, ChangeRequest, StampRequest
  <2> DEFINE p == preqs[w].id
  <2>2. /\ projects' \in [ProjIds -> ProjectRow \union {NoRow}]
        /\ p \notin LiveIds(projects) => projects' = projects
        /\ \A q \in ProjIds \ {p} : projects'[q] = projects[q]
        /\ p \in LiveIds(projects) =>
            /\ projects'[p] \in ProjectRow /\ projects'[p].org = projects[p].org
            /\ projects'[p].slug = projects[p].slug /\ projects'[p].deleted = projects[p].deleted
    BY <1>0, <2>1, ProjectUpdated
  <2>3. \A q \in ProjIds : projects[q] # NoRow => projects'[q] # NoRow /\ projects'[q].slug = projects[q].slug
    BY <2>1, <2>2, ProjectsAssumption
  <2>4. preqs' \in [Clerks -> ProjectRequest] /\ ProbesFound'
    BY <1>b, <2>1, <2>3, ProjectRequestMoves
  <2>5. \A q \in ProjIds : q \in LiveIds(projects') =>
            q \in LiveIds(projects) /\ projects'[q].org = projects[q].org /\ projects'[q].slug = projects[q].slug
    <3> SUFFICES ASSUME NEW q \in ProjIds, q \in LiveIds(projects')
                 PROVE q \in LiveIds(projects) /\ projects'[q].org = projects[q].org /\ projects'[q].slug = projects[q].slug
      OBVIOUS
    <3>1. CASE q = p
      BY <3>1, <2>2 DEF LiveIds, ProjectsTypes
    <3>2. CASE q # p
      BY <3>2, <1>0, <2>2 DEF LiveIds, ProjectsTypes
    <3> QED
      BY <3>1, <3>2
  <2>6. OneProjectPerSlug'
    BY <2>2, <2>5, ProjectsChanged
  <2>7. Frozen
    BY <2>1, <2>2 DEF LiveIds
  <2> QED
    BY <2>2, <2>4, <2>6, <2>7 DEF ProjectsInv, ProjectsTypes
<1>10. ASSUME NEW w \in Clerks, SoftDeleteProject(w) PROVE ProjectsInv' /\ Frozen
  <2> DEFINE p == preqs[w].id
             q == [op |-> "update2", id |-> p, vals |-> [status |-> "deleted"]]
  <2>1. p \in ProjIds /\ projects' = SoftDelete(projects, p) /\ Advance(w, q)
    BY <1>0, <1>10, ProjectRequestShape DEF SoftDeleteProject, RemoveRequest
  <2>2. q \in ProjectRequest /\ q.op \notin Naming
    BY <2>1 DEF ProjectRequest, StampRequest, Naming
  <2> HIDE DEF q
  <2>3. CASE p \notin LiveIds(projects)
    BY <1>0, <1>a, <2>1, <2>2, <2>3, ProjectDeleted
  <2>4. CASE p \in LiveIds(projects)
    <3>1. projects' = [projects EXCEPT ![p] = [projects[p] EXCEPT !.deleted = TRUE]] /\ projects[p] \in ProjectRow /\ ~projects[p].deleted
      BY <1>0, <2>1, <2>4, ProjectDeleted DEF LiveIds, ProjectsTypes
    <3>2. /\ projects'[p] \in ProjectRow /\ projects'[p].slug = projects[p].slug /\ projects'[p].deleted = TRUE
          /\ \A x \in ProjIds \ {p} : projects'[x] = projects[x]
      <4>1. \A r \in ProjectRow : /\ [r EXCEPT !.deleted = TRUE] \in ProjectRow /\ [r EXCEPT !.deleted = TRUE].slug = r.slug
                                 /\ [r EXCEPT !.deleted = TRUE].deleted = TRUE
        BY DEF ProjectRow
      <4>2. projects'[p] = [projects[p] EXCEPT !.deleted = TRUE] /\ \A x \in ProjIds \ {p} : projects'[x] = projects[x]
        BY <1>0, <2>1, <3>1 DEF ProjectsTypes
      <4> QED
        BY <3>1, <4>1, <4>2
    <3>3. projects' \in [ProjIds -> ProjectRow \union {NoRow}]
      BY <1>0, <2>1, <3>1, <3>2 DEF ProjectsTypes
    <3>4. preqs' \in [Clerks -> ProjectRequest] /\ ProbesFound'
      BY <2>1, <2>2, <3>2, ProjectsAssumption, ProjectRequestMoves
    <3>5. \A x \in ProjIds : x \in LiveIds(projects') =>
            x \in LiveIds(projects) /\ projects'[x].org = projects[x].org /\ projects'[x].slug = projects[x].slug
      BY <1>0, <3>2 DEF LiveIds, ProjectsTypes
    <3>6. OneProjectPerSlug'
      BY <3>3, <3>5, ProjectsChanged
    <3>7. Frozen
      BY <3>1, <3>2
    <3> QED
      BY <3>3, <3>4, <3>6, <3>7 DEF ProjectsInv, ProjectsTypes
  <2> QED
    BY <2>3, <2>4
<1>11. ASSUME NEW w \in Clerks, ProjectRequestFails(w) PROVE ProjectsInv' /\ Frozen
  BY <1>11, <1>c DEF ProjectRequestFails
<1>12. ASSUME NEW w \in Clerks, NEW p \in ProjIds, InsertProject(w, p) PROVE ProjectsInv' /\ Frozen
  <2> DEFINE row == [org |-> preqs[w].org, slug |-> preqs[w].slug, status |-> "active", deleted |-> FALSE]
  <2>1. preqs[w] \in CreateRequest /\ preqs[w].op = "insert" /\ projects[p] = NoRow /\ Advance(w, PIdle)
    BY <1>0, <1>12, ProjectRequestShape DEF InsertProject, Answer
  <2>2. CASE projects' = projects
    BY <1>c, <2>1, <2>2 DEF Answer
  <2>3. CASE SlugUnique(preqs[w].org, preqs[w].slug) /\ projects' = [projects EXCEPT ![p] = row]
    <3>1. /\ preqs[w].slug = <<preqs[w].slug[1], preqs[w].slug[2]>> /\ preqs[w].org \in Orgs
          /\ preqs[w].slug[1] \in Bases /\ preqs[w].slug[2] \in Nat
      BY <2>1 DEF CreateRequest
    <3>2. preqs[w].slug[2] <= Cardinality(ProjIds)
      <4>1. NamesTaken(preqs[w].slug[1], preqs[w].slug[2])
        BY <1>0, <2>1 DEF ProbesFound, Naming
      <4> QED
        BY <3>1, <4>1, NamesBounded
    <3>3. preqs[w].slug \in Slugs
      <4>1. Cardinality(ProjIds) \in Nat
        BY FS_CardinalityType, ProjectsAssumption
      <4>2. preqs[w].slug[2] \in 0..Cardinality(ProjIds)
        BY <3>1, <3>2, <4>1
      <4> QED
        BY <3>1, <4>2 DEF Slugs
    <3>4. row \in ProjectRow /\ row # NoRow
      <4>1. row \in ProjectRow
        BY <3>1, <3>3 DEF ProjectRow
      <4> QED
        BY <4>1, ProjectsAssumption
    <3>5. row.org = preqs[w].org /\ row.slug = preqs[w].slug
      OBVIOUS
    <3> HIDE DEF row
    <3>6. projects'[p] = row /\ \A x \in ProjIds \ {p} : projects'[x] = projects[x]
      BY <1>0, <2>3 DEF ProjectsTypes
    <3>7. projects' \in [ProjIds -> ProjectRow \union {NoRow}]
      BY <1>0, <2>3, <3>4 DEF ProjectsTypes
    <3>8. preqs' \in [Clerks -> ProjectRequest] /\ ProbesFound'
      BY <1>b, <2>1, <3>6, ProjectRequestMoves
    <3>9. \A x \in LiveIds(projects') : x = p \/ (x \in LiveIds(projects) /\ projects'[x] = projects[x])
      BY <1>0, <3>6, <3>7 DEF LiveIds, ProjectsTypes
    <3>10. \A x \in LiveIds(projects) : projects[x].org # row.org \/ projects[x].slug # row.slug
      BY <2>3, <3>5 DEF SlugUnique
    <3>11. OneProjectPerSlug'
      BY <1>0, <3>6, <3>9, <3>10 DEF OneProjectPerSlug
    <3>12. Frozen
      BY <2>1, <3>6
    <3> QED
      BY <3>7, <3>8, <3>11, <3>12 DEF ProjectsInv, ProjectsTypes
  <2> QED
    BY <1>12, <2>2, <2>3 DEF InsertProject, Insert
<1>13. CASE ProjectsNext
  BY <1>13, <1>2, <1>3, <1>4, <1>5, <1>6, <1>7, <1>8, <1>9, <1>10, <1>11, <1>12
     DEF ProjectsNext, UpdateProject, ArchiveProject, RestoreProject
<1> QED
  BY <1>1, <1>13 DEF pvars

\* The behaviours of the projects.
ProjectsSpec == ProjectsInit /\ [][ProjectsNext]_pvars

\* Empty tables satisfy the invariant.
LEMMA ProjectsStart == ProjectsInit => ProjectsInv
<1> SUFFICES ASSUME ProjectsInit PROVE ProjectsInv
  OBVIOUS
<1>1. ProjectsTypes
  BY DEF ProjectsInit, ProjectsTypes, ProjectRequest
<1>2. ProbesFound
  BY DEF ProjectsInit, ProbesFound, PIdle, Naming
<1>3. OneProjectPerSlug
  BY DEF ProjectsInit, OneProjectPerSlug, LiveIds
<1> QED
  BY <1>1, <1>2, <1>3 DEF ProjectsInv

\* A request that looked a project up before another one deleted it changes nothing of it,
\* and neither does the second statement of the deletion.
THEOREM DeletedStaysFrozen == ProjectsSpec => DeletedFrozen
<1>1. ProjectsInv /\ [ProjectsNext]_pvars => ProjectsInv'
  BY ProjectsStep
<1>2. ProjectsInv /\ [ProjectsNext]_pvars
      => [\A p \in ProjIds : (projects[p] # NoRow /\ projects[p].deleted) => projects'[p] = projects[p]]_pvars
  BY ProjectsStep
<1> QED
  BY <1>1, <1>2, ProjectsStart, PTL DEF ProjectsSpec, DeletedFrozen

-----------------------------------------------------------------------------
(* Environment variables and secrets *)

CreateValueRequest == [op : {"create"}, kind : Kinds, name : KeyNames, scope : Scopes, enc : Ciphertexts]
UpdateValueRequest == [op : {"update"}, id : ValueIds, enc : Ciphertexts]
WriteValueRequest == [op : {"write"}, id : ValueIds, enc : Ciphertexts, read : ValueRow]

ValueRequest == {VIdle} \union CreateValueRequest \union UpdateValueRequest \union WriteValueRequest

ConfigTypes ==
    /\ values \in [ValueIds -> ValueRow \union {NoRow}]
    /\ history \subseteq [id : ValueIds, version : Nat \ {0}, enc : Ciphertexts]
    /\ lastValue \in 0..MaxValue
    /\ vreqs \in [Editors -> ValueRequest]

\* The requests that carry a value, and those that have a row to write it to.
Carrying == {"create", "update", "write"}
Rewriting == {"update", "write"}

\* Rows that requests have looked up are there.
LookedUp == \A w \in Editors : vreqs[w].op \in Rewriting => values[vreqs[w].id] # NoRow

\* No value is later than the last one that was sent.
ValuesSent ==
    /\ \A v \in ValueIds : values[v] # NoRow => values[v].enc.value <= lastValue
    /\ \A w \in Editors : vreqs[w].op \in Carrying => vreqs[w].enc.value <= lastValue
    /\ \A w \in Editors : vreqs[w].op = "write" => vreqs[w].read.enc.value <= lastValue

\* The value that a request carries is its own: it is in no row, no other request carries it,
\* and no transaction has read it.
ValuesOwn ==
    \A w \in Editors : vreqs[w].op \in Carrying =>
        /\ \A v \in ValueIds : values[v] # NoRow => values[v].enc # vreqs[w].enc
        /\ \A x \in Editors \ {w} : vreqs[x].op \in Carrying => vreqs[x].enc # vreqs[w].enc
        /\ \A x \in Editors : vreqs[x].op = "write" => vreqs[x].read.enc # vreqs[w].enc

\* A transaction that has read the row's present value has read its present version.
ReadsPresent ==
    \A w \in Editors : vreqs[w].op = "write" =>
        (vreqs[w].read.enc = values[vreqs[w].id].enc => vreqs[w].read.version = values[vreqs[w].id].version)

ConfigInv == ConfigTypes /\ LookedUp /\ ValuesSent /\ ValuesOwn /\ ReadsPresent /\ OneValuePerName

\* A request that is at one of its positions has read what that position needs.
LEMMA ValueRequestShape ==
    ASSUME ConfigTypes, NEW w \in Editors
    PROVE  /\ vreqs[w].op = "create" => vreqs[w] \in CreateValueRequest
           /\ vreqs[w].op = "update" => vreqs[w] \in UpdateValueRequest
           /\ vreqs[w].op = "write" => vreqs[w] \in WriteValueRequest
           /\ vreqs[w].op \in Carrying => vreqs[w].enc \in Ciphertexts
           /\ vreqs[w].op \in Rewriting => vreqs[w].id \in ValueIds
<1>1. vreqs[w] \in ValueRequest
  BY DEF ConfigTypes
<1>2. VIdle.op = "idle"
  BY DEF VIdle
<1>3. \A q \in CreateValueRequest : q.op = "create" /\ q.enc \in Ciphertexts
  BY DEF CreateValueRequest
<1>4. \A q \in UpdateValueRequest : q.op = "update" /\ q.enc \in Ciphertexts /\ q.id \in ValueIds
  BY DEF UpdateValueRequest
<1>5. \A q \in WriteValueRequest : q.op = "write" /\ q.enc \in Ciphertexts /\ q.id \in ValueIds
  BY DEF WriteValueRequest
<1> QED
  BY <1>1, <1>2, <1>3, <1>4, <1>5 DEF ValueRequest, Carrying, Rewriting

\* A value that is soft-deleted keeps its other columns.
LEMMA ValueDeleted ==
    ASSUME ConfigTypes, NEW v \in LiveIds(values)
    PROVE  /\ v \in ValueIds /\ values[v] \in ValueRow
           /\ SoftDelete(values, v) = [values EXCEPT ![v] = [values[v] EXCEPT !.deleted = TRUE]]
<1>1. v \in ValueIds /\ values[v] \in ValueRow
  BY DEF LiveIds, ConfigTypes
<1> DEFINE cols == {"kind", "name", "scope", "enc", "version", "deleted"}
           changed == [c \in DOMAIN values[v] |-> IF c \in DOMAIN [deleted |-> TRUE] THEN [deleted |-> TRUE][c] ELSE values[v][c]]
<1>2. DOMAIN values[v] = cols
  BY <1>1 DEF ValueRow
<1>3. DOMAIN [deleted |-> TRUE] = {"deleted"} /\ [deleted |-> TRUE]["deleted"] = TRUE
  OBVIOUS
<1>4. changed = [c \in cols |-> IF c = "deleted" THEN TRUE ELSE values[v][c]]
  BY <1>2, <1>3
<1>5. changed = [values[v] EXCEPT !.deleted = TRUE]
  BY <1>1, <1>2, <1>4 DEF ValueRow
<1>6. SoftDelete(values, v) = [values EXCEPT ![v] = changed]
  BY <1>1, Zenon DEF SoftDelete, Update
<1> QED
  BY <1>1, <1>5, <1>6

\* A request that ends leaves less to be known.
LEMMA ValueRequestEnds ==
    ASSUME ConfigInv, NEW w \in Editors, VTo(w, VIdle), UNCHANGED <<values, history, lastValue>>
    PROVE  ConfigInv'
<1>1. vreqs' \in [Editors -> ValueRequest]
  BY DEF ConfigInv, ConfigTypes, VTo, ValueRequest
<1>2. \A x \in Editors : vreqs'[x] = vreqs[x] \/ vreqs'[x].op = "idle"
  BY DEF ConfigInv, ConfigTypes, VTo, VIdle
<1>3. \A x \in Editors : vreqs'[x].op \in Carrying => vreqs'[x] = vreqs[x]
  BY <1>2 DEF Carrying
<1>4. ConfigTypes' /\ OneValuePerName'
  BY <1>1 DEF ConfigInv, ConfigTypes, OneValuePerName
<1>5. LookedUp' /\ ReadsPresent'
  BY <1>3 DEF ConfigInv, LookedUp, ReadsPresent, Carrying, Rewriting
<1>6. ValuesSent'
  BY <1>3 DEF ConfigInv, ValuesSent, Carrying
<1>7. ValuesOwn'
  BY <1>3 DEF ConfigInv, ValuesOwn, Carrying
<1> QED
  BY <1>4, <1>5, <1>6, <1>7 DEF ConfigInv

\* A request that arrives with a new value.
LEMMA ValueArrives ==
    ASSUME ConfigInv, NEW w \in Editors, NEW q, q \in CreateValueRequest \union UpdateValueRequest,
           lastValue < MaxValue, lastValue' = lastValue + 1, VTo(w, q), q.enc.value = lastValue', UNCHANGED <<values, history>>,
           q.op = "update" => values[q.id] # NoRow
    PROVE  ConfigInv'
<1>0. ConfigTypes /\ LookedUp /\ ValuesSent /\ ValuesOwn /\ ReadsPresent /\ OneValuePerName /\ lastValue \in Nat
  BY ConfigAssumption DEF ConfigInv, ConfigTypes
<1>1. q \in ValueRequest /\ q.op \in {"create", "update"}
  BY DEF ValueRequest, CreateValueRequest, UpdateValueRequest
<1>2. vreqs' \in [Editors -> ValueRequest] /\ vreqs'[w] = q /\ \A x \in Editors \ {w} : vreqs'[x] = vreqs[x]
  BY <1>0, <1>1 DEF ConfigTypes, VTo
<1>3. ConfigTypes' /\ OneValuePerName'
  BY <1>0, <1>2, ConfigAssumption DEF ConfigTypes, OneValuePerName
<1>4. LookedUp' /\ ReadsPresent'
  BY <1>0, <1>1, <1>2 DEF LookedUp, ReadsPresent, Rewriting
<1>5. \A e \in Ciphertexts : e.value \in Nat
  BY ConfigAssumption DEF Ciphertexts
<1>6. /\ \A v \in ValueIds : values[v] # NoRow => values[v].enc \in Ciphertexts
      /\ \A x \in Editors : vreqs[x].op = "write" => vreqs[x].read.enc \in Ciphertexts
      /\ \A x \in Editors : vreqs[x].op \in Carrying => vreqs[x].enc \in Ciphertexts
  <2>1. \A v \in ValueIds : values[v] # NoRow => values[v].enc \in Ciphertexts
    BY <1>0 DEF ConfigTypes, ValueRow
  <2>2. \A x \in Editors : vreqs[x].op = "write" => vreqs[x].read.enc \in Ciphertexts
    BY <1>0, ValueRequestShape DEF WriteValueRequest, ValueRow
  <2> QED
    BY <1>0, <2>1, <2>2, ValueRequestShape
<1>7. ValuesSent'
  BY <1>0, <1>1, <1>2, <1>5, <1>6 DEF ValuesSent
<1>8. /\ \A v \in ValueIds : values[v] # NoRow => values[v].enc # q.enc
      /\ \A x \in Editors : vreqs[x].op = "write" => vreqs[x].read.enc # q.enc
      /\ \A x \in Editors : vreqs[x].op \in Carrying => vreqs[x].enc # q.enc
  BY <1>0, <1>5, <1>6 DEF ValuesSent
<1>9. ValuesOwn'
  BY <1>0, <1>1, <1>2, <1>8 DEF ValuesOwn
<1> QED
  BY <1>3, <1>4, <1>7, <1>9 DEF ConfigInv

\* Every statement of the requests for values keeps the invariant, and keeps what it overwrites
\* unless its transaction had read an earlier value.
LEMMA ConfigStep ==
    ASSUME ConfigInv, [ConfigNext]_cvars
    PROVE  /\ ConfigInv'
           /\ \A v \in ValueIds : (values[v] # NoRow /\ values'[v].enc # values[v].enc) =>
                \/ [id |-> v, version |-> values[v].version, enc |-> values[v].enc] \in history'
                \/ \E w \in Editors : vreqs[w].op = "write" /\ vreqs[w].id = v /\ vreqs[w].read.enc # values[v].enc
<1> DEFINE Kept == \A v \in ValueIds : (values[v] # NoRow /\ values'[v].enc # values[v].enc) =>
                \/ [id |-> v, version |-> values[v].version, enc |-> values[v].enc] \in history'
                \/ \E w \in Editors : vreqs[w].op = "write" /\ vreqs[w].id = v /\ vreqs[w].read.enc # values[v].enc
<1>0. ConfigTypes /\ LookedUp /\ ValuesSent /\ ValuesOwn /\ ReadsPresent /\ OneValuePerName /\ lastValue \in Nat /\ MaxValue \in Nat
  BY ConfigAssumption DEF ConfigInv, ConfigTypes
<1>1. CASE UNCHANGED cvars
  BY <1>0, <1>1 DEF cvars, ConfigInv, ConfigTypes, LookedUp, ValuesSent, ValuesOwn, ReadsPresent, OneValuePerName
<1>a. lastValue < MaxValue => Encrypt(lastValue + 1, AAD(Project)) \in Ciphertexts /\ Encrypt(lastValue + 1, AAD(Project)).value = lastValue + 1
  BY <1>0 DEF Encrypt, Ciphertexts
<1>2. ASSUME NEW w \in Editors, NEW k \in KeyNames, NEW s \in Scopes, CreateEnv(w, k, s) \/ CreateSecret(w, k, s) PROVE ConfigInv' /\ Kept
  <2> DEFINE e == Encrypt(lastValue + 1, AAD(Project))
  <2>1. PICK kind \in Kinds : ValueRoute(w, [op |-> "create", kind |-> kind, name |-> k, scope |-> s, enc |-> 0])
    BY <1>2 DEF CreateEnv, CreateSecret, Kinds
  <2> DEFINE q == [op |-> "create", kind |-> kind, name |-> k, scope |-> s, enc |-> e]
  <2>2. lastValue < MaxValue /\ lastValue' = lastValue + 1 /\ VTo(w, q) /\ UNCHANGED <<values, history>>
    BY <2>1 DEF ValueRoute
  <2>3. e \in Ciphertexts /\ e.value = lastValue'
    BY <1>a, <2>2
  <2> HIDE DEF e
  <2>4. q \in CreateValueRequest /\ q.enc = e /\ q.op = "create"
    BY <2>3 DEF CreateValueRequest
  <2> HIDE DEF q
  <2>5. ConfigInv'
    BY <2>2, <2>3, <2>4, ValueArrives
  <2> QED
    BY <2>2, <2>5
<1>3. ASSUME NEW w \in Editors, NEW v \in ValueIds, UpdateEnv(w, v) \/ RotateSecret(w, v) PROVE ConfigInv' /\ Kept
  <2> DEFINE e == Encrypt(lastValue + 1, AAD(Project))
             q == [op |-> "update", id |-> v, enc |-> e]
  <2>1. ValueRoute(w, [op |-> "update", id |-> v, enc |-> 0]) /\ values[v] # NoRow
    BY <1>3 DEF UpdateEnv, RotateSecret, LiveIds
  <2>2. lastValue < MaxValue /\ lastValue' = lastValue + 1 /\ VTo(w, q) /\ UNCHANGED <<values, history>>
    BY <2>1 DEF ValueRoute
  <2>3. e \in Ciphertexts /\ e.value = lastValue'
    BY <1>a, <2>2
  <2> HIDE DEF e
  <2>4. q \in UpdateValueRequest /\ q.enc = e /\ q.op = "update" /\ q.id = v
    BY <2>3 DEF UpdateValueRequest
  <2> HIDE DEF q
  <2>5. ConfigInv'
    BY <2>1, <2>2, <2>3, <2>4, ValueArrives
  <2> QED
    BY <2>2, <2>5
<1>4. ASSUME NEW w \in Editors, NEW v \in ValueIds, CreateValue(w, v) PROVE ConfigInv' /\ Kept
  <2> DEFINE q == vreqs[w]
             row == [kind |-> q.kind, name |-> q.name, scope |-> q.scope, enc |-> q.enc, version |-> 1, deleted |-> FALSE]
  <2>1. q \in CreateValueRequest /\ q.op = "create" /\ values[v] = NoRow /\ VTo(w, VIdle) /\ UNCHANGED <<history, lastValue>>
    BY <1>0, <1>4, ValueRequestShape DEF CreateValue
  <2>2. CASE values' = values
    BY <2>1, <2>2, ValueRequestEnds
  <2>3. CASE NameFree(q.kind, q.name, q.scope) /\ values' = [values EXCEPT ![v] = row]
    <3>1. row \in ValueRow
      BY <2>1 DEF CreateValueRequest, ValueRow
    <3>2. row # NoRow /\ row.enc = q.enc /\ row.kind = q.kind /\ row.name = q.name /\ row.scope = q.scope
      BY <3>1, ConfigAssumption
    <3> HIDE DEF row
    <3>3. values' \in [ValueIds -> ValueRow \union {NoRow}] /\ values'[v] = row /\ \A x \in ValueIds \ {v} : values'[x] = values[x]
      BY <1>0, <2>3, <3>1 DEF ConfigTypes
    <3>4. /\ vreqs' \in [Editors -> ValueRequest]
          /\ \A x \in Editors : vreqs'[x].op \in Carrying => x # w /\ vreqs'[x] = vreqs[x]
      BY <1>0, <2>1 DEF ConfigTypes, VTo, VIdle, ValueRequest, Carrying
    <3>5. ConfigTypes'
      BY <1>0, <2>1, <3>3, <3>4 DEF ConfigTypes
    <3>6. \A x \in Editors : vreqs[x].op \in Rewriting => vreqs[x].id \in ValueIds /\ vreqs[x].id # v
      BY <1>0, <2>1, ValueRequestShape DEF LookedUp
    <3>7. LookedUp' /\ ReadsPresent'
      BY <1>0, <3>3, <3>4, <3>6 DEF LookedUp, ReadsPresent, Rewriting, Carrying
    <3>8. ValuesSent'
      BY <1>0, <2>1, <3>2, <3>3, <3>4 DEF ValuesSent, Carrying
    <3>9. ValuesOwn'
      BY <1>0, <2>1, <3>2, <3>3, <3>4 DEF ValuesOwn, Carrying
    <3>10. \A x \in LiveIds(values') : x = v \/ (x \in LiveIds(values) /\ values'[x] = values[x])
      BY <1>0, <3>3 DEF LiveIds, ConfigTypes
    <3>11. \A x \in LiveIds(values) : ~(values[x].kind = row.kind /\ values[x].name = row.name /\ values[x].scope = row.scope)
      BY <2>3, <3>2 DEF NameFree, Find
    <3>12. OneValuePerName'
      BY <1>0, <3>3, <3>10, <3>11 DEF OneValuePerName
    <3>13. Kept
      BY <2>1, <3>3
    <3> QED
      BY <3>5, <3>7, <3>8, <3>9, <3>12, <3>13 DEF ConfigInv
  <2> QED
    BY <1>4, <2>2, <2>3 DEF CreateValue, Insert
<1>5. ASSUME NEW w \in Editors, ReadVersion(w) PROVE ConfigInv' /\ Kept
  <2>1. vreqs[w] \in UpdateValueRequest /\ vreqs[w].op = "update" /\ UNCHANGED <<values, history, lastValue>>
    BY <1>0, <1>5, ValueRequestShape DEF ReadVersion
  <2>2. CASE VTo(w, VIdle)
    BY <2>1, <2>2, ValueRequestEnds
  <2> DEFINE q == [op |-> "write", id |-> vreqs[w].id, enc |-> vreqs[w].enc, read |-> values[vreqs[w].id]]
  <2>3. CASE vreqs[w].id \in LiveIds(values) /\ VTo(w, q)
    <3>1. vreqs[w].id \in ValueIds /\ values[vreqs[w].id] \in ValueRow /\ values[vreqs[w].id] # NoRow
      BY <1>0, <2>1, <2>3 DEF LiveIds, ConfigTypes, UpdateValueRequest
    <3>2. /\ q \in WriteValueRequest /\ q.op = "write" /\ q.id = vreqs[w].id /\ q.enc = vreqs[w].enc
          /\ q.read = values[vreqs[w].id]
      BY <2>1, <3>1 DEF WriteValueRequest, UpdateValueRequest
    <3> HIDE DEF q
    <3>3. vreqs' \in [Editors -> ValueRequest] /\ vreqs'[w] = q /\ \A x \in Editors \ {w} : vreqs'[x] = vreqs[x]
      BY <1>0, <2>3, <3>2 DEF ConfigTypes, VTo, ValueRequest
    <3>4. ConfigTypes' /\ OneValuePerName'
      BY <1>0, <2>1, <3>3 DEF ConfigTypes, OneValuePerName
    <3>5. LookedUp' /\ ReadsPresent'
      BY <1>0, <2>1, <3>1, <3>2, <3>3 DEF LookedUp, ReadsPresent, Rewriting
    <3>6. ValuesSent'
      BY <1>0, <2>1, <3>1, <3>2, <3>3 DEF ValuesSent, Carrying
    <3>7. ValuesOwn'
      BY <1>0, <2>1, <3>1, <3>2, <3>3 DEF ValuesOwn, Carrying
    <3> QED
      BY <2>1, <3>4, <3>5, <3>6, <3>7 DEF ConfigInv
  <2> QED
    BY <1>5, <2>2, <2>3 DEF ReadVersion
<1>6. ASSUME NEW w \in Editors, WriteVersion(w) PROVE ConfigInv' /\ Kept
  <2> DEFINE q == vreqs[w]
             v == q.id
             row == [values[v] EXCEPT !.enc = q.enc, !.version = q.read.version + 1]
  <2>1. q \in WriteValueRequest /\ q.op = "write" /\ VTo(w, VIdle) /\ UNCHANGED lastValue
    BY <1>0, <1>6, ValueRequestShape DEF WriteVersion
  <2>2. /\ v \in ValueIds /\ q.enc \in Ciphertexts /\ q.read \in ValueRow
        /\ q.read.version \in Nat \ {0} /\ q.read.enc \in Ciphertexts
    BY <2>1 DEF WriteValueRequest, ValueRow
  <2>3. values[v] # NoRow /\ values[v] \in ValueRow
    BY <1>0, <2>1, <2>2 DEF LookedUp, Rewriting, ConfigTypes
  <2>4. history' = history \union {KeepVersion(v, q.read)} /\ values' = [values EXCEPT ![v] = row]
    BY <1>6 DEF WriteVersion
  <2>5. /\ row \in ValueRow /\ row.enc = q.enc /\ row.version = q.read.version + 1 /\ row.kind = values[v].kind
        /\ row.name = values[v].name /\ row.scope = values[v].scope /\ row.deleted = values[v].deleted
    <3> DEFINE r == values[v]
               n == q.read.version + 1
    <3>1. r \in ValueRow /\ q.enc \in Ciphertexts /\ n \in Nat \ {0} /\ row = [r EXCEPT !.enc = q.enc, !.version = n]
      BY <2>2, <2>3
    <3> HIDE DEF r, n, row
    <3>2. /\ row \in ValueRow /\ row.enc = q.enc /\ row.version = n
          /\ row.kind = r.kind /\ row.name = r.name /\ row.scope = r.scope /\ row.deleted = r.deleted
      BY <3>1 DEF ValueRow
    <3> QED
      BY <3>2 DEF r, n
  <2>6. KeepVersion(v, q.read) = [id |-> v, version |-> q.read.version, enc |-> q.read.enc]
    BY DEF KeepVersion
  <2> HIDE DEF row
  <2>7. values' \in [ValueIds -> ValueRow \union {NoRow}] /\ values'[v] = row /\ \A x \in ValueIds \ {v} : values'[x] = values[x]
    BY <1>0, <2>2, <2>4, <2>5 DEF ConfigTypes
  <2>8. row # NoRow
    BY <2>5, ConfigAssumption
  <2>9. /\ vreqs' \in [Editors -> ValueRequest]
        /\ \A x \in Editors : vreqs'[x].op \in Carrying => x # w /\ vreqs'[x] = vreqs[x]
    BY <1>0, <2>1 DEF ConfigTypes, VTo, VIdle, ValueRequest, Carrying
  <2>10. [id |-> v, version |-> q.read.version, enc |-> q.read.enc] \in [id : ValueIds, version : Nat \ {0}, enc : Ciphertexts]
    BY <2>2
  <2>11. ConfigTypes'
    BY <1>0, <2>1, <2>4, <2>6, <2>7, <2>9, <2>10 DEF ConfigTypes
  <2>12. LookedUp'
    BY <1>0, <2>7, <2>8, <2>9, ValueRequestShape DEF LookedUp, Rewriting, Carrying
  <2>13. ValuesSent'
    BY <1>0, <2>1, <2>5, <2>7, <2>9 DEF ValuesSent, Carrying
  <2>14. ValuesOwn'
    BY <1>0, <2>1, <2>5, <2>7, <2>9 DEF ValuesOwn, Carrying
  <2>15. ASSUME NEW x \in Editors, vreqs'[x].op = "write", vreqs'[x].read.enc = values'[vreqs'[x].id].enc
         PROVE vreqs'[x].read.version = values'[vreqs'[x].id].version
    <3>1. x # w /\ vreqs'[x] = vreqs[x] /\ vreqs[x].op = "write" /\ vreqs[x].id \in ValueIds
      BY <1>0, <2>9, <2>15, ValueRequestShape DEF Carrying, Rewriting
    <3>2. vreqs[x].read.enc # q.enc
      BY <1>0, <2>1, <3>1 DEF ValuesOwn, Carrying
    <3>3. vreqs[x].id # v
      BY <2>5, <2>7, <2>15, <3>1, <3>2
    <3> QED
      BY <1>0, <2>7, <2>15, <3>1, <3>3 DEF ReadsPresent
  <2>16. \A x \in LiveIds(values') : /\ x \in LiveIds(values) /\ values'[x].kind = values[x].kind
                                     /\ values'[x].name = values[x].name /\ values'[x].scope = values[x].scope
    BY <1>0, <2>2, <2>3, <2>5, <2>7 DEF LiveIds, ConfigTypes
  <2>17. OneValuePerName'
    BY <1>0, <2>16 DEF OneValuePerName
  <2>18. Kept
    <3> SUFFICES ASSUME q.read.enc = values[v].enc
                 PROVE [id |-> v, version |-> values[v].version, enc |-> values[v].enc] \in history'
      BY <2>1, <2>7
    <3>1. q.read.version = values[v].version
      BY <1>0, <2>1 DEF ReadsPresent
    <3> QED
      BY <2>4, <2>6, <3>1
  <2> QED
    BY <2>11, <2>12, <2>13, <2>14, <2>15, <2>17, <2>18 DEF ConfigInv, ReadsPresent
<1>7. ASSUME NEW w \in Editors, ValueRequestFails(w) PROVE ConfigInv' /\ Kept
  BY <1>7, ValueRequestEnds DEF ValueRequestFails
<1>8. ASSUME NEW v \in ValueIds, DeleteEnv(v) \/ DeleteSecret(v) PROVE ConfigInv' /\ Kept
  <2> DEFINE row == [values[v] EXCEPT !.deleted = TRUE]
  <2>1. /\ UNCHANGED <<history, lastValue, vreqs>> /\ v \in LiveIds(values) /\ values[v] \in ValueRow
        /\ values' = [values EXCEPT ![v] = row]
    BY <1>0, <1>8, ValueDeleted DEF DeleteEnv, DeleteSecret
  <2>2. row \in ValueRow /\ row.enc = values[v].enc /\ row.version = values[v].version /\ row.deleted = TRUE
    BY <2>1 DEF ValueRow
  <2> HIDE DEF row
  <2>3. /\ values' \in [ValueIds -> ValueRow \union {NoRow}] /\ values'[v] = row /\ row # NoRow /\ values[v] # NoRow
        /\ \A x \in ValueIds \ {v} : values'[x] = values[x]
    BY <1>0, <2>1, <2>2, ConfigAssumption DEF ConfigTypes, LiveIds
  <2>4. \A x \in ValueIds : values[x] # NoRow <=> values'[x] # NoRow
    BY <2>3
  <2>5. \A x \in ValueIds : values[x] # NoRow => values'[x].enc = values[x].enc /\ values'[x].version = values[x].version
    BY <2>2, <2>3
  <2>6. ConfigTypes'
    BY <1>0, <2>1, <2>3 DEF ConfigTypes
  <2>7. LookedUp' /\ ReadsPresent'
    BY <1>0, <2>1, <2>4, <2>5, ValueRequestShape DEF LookedUp, ReadsPresent, Rewriting
  <2>8. ValuesSent'
    BY <1>0, <2>1, <2>4, <2>5 DEF ValuesSent
  <2>9. ValuesOwn'
    BY <1>0, <2>1, <2>4, <2>5 DEF ValuesOwn
  <2>10. \A x \in LiveIds(values') : x \in LiveIds(values) /\ values'[x] = values[x]
    BY <1>0, <2>2, <2>3 DEF LiveIds, ConfigTypes
  <2>11. OneValuePerName'
    BY <1>0, <2>10 DEF OneValuePerName
  <2>12. Kept
    BY <2>5
  <2> QED
    BY <2>6, <2>7, <2>8, <2>9, <2>11, <2>12 DEF ConfigInv
<1>9. CASE ConfigNext
  BY <1>9, <1>2, <1>3, <1>4, <1>5, <1>6, <1>7, <1>8 DEF ConfigNext
<1> QED
  BY <1>1, <1>9 DEF cvars

\* The behaviours of the variables and secrets.
ConfigSpec == ConfigInit /\ [][ConfigNext]_cvars

\* Empty tables satisfy the invariant.
LEMMA ConfigStart == ConfigInit => ConfigInv
<1> SUFFICES ASSUME ConfigInit PROVE ConfigInv
  OBVIOUS
<1>1. ConfigTypes
  BY ConfigAssumption DEF ConfigInit, ConfigTypes, ValueRequest
<1>2. LookedUp /\ ValuesSent /\ ValuesOwn /\ ReadsPresent
  BY DEF ConfigInit, LookedUp, ValuesSent, ValuesOwn, ReadsPresent, VIdle, Carrying, Rewriting
<1>3. OneValuePerName
  BY DEF ConfigInit, OneValuePerName, LiveIds
<1> QED
  BY <1>1, <1>2, <1>3 DEF ConfigInv

\* However updates race, a value is lost from the history only when the transaction that
\* overwrites it had read the row before that value was there.
THEOREM HistoryKept == ConfigSpec => OverwrittenKept
<1> DEFINE A == \A v \in ValueIds : (values[v] # NoRow /\ values'[v].enc # values[v].enc) =>
        \/ [id |-> v, version |-> values[v].version, enc |-> values[v].enc] \in history'
        \/ \E w \in Editors : vreqs[w].op = "write" /\ vreqs[w].id = v /\ vreqs[w].read.enc # values[v].enc
<1>1. ConfigInv /\ [ConfigNext]_cvars => ConfigInv'
  BY ConfigStep
<1>2. ConfigInv /\ [ConfigNext]_cvars => [A]_cvars
  BY ConfigStep
<1>3. ConfigSpec => [][A]_cvars
  <2> HIDE DEF A
  <2> QED
    BY <1>1, <1>2, ConfigStart, PTL DEF ConfigSpec
<1> QED
  BY <1>3 DEF OverwrittenKept

-----------------------------------------------------------------------------
(* DNS verifications *)

VerificationsTypes ==
    /\ vrows \in [VDomains -> VerificationRow \union {NoRow}]
    /\ zone \subseteq VDomains \X Methods /\ seen \subseteq VDomains \X Methods
    /\ checks \in [Checkers -> [at : {"idle", "next", "mark"}, todo : SUBSET ListedRow, row : ListedRow \union {NoRow}, found : BOOLEAN]]

\* The rows that a pass still holds: the ones left, and the one at hand.
Held(c) == checks[c].todo \union ({checks[c].row} \ {NoRow})

\* What a pass holds of a row is true of it, but for the method of a row requested anew.
CopiesTrue ==
    \A c \in Checkers : \A r \in Held(c) :
        /\ vrows[r.domain] # NoRow /\ vrows[r.domain].hosted = r.hosted
        /\ vrows[r.domain].method = r.method \/ r.domain \in outdated

\* A pass is about to mark a row that it holds; when it has found the challenge, the row has a
\* hostname and the challenge was seen.
FoundSeen ==
    \A c \in Checkers : checks[c].at = "mark" =>
        /\ checks[c].row # NoRow
        /\ checks[c].found => checks[c].row.hosted /\ <<checks[c].row.domain, checks[c].row.method>> \in seen

VerificationsInv == VerificationsTypes /\ CopiesTrue /\ FoundSeen /\ VerifiedSeen

\* A pass goes on with rows that it held, and no row changes its method or its hostname: what
\* the passes hold stays true.
LEMMA CopiesKept ==
    ASSUME VerificationsInv, VerificationsTypes',
           \A c \in Checkers : Held(c)' \subseteq Held(c),
           \A d \in VDomains : vrows[d] # NoRow => vrows'[d] # NoRow /\ vrows'[d].hosted = vrows[d].hosted,
           \A d \in VDomains : vrows[d] # NoRow => vrows'[d].method = vrows[d].method \/ d \in outdated',
           outdated \subseteq outdated'
    PROVE  CopiesTrue'
<1>1. \A c \in Checkers : \A r \in Held(c) : r.domain \in VDomains
  BY DEF Held, VerificationsInv, VerificationsTypes, ListedRow
<1> SUFFICES ASSUME NEW c \in Checkers, NEW r \in Held(c)'
             PROVE /\ vrows'[r.domain] # NoRow /\ vrows'[r.domain].hosted = r.hosted
                   /\ vrows'[r.domain].method = r.method \/ r.domain \in outdated'
  BY DEF CopiesTrue
<1>2. r \in Held(c) /\ r.domain \in VDomains
  BY <1>1
<1> QED
  BY <1>2 DEF VerificationsInv, CopiesTrue

\* The next row of a pass, or its end.
LEMMA NextRowHolds ==
    ASSUME VerificationsInv, NEW c \in Checkers, NextRow(c)
    PROVE  /\ checks' \in [Checkers -> [at : {"idle", "next", "mark"}, todo : SUBSET ListedRow, row : ListedRow \union {NoRow}, found : BOOLEAN]]
           /\ \A b \in Checkers : Held(b)' \subseteq Held(b)
           /\ checks'[c].at # "mark" /\ \A b \in Checkers \ {c} : checks'[b] = checks[b]
<1> DEFINE p == IF checks[c].todo = {} THEN NoPass ELSE [NoPass EXCEPT !.at = "next", !.todo = checks[c].todo]
<1>1. checks' = [checks EXCEPT ![c] = p]
  BY DEF NextRow
<1>2. p \in [at : {"idle", "next"}, todo : SUBSET ListedRow, row : {NoRow}, found : BOOLEAN] /\ p.todo \subseteq checks[c].todo
  BY DEF NoPass, VerificationsInv, VerificationsTypes
<1> HIDE DEF p
<1>3. checks'[c] = p /\ \A b \in Checkers \ {c} : checks'[b] = checks[b]
  BY <1>1 DEF VerificationsInv, VerificationsTypes
<1>4. \A b \in Checkers : Held(b)' \subseteq Held(b)
  BY <1>2, <1>3 DEF Held
<1>5. checks' \in [Checkers -> [at : {"idle", "next", "mark"}, todo : SUBSET ListedRow, row : ListedRow \union {NoRow}, found : BOOLEAN]]
  BY <1>1, <1>2 DEF VerificationsInv, VerificationsTypes
<1> QED
  BY <1>2, <1>3, <1>4, <1>5

\* A lookup takes a row of the pass in hand.
LEMMA RowInHand ==
    ASSUME VerificationsInv, NEW c \in Checkers, NEW r \in checks[c].todo, NEW f \in BOOLEAN,
           checks' = [checks EXCEPT ![c] = [at |-> "mark", todo |-> checks[c].todo \ {r}, row |-> r, found |-> f]]
    PROVE  /\ checks' \in [Checkers -> [at : {"idle", "next", "mark"}, todo : SUBSET ListedRow, row : ListedRow \union {NoRow}, found : BOOLEAN]]
           /\ r \in ListedRow /\ r # NoRow /\ \A b \in Checkers : Held(b)' \subseteq Held(b)
           /\ checks'[c].row = r /\ checks'[c].found = f /\ \A b \in Checkers \ {c} : checks'[b] = checks[b]
<1> DEFINE p == [at |-> "mark", todo |-> checks[c].todo \ {r}, row |-> r, found |-> f]
<1>1. r \in ListedRow /\ checks[c].todo \subseteq ListedRow
  BY DEF VerificationsInv, VerificationsTypes
<1>2. p \in [at : {"idle", "next", "mark"}, todo : SUBSET ListedRow, row : ListedRow \union {NoRow}, found : BOOLEAN]
  BY <1>1
<1>3. p.row = r /\ p.found = f /\ p.todo \union {p.row} \subseteq checks[c].todo
  OBVIOUS
<1> HIDE DEF p
<1>4. checks'[c] = p /\ \A b \in Checkers \ {c} : checks'[b] = checks[b]
  BY DEF VerificationsInv, VerificationsTypes, p
<1>5. checks' \in [Checkers -> [at : {"idle", "next", "mark"}, todo : SUBSET ListedRow, row : ListedRow \union {NoRow}, found : BOOLEAN]]
  BY <1>2 DEF VerificationsInv, VerificationsTypes, p
<1>6. \A b \in Checkers : Held(b)' \subseteq Held(b)
  BY <1>3, <1>4 DEF Held
<1> QED
  BY <1>1, <1>3, <1>4, <1>5, <1>6, VerificationsAssumption

\* Every request and every step of a pass keeps the invariant.
LEMMA VerificationsStep == VerificationsInv /\ [VerificationsNext]_vvars => VerificationsInv'
<1> SUFFICES ASSUME VerificationsInv, [VerificationsNext]_vvars PROVE VerificationsInv'
  OBVIOUS
<1>0. VerificationsTypes /\ CopiesTrue /\ FoundSeen /\ VerifiedSeen
  BY DEF VerificationsInv
<1>a. ASSUME UNCHANGED checks PROVE \A c \in Checkers : Held(c)' \subseteq Held(c)
  BY <1>a DEF Held
<1>1. CASE UNCHANGED vvars
  BY <1>0, <1>1 DEF vvars, VerificationsInv, VerificationsTypes, CopiesTrue, Held, FoundSeen, VerifiedSeen
<1>2. ASSUME NEW d \in VDomains, NEW method \in Methods, NEW hosted \in BOOLEAN, DomainVerifyRequest(d, method, hosted) PROVE VerificationsInv'
  <2> DEFINE h == IF vrows[d] = NoRow THEN hosted ELSE vrows[d].hosted
             row == [method |-> method, status |-> "pending", waits |-> FALSE, hosted |-> h]
  <2>1. vrows' = [vrows EXCEPT ![d] = row] /\ UNCHANGED <<zone, checks, seen>> /\ Writes(NoRow, d)
    BY <1>2 DEF DomainVerifyRequest, UpsertVerification
  <2>2. h \in BOOLEAN
    BY <1>0 DEF VerificationsTypes, VerificationRow
  <2>3. row \in VerificationRow /\ row.status = "pending" /\ row.hosted = h
    BY <2>2 DEF VerificationRow
  <2> HIDE DEF row
  <2>4. row # NoRow
    BY <2>3, VerificationsAssumption
  <2>5. vrows'[d] = row /\ \A e \in VDomains \ {d} : vrows'[e] = vrows[e]
    BY <1>0, <2>1 DEF VerificationsTypes
  <2>6. VerificationsTypes'
    BY <1>0, <2>1, <2>3 DEF VerificationsTypes
  <2>7. outdated \subseteq outdated' /\ \A c \in Checkers : \A r \in Held(c) : r.domain = d => d \in outdated'
    BY <2>1, VerificationsAssumption DEF Writes, Holds, Held
  <2>8. CopiesTrue'
    <3>1. \A c \in Checkers : \A r \in Held(c) : r.domain \in VDomains
      BY <1>0 DEF Held, VerificationsTypes, ListedRow
    <3>2. \A c \in Checkers : Held(c)' = Held(c)
      BY <2>1 DEF Held
    <3> SUFFICES ASSUME NEW c \in Checkers, NEW r \in Held(c)
                 PROVE /\ vrows'[r.domain] # NoRow /\ vrows'[r.domain].hosted = r.hosted
                       /\ vrows'[r.domain].method = r.method \/ r.domain \in outdated'
      BY <3>2 DEF CopiesTrue
    <3>3. CASE r.domain = d
      BY <1>0, <2>3, <2>4, <2>5, <2>7, <3>3 DEF CopiesTrue
    <3>4. CASE r.domain # d
      BY <1>0, <2>5, <2>7, <3>1, <3>4 DEF CopiesTrue
    <3> QED
      BY <3>3, <3>4
  <2>9. FoundSeen'
    BY <1>0, <2>1 DEF FoundSeen
  <2>10. VerifiedSeen'
    BY <1>0, <2>1, <2>3, <2>5, <2>7 DEF VerifiedSeen
  <2> QED
    BY <2>6, <2>8, <2>9, <2>10 DEF VerificationsInv
<1>3. ASSUME NEW d \in VDomains, RetryDue(d) PROVE VerificationsInv'
  <2>1. /\ vrows[d] \in VerificationRow /\ vrows' = [vrows EXCEPT ![d] = [vrows[d] EXCEPT !.waits = FALSE]]
        /\ UNCHANGED <<zone, checks, seen, outdated>>
    BY <1>0, <1>3 DEF RetryDue, VerificationsTypes
  <2>2. /\ vrows'[d] \in VerificationRow /\ vrows'[d].status = vrows[d].status /\ vrows'[d].method = vrows[d].method
        /\ vrows'[d].hosted = vrows[d].hosted /\ \A e \in VDomains \ {d} : vrows'[e] = vrows[e]
    BY <1>0, <2>1 DEF VerificationsTypes, VerificationRow
  <2>3. VerificationsTypes'
    BY <1>0, <2>1, <2>2 DEF VerificationsTypes
  <2>4. CopiesTrue'
    BY <1>a, <2>1, <2>2, <2>3, VerificationsAssumption, CopiesKept
  <2>5. FoundSeen' /\ VerifiedSeen'
    BY <1>0, <2>1, <2>2, VerificationsAssumption DEF FoundSeen, VerifiedSeen
  <2> QED
    BY <2>3, <2>4, <2>5 DEF VerificationsInv
<1>4. ASSUME NEW d \in VDomains, NEW method \in {"txt", "cname"}, OwnerEdits(d, method) PROVE VerificationsInv'
  <2>1. VerificationsTypes'
    BY <1>0, <1>4 DEF OwnerEdits, VerificationsTypes, Methods
  <2>2. CopiesTrue' /\ FoundSeen' /\ VerifiedSeen'
    BY <1>0, <1>4 DEF OwnerEdits, CopiesTrue, Held, FoundSeen, VerifiedSeen
  <2> QED
    BY <2>1, <2>2 DEF VerificationsInv
<1>5. ASSUME NEW c \in Checkers, StartsPass(c) PROVE VerificationsInv'
  <2> DEFINE todo == {[domain |-> d, method |-> vrows[d].method, hosted |-> vrows[d].hosted] : d \in Pending}
             p == [NoPass EXCEPT !.at = "next", !.todo = todo]
  <2>1. checks' = [checks EXCEPT ![c] = p] /\ UNCHANGED <<vrows, zone, seen, outdated>>
    BY <1>5 DEF StartsPass
  <2>2. \A d \in Pending : d \in VDomains /\ vrows[d] # NoRow /\ vrows[d] \in VerificationRow
    BY <1>0 DEF Pending, VerificationsTypes
  <2>3. \A r \in todo : r \in ListedRow /\ vrows[r.domain] # NoRow /\ vrows[r.domain].hosted = r.hosted /\ vrows[r.domain].method = r.method
    BY <2>2 DEF ListedRow, VerificationRow
  <2> HIDE DEF todo
  <2>4. /\ p \in [at : {"idle", "next", "mark"}, todo : SUBSET ListedRow, row : ListedRow \union {NoRow}, found : BOOLEAN]
        /\ p.todo = todo /\ p.row = NoRow /\ p.at = "next"
    BY <2>3 DEF NoPass
  <2> HIDE DEF p
  <2>5. checks'[c] = p /\ \A b \in Checkers \ {c} : checks'[b] = checks[b]
    BY <1>0, <2>1 DEF VerificationsTypes
  <2>6. VerificationsTypes'
    BY <1>0, <2>1, <2>4 DEF VerificationsTypes
  <2>7. CopiesTrue'
    BY <1>0, <2>1, <2>3, <2>4, <2>5 DEF CopiesTrue, Held
  <2>8. FoundSeen' /\ VerifiedSeen'
    BY <1>0, <2>1, <2>4, <2>5 DEF FoundSeen, VerifiedSeen
  <2> QED
    BY <2>6, <2>7, <2>8 DEF VerificationsInv
<1>6. ASSUME NEW c \in Checkers, LooksUp(c) \/ LookupFails(c) PROVE VerificationsInv'
  <2>1. PICK r \in checks[c].todo, f \in BOOLEAN :
            /\ checks' = [checks EXCEPT ![c] = [at |-> "mark", todo |-> checks[c].todo \ {r}, row |-> r, found |-> f]]
            /\ f => Verified(r) /\ (<<r.domain, r.method>> \in zone => <<r.domain, r.method>> \in seen')
            /\ seen \subseteq seen' /\ seen' \subseteq seen \union zone /\ UNCHANGED <<vrows, zone, outdated>>
    <3>1. CASE LooksUp(c)
      <4>1. PICK r \in checks[c].todo :
                /\ checks' = [checks EXCEPT ![c] = [at |-> "mark", todo |-> checks[c].todo \ {r}, row |-> r, found |-> Verified(r)]]
                /\ seen' = IF <<r.domain, r.method>> \in zone THEN seen \union {<<r.domain, r.method>>} ELSE seen
        BY <3>1 DEF LooksUp
      <4>2. r \in ListedRow
        BY <1>0 DEF VerificationsTypes
      <4>3. Verified(r) \in BOOLEAN
        BY <4>2 DEF Verified, ListedRow
      <4> QED
        BY <3>1, <4>1, <4>3 DEF LooksUp
    <3>2. CASE LookupFails(c)
      BY <3>2 DEF LookupFails
    <3> QED
      BY <1>6, <3>1, <3>2
  <2>2. /\ checks' \in [Checkers -> [at : {"idle", "next", "mark"}, todo : SUBSET ListedRow, row : ListedRow \union {NoRow}, found : BOOLEAN]]
        /\ r \in ListedRow /\ r # NoRow /\ \A b \in Checkers : Held(b)' \subseteq Held(b)
        /\ checks'[c].row = r /\ checks'[c].found = f /\ \A b \in Checkers \ {c} : checks'[b] = checks[b]
    BY <2>1, RowInHand
  <2>3. VerificationsTypes'
    BY <1>0, <2>1, <2>2 DEF VerificationsTypes
  <2>4. CopiesTrue'
    BY <2>1, <2>2, <2>3, CopiesKept
  <2>5. f => r.hosted /\ <<r.domain, r.method>> \in seen'
    <3> SUFFICES ASSUME f PROVE r.hosted /\ <<r.domain, r.method>> \in seen'
      OBVIOUS
    <3>1. Verified(r) /\ zone \subseteq VDomains \X Methods
      BY <1>0, <2>1 DEF VerificationsTypes
    <3>2. <<r.domain, "bare">> \notin zone
      BY <3>1 DEF Methods
    <3>3. r.hosted /\ <<r.domain, r.method>> \in zone
      BY <3>1, <3>2 DEF Verified, VerifyTXT, VerifyCNAME, VerifyAddress, GenerateChallenge
    <3> QED
      BY <2>1, <3>3
  <2>6. FoundSeen'
    BY <1>0, <2>1, <2>2, <2>5 DEF FoundSeen
  <2>7. VerifiedSeen'
    BY <1>0, <2>1 DEF VerifiedSeen
  <2> QED
    BY <2>3, <2>4, <2>6, <2>7 DEF VerificationsInv
<1>7. ASSUME NEW c \in Checkers, MarksRow(c) PROVE VerificationsInv'
  <2> DEFINE d == checks[c].row.domain
  <2>1. NextRow(c) /\ Writes(c, d) /\ UNCHANGED <<zone, seen>> /\ checks[c].at = "mark"
    BY <1>7 DEF MarksRow
  <2>2. outdated \subseteq outdated'
    BY <2>1 DEF Writes
  <2>3. checks[c].row \in Held(c) /\ checks[c].row \in ListedRow
    BY <1>0, <2>1 DEF FoundSeen, Held, VerificationsTypes
  <2>4. /\ d \in VDomains /\ vrows[d] # NoRow /\ vrows[d].hosted = checks[c].row.hosted
        /\ vrows[d].method = checks[c].row.method \/ d \in outdated
    BY <1>0, <2>3 DEF CopiesTrue, ListedRow
  <2>5. vrows[d] \in VerificationRow
    BY <1>0, <2>4 DEF VerificationsTypes
  <2>6. /\ vrows' \in [VDomains -> VerificationRow \union {NoRow}]
        /\ vrows'[d] \in VerificationRow /\ vrows'[d].method = vrows[d].method /\ vrows'[d].hosted = vrows[d].hosted
        /\ (vrows'[d].status = "verified" => checks[c].found) /\ \A e \in VDomains \ {d} : vrows'[e] = vrows[e]
    <3>1. CASE checks[c].found
      <4> DEFINE r == [vrows[d] EXCEPT !.status = "verified"]
      <4>1. vrows' = [vrows EXCEPT ![d] = r]
        BY <1>7, <3>1 DEF MarksRow, MarkVerified
      <4>2. r \in VerificationRow /\ r.method = vrows[d].method /\ r.hosted = vrows[d].hosted
        BY <2>5 DEF VerificationRow
      <4> HIDE DEF r
      <4> QED
        BY <1>0, <2>4, <3>1, <4>1, <4>2 DEF VerificationsTypes
    <3>2. CASE ~checks[c].found
      <4> DEFINE r == [vrows[d] EXCEPT !.status = "pending", !.waits = TRUE]
      <4>1. vrows' = [vrows EXCEPT ![d] = r]
        BY <1>7, <3>2 DEF MarksRow, MarkVerificationFailed
      <4>2. r \in VerificationRow /\ r.method = vrows[d].method /\ r.hosted = vrows[d].hosted /\ r.status = "pending"
        BY <2>5 DEF VerificationRow
      <4> HIDE DEF r
      <4> QED
        BY <1>0, <2>4, <3>2, <4>1, <4>2 DEF VerificationsTypes
    <3> QED
      BY <3>1, <3>2
  <2>7. /\ checks' \in [Checkers -> [at : {"idle", "next", "mark"}, todo : SUBSET ListedRow, row : ListedRow \union {NoRow}, found : BOOLEAN]]
        /\ \A b \in Checkers : Held(b)' \subseteq Held(b)
        /\ checks'[c].at # "mark" /\ \A b \in Checkers \ {c} : checks'[b] = checks[b]
    BY <2>1, NextRowHolds
  <2>8. VerificationsTypes'
    BY <1>0, <2>1, <2>6, <2>7 DEF VerificationsTypes
  <2>9. CopiesTrue'
    <3>1. \A e \in VDomains : vrows[e] # NoRow => vrows'[e] # NoRow /\ vrows'[e].hosted = vrows[e].hosted /\ vrows'[e].method = vrows[e].method
      BY <2>6, VerificationsAssumption
    <3> QED
      BY <2>2, <2>7, <2>8, <3>1, CopiesKept
  <2>10. FoundSeen'
    BY <1>0, <2>1, <2>7 DEF FoundSeen
  <2>11. VerifiedSeen'
    <3> SUFFICES ASSUME NEW e \in VDomains, vrows'[e] # NoRow, vrows'[e].status = "verified"
                 PROVE vrows'[e].hosted /\ (<<e, vrows'[e].method>> \in seen' \/ e \in outdated')
      BY DEF VerifiedSeen
    <3>1. CASE e = d
      <4>1. checks[c].found
        BY <2>6, <3>1
      <4>2. checks[c].row.hosted /\ <<d, checks[c].row.method>> \in seen
        BY <1>0, <2>1, <4>1 DEF FoundSeen
      <4> QED
        BY <2>1, <2>2, <2>4, <2>6, <3>1, <4>2
    <3>2. CASE e # d
      BY <1>0, <2>1, <2>2, <2>6, <3>2 DEF VerifiedSeen
    <3> QED
      BY <3>1, <3>2
  <2> QED
    BY <2>8, <2>9, <2>10, <2>11 DEF VerificationsInv
<1>8. ASSUME NEW c \in Checkers, MarkFails(c) PROVE VerificationsInv'
  <2>1. NextRow(c) /\ UNCHANGED <<vrows, zone, seen, outdated>>
    BY <1>8 DEF MarkFails
  <2>2. /\ checks' \in [Checkers -> [at : {"idle", "next", "mark"}, todo : SUBSET ListedRow, row : ListedRow \union {NoRow}, found : BOOLEAN]]
        /\ \A b \in Checkers : Held(b)' \subseteq Held(b)
        /\ checks'[c].at # "mark" /\ \A b \in Checkers \ {c} : checks'[b] = checks[b]
    BY <2>1, NextRowHolds
  <2>3. VerificationsTypes'
    BY <1>0, <2>1, <2>2 DEF VerificationsTypes
  <2>4. CopiesTrue'
    BY <2>1, <2>2, <2>3, CopiesKept
  <2>5. FoundSeen' /\ VerifiedSeen'
    BY <1>0, <2>1, <2>2 DEF FoundSeen, VerifiedSeen
  <2> QED
    BY <2>3, <2>4, <2>5 DEF VerificationsInv
<1>9. ASSUME NEW c \in Checkers, CheckerStops(c) PROVE VerificationsInv'
  <2>1. checks' = [checks EXCEPT ![c] = NoPass] /\ UNCHANGED <<vrows, zone, seen, outdated>>
    BY <1>9 DEF CheckerStops
  <2>2. /\ NoPass \in [at : {"idle", "next", "mark"}, todo : SUBSET ListedRow, row : ListedRow \union {NoRow}, found : BOOLEAN]
        /\ NoPass.todo = {} /\ NoPass.row = NoRow /\ NoPass.at = "idle"
    BY DEF NoPass
  <2>3. checks'[c] = NoPass /\ \A b \in Checkers \ {c} : checks'[b] = checks[b]
    BY <1>0, <2>1 DEF VerificationsTypes
  <2>4. VerificationsTypes'
    BY <1>0, <2>1, <2>2 DEF VerificationsTypes
  <2>5. \A b \in Checkers : Held(b)' \subseteq Held(b)
    BY <2>2, <2>3 DEF Held
  <2>6. CopiesTrue'
    BY <2>1, <2>4, <2>5, CopiesKept
  <2>7. FoundSeen' /\ VerifiedSeen'
    BY <1>0, <2>1, <2>2, <2>3 DEF FoundSeen, VerifiedSeen
  <2> QED
    BY <2>4, <2>6, <2>7 DEF VerificationsInv
<1> QED
  BY <1>1, <1>2, <1>3, <1>4, <1>5, <1>6, <1>7, <1>8, <1>9 DEF VerificationsNext

\* The behaviours of the verifications.
VerificationsSpec == VerificationsInit /\ [][VerificationsNext]_vvars

\* Empty tables satisfy the invariant.
LEMMA VerificationsStart == VerificationsInit => VerificationsInv
<1> SUFFICES ASSUME VerificationsInit PROVE VerificationsInv
  OBVIOUS
<1>1. VerificationsTypes
  BY DEF VerificationsInit, VerificationsTypes, NoPass
<1>2. CopiesTrue /\ FoundSeen /\ VerifiedSeen
  BY DEF VerificationsInit, CopiesTrue, Held, FoundSeen, VerifiedSeen, NoPass
<1> QED
  BY <1>1, <1>2 DEF VerificationsInv

\* A verified domain has a hostname, and its challenge was seen in DNS, whatever passes and
\* requests interleave, unless the row was written while a pass had a copy of it.
THEOREM VerifiedMeansSeen == VerificationsSpec => []VerifiedSeen
<1>1. VerificationsInv => VerifiedSeen
  BY DEF VerificationsInv
<1> QED
  BY <1>1, VerificationsStart, VerificationsStep, PTL DEF VerificationsSpec

-----------------------------------------------------------------------------
(* Certificates *)

CertRequest ==
    [at : {"idle", "read", "write", "failed", "revoked", "next"}, op : {"none", "request", "renew", "expire", "revoke"},
     host : CertHosts \union {NoRow}, list : SUBSET CertHosts, todo : SUBSET CertHosts]

CertsTypes ==
    /\ certs \in [CertHosts -> CertRow \union {NoRow}]
    /\ automate \subseteq CertHosts /\ reports \subseteq CertHosts
    /\ ireqs \in [Issuers -> CertRequest]

\* A request works on the row of a hostname, and a pass on rows it has listed; a hostname whose
\* write failed is known to be upset.
RequestsPlaced ==
    \A a \in Issuers :
        /\ ireqs[a].at \in {"read", "write", "failed", "revoked"} => ireqs[a].host \in CertHosts /\ certs[ireqs[a].host] # NoRow
        /\ \A h \in ireqs[a].todo : certs[h] # NoRow
        /\ ireqs[a].host \notin ireqs[a].todo
        /\ ireqs[a].at = "failed" => ireqs[a].host \in upset
        /\ ireqs[a].at = "next" => ireqs[a].host = NoRow

\* Hostnames in Caddy's list, and those that are excused.
ListedOrExcused == automate \union upset \union crossed

\* The statuses that a report leads from, or is expected to lead from, to an active certificate.
Awaited == {"issuing", "active", "renewing", "expired"}

\* What a pass has left to do is in the list, or excused.
PassesListed == \A a \in Issuers : ireqs[a].todo \subseteq ListedOrExcused

\* Two requests or passes that work on a hostname have crossed.
MeetingsKnown ==
    \A a, b \in Issuers, h \in CertHosts : (a # b /\ WorksOn(a, h) /\ WorksOn(b, h)) => h \in crossed

\* The property, for expired certificates too, which a late report makes active again.
AwaitedListed ==
    \A h \in CertHosts :
        (certs[h] # NoRow /\ certs[h].status \in Awaited) => h \in ListedOrExcused \/ \E a \in Issuers : WorksOn(a, h)

CertsInv == CertsTypes /\ RequestsPlaced /\ PassesListed /\ MeetingsKnown /\ AwaitedListed

\* A request or a pass goes on. It may take from the list only the hostname that it still works
\* on, and what it leaves behind is in the list, excused, or not awaited.
LEMMA CertMoves ==
    ASSUME CertsInv, NEW a \in Issuers, NEW q \in CertRequest, ireqs' = [ireqs EXCEPT ![a] = q],
           certs' \in [CertHosts -> CertRow \union {NoRow}], automate' \subseteq CertHosts, UNCHANGED reports,
           \A h \in CertHosts : certs[h] # NoRow => certs'[h] # NoRow,
           upset \subseteq upset', crossed \subseteq crossed',
           q.at \in {"read", "write", "failed", "revoked"} => q.host \in CertHosts /\ certs'[q.host] # NoRow,
           q.at = "failed" => q.host \in upset', q.at = "next" => q.host = NoRow,
           q.todo \subseteq ireqs[a].todo, q.host \notin q.todo, q.host \in {NoRow, ireqs[a].host} \union ireqs[a].todo,
           \A h \in automate : h # ireqs[a].host => h \in automate' \union upset',
           ireqs[a].host \in automate \ automate' => q.host = ireqs[a].host,
           \A h \in CertHosts : (certs'[h] # NoRow /\ certs'[h].status \in Awaited) =>
                \/ h \in ListedOrExcused' \/ h = q.host \/ h \in q.todo
                \/ certs[h] # NoRow /\ certs[h].status \in Awaited /\ ~WorksOn(a, h)
    PROVE  CertsInv'
<1>0. CertsTypes /\ RequestsPlaced /\ PassesListed /\ MeetingsKnown /\ AwaitedListed
  BY DEF CertsInv
<1>1. ireqs'[a] = q /\ \A b \in Issuers \ {a} : ireqs'[b] = ireqs[b]
  BY <1>0 DEF CertsTypes
<1>2. CertsTypes'
  BY <1>0 DEF CertsTypes
<1>3. RequestsPlaced'
  <2> SUFFICES ASSUME NEW b \in Issuers
               PROVE /\ ireqs'[b].at \in {"read", "write", "failed", "revoked"} => ireqs'[b].host \in CertHosts /\ certs'[ireqs'[b].host] # NoRow
                     /\ \A h \in ireqs'[b].todo : certs'[h] # NoRow
                     /\ ireqs'[b].host \notin ireqs'[b].todo
                     /\ ireqs'[b].at = "failed" => ireqs'[b].host \in upset'
                     /\ ireqs'[b].at = "next" => ireqs'[b].host = NoRow
    BY DEF RequestsPlaced
  <2>1. ireqs[b].todo \subseteq CertHosts
    BY <1>0 DEF CertsTypes, CertRequest
  <2>2. \A h \in ireqs[b].todo : certs'[h] # NoRow
    BY <1>0, <2>1 DEF RequestsPlaced
  <2>3. CASE b = a
    BY <1>1, <2>2, <2>3
  <2>4. CASE b # a
    BY <1>0, <1>1, <2>2, <2>4 DEF RequestsPlaced
  <2> QED
    BY <2>3, <2>4
<1>4. \A h \in CertHosts : WorksOn(a, h)' => WorksOn(a, h)
  BY <1>1, CertsAssumption DEF WorksOn
<1>5. \A b \in Issuers \ {a}, h \in CertHosts : WorksOn(b, h)' <=> WorksOn(b, h)
  BY <1>1 DEF WorksOn
<1>6. MeetingsKnown'
  <2>1. \A b \in Issuers, h \in CertHosts : WorksOn(b, h)' => WorksOn(b, h)
    BY <1>4, <1>5
  <2> QED
    BY <1>0, <2>1 DEF MeetingsKnown
<1>7. PassesListed'
  <2> SUFFICES ASSUME NEW b \in Issuers, NEW h \in ireqs'[b].todo PROVE h \in ListedOrExcused'
    BY DEF PassesListed
  <2>1. h \in ireqs[b].todo /\ h \in CertHosts
    BY <1>0, <1>1 DEF CertsTypes, CertRequest
  <2>2. h \in ListedOrExcused
    BY <1>0, <2>1 DEF PassesListed
  <2>3. CASE h # ireqs[a].host
    BY <2>2, <2>3 DEF ListedOrExcused
  <2>4. CASE h = ireqs[a].host /\ b # a
    <3>1. h \in crossed
      BY <1>0, <2>1, <2>4 DEF MeetingsKnown, WorksOn
    <3> QED
      BY <3>1 DEF ListedOrExcused
  <2>5. CASE h = ireqs[a].host /\ b = a
    BY <1>1, <2>2, <2>5 DEF ListedOrExcused
  <2> QED
    BY <2>3, <2>4, <2>5
<1>8. AwaitedListed'
  <2> SUFFICES ASSUME NEW h \in CertHosts, certs'[h] # NoRow, certs'[h].status \in Awaited
               PROVE h \in ListedOrExcused' \/ \E b \in Issuers : WorksOn(b, h)'
    BY DEF AwaitedListed
  <2>1. CASE h \in ListedOrExcused'
    BY <2>1
  <2>2. CASE h = q.host \/ h \in q.todo
    BY <1>1, <2>2 DEF WorksOn
  <2>3. CASE certs[h] # NoRow /\ certs[h].status \in Awaited /\ ~WorksOn(a, h)
    <3>1. CASE h \in ListedOrExcused
      BY <2>3, <3>1 DEF WorksOn, ListedOrExcused
    <3>2. CASE \E b \in Issuers : WorksOn(b, h)
      BY <1>5, <2>3, <3>2
    <3> QED
      BY <1>0, <2>3, <3>1, <3>2 DEF AwaitedListed
  <2> QED
    BY <2>1, <2>2, <2>3
<1> QED
  BY <1>2, <1>3, <1>6, <1>7, <1>8 DEF CertsInv

\* A request or a pass begins: the hostnames it takes on that another works on have crossed, and
\* the ones a pass lists are awaited.
LEMMA CertStarts ==
    ASSUME CertsInv, NEW a \in Issuers, ireqs[a] = IIdle, NEW q \in CertRequest, ireqs' = [ireqs EXCEPT ![a] = q],
           certs' \in [CertHosts -> CertRow \union {NoRow}], UNCHANGED <<automate, reports, upset>>,
           \A h \in CertHosts : certs[h] # NoRow => certs'[h] # NoRow,
           NEW hosts \in SUBSET CertHosts, Crosses(hosts), {q.host} \ {NoRow} \subseteq hosts, q.todo \subseteq hosts,
           q.at \in {"read", "next"}, q.at = "next" => q.host = NoRow, q.at = "read" => q.host \in CertHosts /\ certs'[q.host] # NoRow, q.host \notin q.todo,
           \A h \in q.todo : certs[h] # NoRow /\ certs[h].status \in Awaited,
           \A h \in CertHosts : h # q.host => certs'[h] = certs[h]
    PROVE  CertsInv'
<1>0. CertsTypes /\ RequestsPlaced /\ PassesListed /\ MeetingsKnown /\ AwaitedListed
  BY DEF CertsInv
<1>1. ireqs'[a] = q /\ \A b \in Issuers \ {a} : ireqs'[b] = ireqs[b]
  BY <1>0 DEF CertsTypes
<1>2. CertsTypes'
  BY <1>0 DEF CertsTypes
<1>3. crossed \subseteq crossed' /\ \A h \in hosts : (\E b \in Issuers : WorksOn(b, h)) => h \in crossed'
  BY DEF Crosses
<1>4. \A b \in Issuers \ {a}, h \in CertHosts : WorksOn(b, h)' <=> WorksOn(b, h)
  BY <1>1 DEF WorksOn
<1>5. \A h \in CertHosts : ~WorksOn(a, h) /\ (WorksOn(a, h)' => h \in hosts)
  BY <1>1, CertsAssumption DEF WorksOn, IIdle
<1>6. RequestsPlaced'
  <2>1. \A b \in Issuers : ireqs[b].todo \subseteq CertHosts
    BY <1>0 DEF CertsTypes, CertRequest
  <2>2. q.todo \subseteq CertHosts
    OBVIOUS
  <2>3. \A h \in q.todo : certs'[h] # NoRow
    BY <2>2
  <2>4. /\ q.at \in {"read", "write", "failed", "revoked"} => q.host \in CertHosts /\ certs'[q.host] # NoRow
        /\ q.at # "failed" /\ (q.at = "next" => q.host = NoRow)
    OBVIOUS
  <2> QED
    BY <1>0, <1>1, <2>1, <2>3, <2>4 DEF RequestsPlaced
<1>7. MeetingsKnown'
  <2> SUFFICES ASSUME NEW b \in Issuers, NEW c \in Issuers, NEW h \in CertHosts, b # c, WorksOn(b, h)', WorksOn(c, h)'
               PROVE h \in crossed'
    BY DEF MeetingsKnown
  <2>1. CASE b # a /\ c # a
    BY <1>0, <1>3, <1>4, <2>1 DEF MeetingsKnown
  <2>2. CASE b = a
    BY <1>3, <1>4, <1>5, <2>2
  <2>3. CASE c = a
    BY <1>3, <1>4, <1>5, <2>3
  <2> QED
    BY <2>1, <2>2, <2>3
<1>8. ListedOrExcused \subseteq ListedOrExcused'
  BY <1>3 DEF ListedOrExcused
<1>9. PassesListed'
  <2>1. \A h \in q.todo : h \in ListedOrExcused'
    <3> SUFFICES ASSUME NEW h \in q.todo PROVE h \in ListedOrExcused'
      OBVIOUS
    <3>1. h \in ListedOrExcused \/ \E b \in Issuers : WorksOn(b, h)
      BY <1>0 DEF AwaitedListed
    <3> QED
      BY <1>3, <1>8, <3>1 DEF ListedOrExcused
  <2> QED
    BY <1>0, <1>1, <1>8, <2>1 DEF PassesListed
<1>10. AwaitedListed'
  <2> SUFFICES ASSUME NEW h \in CertHosts, certs'[h] # NoRow, certs'[h].status \in Awaited
               PROVE h \in ListedOrExcused' \/ \E b \in Issuers : WorksOn(b, h)'
    BY DEF AwaitedListed
  <2>1. CASE h = q.host
    BY <1>1, <2>1 DEF WorksOn
  <2>2. CASE h # q.host
    <3>1. h \in ListedOrExcused \/ \E b \in Issuers : WorksOn(b, h)
      BY <1>0, <2>2 DEF AwaitedListed
    <3> QED
      BY <1>4, <1>5, <1>8, <3>1
  <2> QED
    BY <2>1, <2>2
<1> QED
  BY <1>2, <1>6, <1>7, <1>9, <1>10 DEF CertsInv

\* What a request or a pass does next keeps what it has left to do; the hostname at hand is settled.
LEMMA CertResumes ==
    ASSUME CertsInv, NEW a \in Issuers, Resumes(a), ireqs[a].at \in {"read", "write", "failed", "revoked"},
           certs' \in [CertHosts -> CertRow \union {NoRow}], automate' \subseteq CertHosts, UNCHANGED <<reports, crossed>>,
           \A h \in CertHosts : certs[h] # NoRow => certs'[h] # NoRow, upset \subseteq upset',
           \A h \in CertHosts : h # ireqs[a].host => certs'[h] = certs[h],
           \A h \in automate : h \in automate' \union upset',
           ireqs[a].host \in automate => ireqs[a].host \in automate',
           certs'[ireqs[a].host].status \in Awaited => ireqs[a].host \in ListedOrExcused'
    PROVE  CertsInv'
<1> DEFINE row == ireqs[a]
           q == IF row.todo = {} THEN IIdle ELSE [row EXCEPT !.at = "next", !.host = NoRow, !.list = {}]
<1>0. CertsTypes /\ RequestsPlaced
  BY DEF CertsInv
<1>1. row \in CertRequest /\ row.host \in CertHosts
  BY <1>0 DEF CertsTypes, RequestsPlaced
<1>2. ireqs' = [ireqs EXCEPT ![a] = q]
  BY <1>0 DEF Resumes, CertsTypes
<1>3. q \in CertRequest
  BY <1>1 DEF CertRequest, IIdle
<1>4. q.todo = row.todo /\ q.host = NoRow /\ q.at \in {"idle", "next"}
  BY <1>1 DEF CertRequest, IIdle
<1>5. NoRow \notin row.todo
  BY <1>1, CertsAssumption DEF CertRequest
<1>6. \A h \in CertHosts : h = row.host \/ h \in row.todo \/ ~WorksOn(a, h)
  BY DEF WorksOn
<1>7. row = ireqs[a]
  OBVIOUS
<1> HIDE DEF q, row
<1>8. ASSUME NEW h \in CertHosts, certs'[h] # NoRow, certs'[h].status \in Awaited
      PROVE \/ h \in ListedOrExcused' \/ h = q.host \/ h \in q.todo
            \/ certs[h] # NoRow /\ certs[h].status \in Awaited /\ ~WorksOn(a, h)
  BY <1>4, <1>6, <1>7, <1>8
<1> QED
  BY <1>1, <1>2, <1>3, <1>4, <1>5, <1>7, <1>8, CertMoves

LEMMA CertGoes ==
    ASSUME CertsInv, NEW a \in Issuers, NEW at \in {"write", "revoked", "failed"}, NEW list \in SUBSET CertHosts, Goes(a, at, list),
           ireqs[a].at \in {"read", "write"}, automate' \subseteq CertHosts, UNCHANGED <<certs, reports, crossed>>,
           upset \subseteq upset', at = "failed" => ireqs[a].host \in upset',
           \A h \in automate : h # ireqs[a].host => h \in automate' \union upset'
    PROVE  CertsInv'
<1> DEFINE row == ireqs[a]
           q == [row EXCEPT !.at = at, !.list = list]
<1>0. CertsTypes /\ RequestsPlaced
  BY DEF CertsInv
<1>1. row \in CertRequest /\ row.host \in CertHosts /\ certs[row.host] # NoRow /\ row.host \notin row.todo
  BY <1>0 DEF CertsTypes, RequestsPlaced
<1>2. ireqs' = [ireqs EXCEPT ![a] = q]
  BY <1>0 DEF Goes, CertsTypes
<1>3. q \in CertRequest
  BY <1>1 DEF CertRequest
<1>4. q.todo = row.todo /\ q.host = row.host /\ q.at = at
  BY <1>1 DEF CertRequest
<1>6. \A h \in CertHosts : h = row.host \/ h \in row.todo \/ ~WorksOn(a, h)
  BY DEF WorksOn
<1>7. row = ireqs[a] /\ certs' \in [CertHosts -> CertRow \union {NoRow}]
  BY <1>0 DEF CertsTypes
<1> HIDE DEF q, row
<1>8. ASSUME NEW h \in CertHosts, certs'[h] # NoRow, certs'[h].status \in Awaited
      PROVE \/ h \in ListedOrExcused' \/ h = q.host \/ h \in q.todo
            \/ certs[h] # NoRow /\ certs[h].status \in Awaited /\ ~WorksOn(a, h)
  BY <1>4, <1>6, <1>7, <1>8
<1> QED
  BY <1>1, <1>2, <1>3, <1>4, <1>7, <1>8, CertMoves

\* SetCertStatus leaves the tables well formed.
LEMMA StatusSet ==
    ASSUME CertsTypes, NEW h \in CertHosts, certs[h] # NoRow, NEW s \in CertStatuses, SetCertStatus(h, s)
    PROVE  /\ certs' \in [CertHosts -> CertRow \union {NoRow}]
           /\ \A g \in CertHosts : certs[g] # NoRow => certs'[g] # NoRow
           /\ \A g \in CertHosts : g # h => certs'[g] = certs[g]
           /\ certs'[h].status = s
<1> DEFINE row == certs[h]
           n == [row EXCEPT !.status = s]
<1>1. row \in CertRow
  BY DEF CertsTypes
<1>2. n \in CertRow /\ n.status = s
  BY <1>1 DEF CertRow
<1>3. certs' = [certs EXCEPT ![h] = n]
  BY DEF SetCertStatus
<1> HIDE DEF n
<1> QED
  BY <1>2, <1>3, CertsAssumption DEF CertsTypes

\* One step per action.
LEMMA CertsStep == CertsInv /\ [CertsNext]_ivars => CertsInv'
<1> SUFFICES ASSUME CertsInv, [CertsNext]_ivars PROVE CertsInv'
  OBVIOUS
<1>0. CertsTypes /\ RequestsPlaced /\ PassesListed /\ MeetingsKnown /\ AwaitedListed
  BY DEF CertsInv
<1>1. CASE UNCHANGED ivars
  <2>1. CertsTypes'
    BY <1>0, <1>1 DEF ivars, CertsTypes
  <2>2. RequestsPlaced' /\ PassesListed' /\ MeetingsKnown' /\ AwaitedListed'
    BY <1>0, <1>1 DEF ivars, RequestsPlaced, PassesListed, MeetingsKnown, AwaitedListed, WorksOn, ListedOrExcused
  <2> QED
    BY <2>1, <2>2 DEF CertsInv
<1>2. ASSUME NEW h \in CertHosts, CaddyObtains(h)
      PROVE CertsInv'
  <2>1. CertsTypes'
    BY <1>0, <1>2 DEF CaddyObtains, CertsTypes
  <2>2. RequestsPlaced' /\ PassesListed' /\ MeetingsKnown' /\ AwaitedListed'
    BY <1>0, <1>2 DEF CaddyObtains, RequestsPlaced, PassesListed, MeetingsKnown, AwaitedListed, WorksOn, ListedOrExcused
  <2> QED
    BY <2>1, <2>2 DEF CertsInv
<1>3. ASSUME NEW g \in CertHosts, MarkIssued(g) \/ CertAges(g)
      PROVE CertsInv'
  <2>0. /\ UNCHANGED <<automate, ireqs, crossed>> /\ upset \subseteq upset' /\ reports' \subseteq CertHosts
        /\ certs' \in [CertHosts -> CertRow \union {NoRow}]
        /\ \A h \in CertHosts : (certs'[h] = NoRow <=> certs[h] = NoRow) /\ (h # g => certs'[h] = certs[h])
        /\ (certs'[g] # NoRow /\ certs'[g].status \in Awaited) => g \in upset' \/ certs[g].status \in Awaited
    <3>1. CASE MarkIssued(g)
      <4> DEFINE n == [status |-> "active", age |-> "fresh"]
      <4>1. n \in CertRow
        BY DEF CertRow, CertStatuses, Ages
      <4>2. certs[g] \in CertRow \union {NoRow}
        BY <1>0 DEF CertsTypes
      <4>3. certs[g] # NoRow => certs[g].status \in CertStatuses
        BY <4>2 DEF CertRow
      <4>4. certs[g] # NoRow => g \in upset' \/ certs[g].status \in Awaited
        BY <3>1, <4>3 DEF MarkIssued, CertStatuses, Awaited
      <4>5. certs' = IF certs[g] = NoRow THEN certs ELSE [certs EXCEPT ![g] = n]
        BY <3>1 DEF MarkIssued, SetCertIssued
      <4>6. UNCHANGED <<automate, ireqs, crossed>> /\ upset \subseteq upset' /\ reports' \subseteq CertHosts
        BY <1>0, <3>1 DEF MarkIssued, CertsTypes
      <4> HIDE DEF n
      <4> QED
        BY <1>0, <4>1, <4>4, <4>5, <4>6, CertsAssumption DEF CertsTypes
    <3>2. CASE CertAges(g)
      <4> DEFINE row == certs[g]
                 n == [row EXCEPT !.age = IF row.age = "fresh" THEN "due" ELSE "past"]
      <4>1. row \in CertRow
        BY <1>0, <3>2 DEF CertsTypes, CertAges
      <4>2. n \in CertRow /\ n.status = certs[g].status
        BY <4>1 DEF CertRow, Ages
      <4>3. certs' = [certs EXCEPT ![g] = n]
        BY <3>2 DEF CertAges
      <4>4. UNCHANGED <<automate, ireqs, crossed, upset>> /\ reports' \subseteq CertHosts /\ certs[g] # NoRow
        BY <1>0, <3>2 DEF CertAges, CertsTypes
      <4> HIDE DEF n
      <4> QED
        BY <1>0, <4>2, <4>3, <4>4, CertsAssumption DEF CertsTypes
    <3> QED
      BY <1>3, <3>1, <3>2
  <2>1. CertsTypes'
    BY <1>0, <2>0 DEF CertsTypes
  <2>2. RequestsPlaced'
    <3>1. \A a \in Issuers : ireqs[a].todo \subseteq CertHosts
      BY <1>0 DEF CertsTypes, CertRequest
    <3> QED
      BY <1>0, <2>0, <3>1 DEF RequestsPlaced
  <2>3. PassesListed' /\ MeetingsKnown'
    BY <1>0, <2>0 DEF PassesListed, MeetingsKnown, WorksOn, ListedOrExcused
  <2>4. AwaitedListed'
    <3> SUFFICES ASSUME NEW h \in CertHosts, certs'[h] # NoRow, certs'[h].status \in Awaited
                 PROVE h \in ListedOrExcused' \/ \E b \in Issuers : WorksOn(b, h)'
      BY DEF AwaitedListed
    <3>1. h \in upset' \/ (certs[h] # NoRow /\ certs[h].status \in Awaited)
      <4>1. CASE h = g
        <5>1. certs'[g] # NoRow /\ certs'[g].status \in Awaited
          BY <4>1
        <5>2. certs[g] # NoRow /\ (g \in upset' \/ certs[g].status \in Awaited)
          BY <2>0, <5>1
        <5> QED
          BY <4>1, <5>2
      <4>2. CASE h # g
        BY <2>0, <4>2
      <4> QED
        BY <4>1, <4>2
    <3>2. h \in upset' \/ h \in ListedOrExcused \/ \E b \in Issuers : WorksOn(b, h)
      BY <1>0, <3>1 DEF AwaitedListed
    <3> QED
      BY <2>0, <3>2 DEF ListedOrExcused, WorksOn
  <2> QED
    BY <2>1, <2>2, <2>3, <2>4 DEF CertsInv
<1>4. ASSUME NEW a \in Issuers, ReadList(a)
      PROVE CertsInv'
  <2>0. UNCHANGED <<certs, automate, reports, upset, crossed>> /\ ireqs[a].at = "read"
    BY <1>4 DEF ReadList
  <2>1. \/ InPlace(ireqs[a]) /\ ireqs[a].op # "revoke" /\ Resumes(a)
        \/ Goes(a, "write", automate) \/ Goes(a, "write", {}) \/ Goes(a, "revoked", {})
    BY <1>4 DEF ReadList
  <2>2. CASE InPlace(ireqs[a]) /\ ireqs[a].op # "revoke" /\ Resumes(a)
    <3>1. ireqs[a].host \in ListedOrExcused'
      BY <2>0, <2>2 DEF InPlace, ListedOrExcused
    <3>2. certs' \in [CertHosts -> CertRow \union {NoRow}] /\ automate' \subseteq CertHosts
      BY <1>0, <2>0 DEF CertsTypes
    <3> QED
      BY <2>0, <2>2, <3>1, <3>2, CertResumes
  <2>3. CASE Goes(a, "write", automate) \/ Goes(a, "write", {}) \/ Goes(a, "revoked", {})
    <3>1. automate' \in SUBSET CertHosts /\ automate \in SUBSET CertHosts /\ {} \in SUBSET CertHosts
      BY <1>0, <2>0 DEF CertsTypes
    <3> QED
      BY <2>0, <2>3, <3>1, CertGoes
  <2> QED
    BY <2>1, <2>2, <2>3
<1>5. ASSUME NEW a \in Issuers, WriteList(a)
      PROVE CertsInv'
  <2> DEFINE q == ireqs[a]
  <2>0. /\ UNCHANGED <<certs, reports, crossed>> /\ q.at = "write" /\ q \in CertRequest
        /\ q.host \in CertHosts /\ automate \subseteq CertHosts /\ certs \in [CertHosts -> CertRow \union {NoRow}]
    BY <1>0, <1>5 DEF WriteList, CertsTypes, RequestsPlaced
  <2>1. q.list \subseteq CertHosts
    BY <2>0 DEF CertRequest
  <2>2. \/ automate' = q.list \ {q.host} /\ upset' = upset \union (automate \ q.list) /\ Goes(a, "revoked", {})
        \/ automate' = q.list \union {q.host} /\ upset' = upset \union (automate \ q.list) /\ Resumes(a)
        \/ UNCHANGED automate /\ upset' = upset \union {q.host} /\ (Resumes(a) \/ Goes(a, "revoked", {}) \/ Goes(a, "failed", {}))
    BY <1>5 DEF WriteList, Written
  <2>3. automate' \subseteq CertHosts /\ upset \subseteq upset' /\ {} \in SUBSET CertHosts
    BY <2>0, <2>1, <2>2
  <2>4. CASE /\ Resumes(a) /\ automate \subseteq automate' \union upset'
             /\ q.host \in automate => q.host \in automate'
             /\ q.host \in automate' \union upset'
    <3>1. q.host \in ListedOrExcused'
      BY <2>4 DEF ListedOrExcused
    <3>2. q = ireqs[a]
      OBVIOUS
    <3> HIDE DEF q
    <3> QED
      BY <2>0, <2>3, <2>4, <3>1, <3>2, CertResumes
  <2>5. CASE Goes(a, "revoked", {})
    <3>1. \A h \in automate : h # q.host => h \in automate' \union upset'
      BY <2>2
    <3> QED
      BY <2>0, <2>3, <2>5, <3>1, CertGoes
  <2>6. CASE UNCHANGED automate /\ upset' = upset \union {q.host} /\ Goes(a, "failed", {})
    BY <2>0, <2>3, <2>6, CertGoes
  <2> QED
    BY <2>2, <2>4, <2>5, <2>6
<1>6. ASSUME NEW a \in Issuers, FailCert(a)
      PROVE CertsInv'
  <2>0. UNCHANGED <<automate, reports, upset, crossed>> /\ ireqs[a].at = "failed" /\ Resumes(a)
    BY <1>6 DEF FailCert
  <2>1. ireqs[a].host \in CertHosts /\ certs[ireqs[a].host] # NoRow /\ ireqs[a].host \in ListedOrExcused' /\ automate' \subseteq CertHosts
    BY <1>0, <2>0 DEF RequestsPlaced, ListedOrExcused, CertsTypes
  <2>2. CASE UNCHANGED certs
    BY <1>0, <2>0, <2>1, <2>2, CertResumes DEF CertsTypes
  <2>3. CASE SetCertStatus(ireqs[a].host, "failed")
    <3>1. "failed" \in CertStatuses
      BY DEF CertStatuses
    <3>2. /\ certs' \in [CertHosts -> CertRow \union {NoRow}]
          /\ \A g \in CertHosts : certs[g] # NoRow => certs'[g] # NoRow
          /\ \A g \in CertHosts : g # ireqs[a].host => certs'[g] = certs[g]
      BY <1>0, <2>1, <2>3, <3>1, StatusSet
    <3> QED
      BY <2>0, <2>1, <3>2, CertResumes
  <2> QED
    BY <1>6, <2>2, <2>3 DEF FailCert
<1>7. ASSUME NEW a \in Issuers, MarkRevoked(a)
      PROVE CertsInv'
  <2>0. UNCHANGED <<automate, reports, crossed>> /\ ireqs[a].at = "revoked" /\ Resumes(a) /\ upset \subseteq upset'
    BY <1>7 DEF MarkRevoked
  <2>1. ireqs[a].host \in CertHosts /\ certs[ireqs[a].host] # NoRow /\ automate' \subseteq CertHosts
    BY <1>0, <2>0 DEF RequestsPlaced, CertsTypes
  <2>2. CASE UNCHANGED certs /\ upset' = upset \union {ireqs[a].host}
    <3>1. ireqs[a].host \in ListedOrExcused'
      BY <2>2 DEF ListedOrExcused
    <3> QED
      BY <1>0, <2>0, <2>1, <2>2, <3>1, CertResumes DEF CertsTypes
  <2>3. CASE SetCertStatus(ireqs[a].host, "revoked")
    <3>1. "revoked" \in CertStatuses
      BY DEF CertStatuses
    <3>2. /\ certs' \in [CertHosts -> CertRow \union {NoRow}]
          /\ \A g \in CertHosts : certs[g] # NoRow => certs'[g] # NoRow
          /\ \A g \in CertHosts : g # ireqs[a].host => certs'[g] = certs[g]
          /\ certs'[ireqs[a].host].status = "revoked"
      BY <1>0, <2>1, <2>3, <3>1, StatusSet
    <3>3. certs'[ireqs[a].host].status \notin Awaited
      BY <3>2 DEF Awaited
    <3> QED
      BY <2>0, <2>1, <3>2, <3>3, CertResumes
  <2> QED
    BY <1>7, <2>2, <2>3 DEF MarkRevoked
<1>8. ASSUME NEW a \in Issuers, NEW h \in ireqs[a].todo, ireqs[a].at = "next", UNCHANGED <<automate, reports, upset, crossed>>,
             certs' \in [CertHosts -> CertRow \union {NoRow}],
             \A g \in CertHosts : (certs[g] # NoRow => certs'[g] # NoRow) /\ (g # h => certs'[g] = certs[g]),
             NEW q, ireqs' = [ireqs EXCEPT ![a] = q],
             \/ q = [at |-> "read", op |-> "renew", host |-> h, list |-> {}, todo |-> ireqs[a].todo \ {h}]
             \/ q = IF ireqs[a].todo = {h} THEN IIdle ELSE [ireqs[a] EXCEPT !.todo = ireqs[a].todo \ {h}]
      PROVE CertsInv'
  <2>0. ireqs[a] \in CertRequest /\ ireqs[a].host = NoRow /\ automate' \subseteq CertHosts
    BY <1>0, <1>8 DEF CertsTypes, RequestsPlaced
  <2>1. ireqs[a].todo \subseteq CertHosts
    BY <2>0 DEF CertRequest
  <2>2. q \in CertRequest
    BY <1>8, <2>0, <2>1 DEF CertRequest, IIdle
  <2>3. /\ q.todo = ireqs[a].todo \ {h} /\ q.host \in {h, NoRow} /\ q.at \in {"idle", "read", "next"}
        /\ q.at = "read" => q.host = h
        /\ q.at = "next" => q.host = NoRow
    BY <1>8, <2>0 DEF CertRequest, IIdle
  <2>4. h \in CertHosts /\ certs[h] # NoRow /\ h \in ListedOrExcused'
    BY <1>0, <1>8, <2>1 DEF RequestsPlaced, PassesListed, ListedOrExcused
  <2>5. q.host \notin q.todo
    BY <2>1, <2>3, CertsAssumption
  <2>6. \A g \in CertHosts : g = h \/ g \in q.todo \/ ~WorksOn(a, g)
    BY <2>0, <2>3, CertsAssumption DEF WorksOn
  <2>7. \A g \in CertHosts : (certs'[g] # NoRow /\ certs'[g].status \in Awaited) =>
                \/ g \in ListedOrExcused' \/ g = q.host \/ g \in q.todo
                \/ certs[g] # NoRow /\ certs[g].status \in Awaited /\ ~WorksOn(a, g)
    BY <1>8, <2>4, <2>6
  <2>8. NoRow \notin automate
    BY <1>0, CertsAssumption DEF CertsTypes
  <2>9. /\ q.at \in {"read", "write", "failed", "revoked"} => q.host \in CertHosts /\ certs'[q.host] # NoRow
        /\ q.at # "failed"
        /\ q.todo \subseteq ireqs[a].todo /\ q.host \in {NoRow, ireqs[a].host} \union ireqs[a].todo
        /\ \A g \in CertHosts : certs[g] # NoRow => certs'[g] # NoRow
        /\ \A g \in automate : g \in automate' \union upset'
    BY <1>8, <2>3, <2>4
  <2> QED
    BY <1>8, <2>0, <2>2, <2>3, <2>5, <2>7, <2>8, <2>9, CertMoves
<1>9. ASSUME NEW a \in Issuers, RenewCert(a) \/ ExpireCert(a)
      PROVE CertsInv'
  <2>0. UNCHANGED <<automate, reports, upset, crossed>> /\ ireqs[a].at = "next" /\ ireqs[a].todo \subseteq CertHosts
    BY <1>0, <1>9 DEF RenewCert, ExpireCert, CertsTypes, CertRequest
  <2>1. PICK h \in ireqs[a].todo :
            /\ UNCHANGED certs \/ SetCertStatus(h, "renewing") \/ SetCertStatus(h, "expired")
            /\ \/ Starts(a, "renew", h, ireqs[a].todo \ {h}, "read")
               \/ PassesOver(a, h)
    BY <1>9 DEF RenewCert, ExpireCert
  <2>2. h \in CertHosts /\ certs[h] # NoRow /\ "renewing" \in CertStatuses /\ "expired" \in CertStatuses
    BY <1>0, <2>0 DEF RequestsPlaced, CertStatuses
  <2>3. /\ certs' \in [CertHosts -> CertRow \union {NoRow}]
        /\ \A g \in CertHosts : (certs[g] # NoRow => certs'[g] # NoRow) /\ (g # h => certs'[g] = certs[g])
    <3>1. CASE UNCHANGED certs
      BY <1>0, <3>1 DEF CertsTypes
    <3>2. CASE SetCertStatus(h, "renewing") \/ SetCertStatus(h, "expired")
      BY <1>0, <2>2, <3>2, StatusSet
    <3> QED
      BY <2>1, <3>1, <3>2
  <2>4. CASE Starts(a, "renew", h, ireqs[a].todo \ {h}, "read")
    BY <1>8, <2>0, <2>3, <2>4 DEF Starts
  <2>5. CASE PassesOver(a, h)
    <3> QED
      BY <1>8, <2>0, <2>3, <2>5 DEF PassesOver
  <2> QED
    BY <2>1, <2>4, <2>5
<1>10. ASSUME NEW a \in Issuers, IssuerStops(a)
       PROVE CertsInv'
  <2>0. /\ UNCHANGED <<certs, automate, reports, crossed>> /\ ireqs' = [ireqs EXCEPT ![a] = IIdle]
        /\ upset' = upset \union {h \in CertHosts : WorksOn(a, h)}
    BY <1>10 DEF IssuerStops
  <2>1. IIdle \in CertRequest /\ IIdle.at = "idle" /\ IIdle.host = NoRow /\ IIdle.todo = {}
    BY DEF IIdle, CertRequest
  <2>2. certs' \in [CertHosts -> CertRow \union {NoRow}] /\ automate' \subseteq CertHosts
    BY <1>0, <2>0 DEF CertsTypes
  <2>3. \A h \in CertHosts : (certs'[h] # NoRow /\ certs'[h].status \in Awaited) =>
                h \in ListedOrExcused' \/ (certs[h] # NoRow /\ certs[h].status \in Awaited /\ ~WorksOn(a, h))
    <3>1. certs' = certs /\ \A h \in CertHosts : WorksOn(a, h) => h \in ListedOrExcused'
      BY <2>0 DEF ListedOrExcused
    <3>2. ASSUME NEW h \in CertHosts, certs'[h] # NoRow, certs'[h].status \in Awaited
          PROVE h \in ListedOrExcused' \/ (certs[h] # NoRow /\ certs[h].status \in Awaited /\ ~WorksOn(a, h))
      <4>1. CASE WorksOn(a, h)
        BY <3>1, <4>1
      <4>2. CASE ~WorksOn(a, h)
        BY <3>1, <3>2, <4>2
      <4> QED
        BY <4>1, <4>2
    <3> QED
      BY <3>2
  <2> QED
    BY <2>0, <2>1, <2>2, <2>3, CertMoves
<1>11. ASSUME NEW a \in Issuers, NEW h \in CertHosts, RequestCert(a, h) \/ RevokeCert(a, h)
       PROVE CertsInv'
  <2>0. PICK op \in {"request", "revoke"} : Starts(a, op, h, {}, "read")
    BY <1>11 DEF RequestCert, RevokeCert
  <2> DEFINE q == [at |-> "read", op |-> op, host |-> h, list |-> {}, todo |-> {}]
             n == [status |-> "issuing", age |-> "undated"]
  <2>1. UNCHANGED <<automate, reports, upset>> /\ ireqs[a] = IIdle /\ Crosses({h})
    BY <1>11 DEF RequestCert, RevokeCert, ICall
  <2>2. ireqs' = [ireqs EXCEPT ![a] = q] /\ q \in CertRequest /\ q.host = h /\ q.todo = {} /\ q.at = "read"
    BY <2>0 DEF Starts, CertRequest
  <2>3. certs' = [certs EXCEPT ![h] = n] \/ (UNCHANGED certs /\ certs[h] # NoRow)
    <3>1. CASE RequestCert(a, h)
      <4>1. UpsertCertificate(h)
        BY <3>1 DEF RequestCert
      <4> QED
        BY <4>1 DEF UpsertCertificate
    <3>2. CASE RevokeCert(a, h)
      BY <3>2 DEF RevokeCert
    <3> QED
      BY <1>11, <3>1, <3>2
  <2>4. n \in CertRow
    BY DEF CertRow, CertStatuses, Ages
  <2> HIDE DEF n, q
  <2>5. /\ certs' \in [CertHosts -> CertRow \union {NoRow}]
        /\ \A g \in CertHosts : certs[g] # NoRow => certs'[g] # NoRow
        /\ \A g \in CertHosts : g # h => certs'[g] = certs[g]
        /\ certs'[h] # NoRow
    BY <1>0, <2>3, <2>4, CertsAssumption DEF CertsTypes
  <2>6. {h} \in SUBSET CertHosts /\ {q.host} \ {NoRow} \subseteq {h}
    BY <2>2
  <2> QED
    BY <2>1, <2>2, <2>5, <2>6, CertStarts
<1>12. ASSUME NEW a \in Issuers, ReconcileRenewals(a) \/ ReconcileExpired(a)
       PROVE CertsInv'
  <2>0. PICK hosts \in SUBSET DueForRenewal, op \in {"renew", "expire"} : Starts(a, op, NoRow, hosts, "next") /\ Crosses(hosts)
    BY <1>12 DEF ReconcileRenewals, ReconcileExpired
  <2> DEFINE q == [at |-> "next", op |-> op, host |-> NoRow, list |-> {}, todo |-> hosts]
  <2>1. UNCHANGED <<certs, automate, reports, upset>> /\ ireqs[a] = IIdle
    BY <1>12 DEF ReconcileRenewals, ReconcileExpired, ICall
  <2>2. hosts \in SUBSET CertHosts /\ \A h \in hosts : certs[h] # NoRow /\ certs[h].status \in Awaited
    BY DEF DueForRenewal, Awaited
  <2>3. ireqs' = [ireqs EXCEPT ![a] = q] /\ q \in CertRequest /\ q.host = NoRow /\ q.todo = hosts /\ q.at = "next"
    BY <2>0, <2>2 DEF Starts, CertRequest
  <2>4. certs' \in [CertHosts -> CertRow \union {NoRow}] /\ NoRow \notin hosts
    BY <1>0, <2>1, <2>2, CertsAssumption DEF CertsTypes
  <2> HIDE DEF q
  <2> QED
    BY <2>0, <2>1, <2>2, <2>3, <2>4, CertStarts
<1> QED
  BY <1>1, <1>2, <1>3, <1>4, <1>5, <1>6, <1>7, <1>9, <1>10, <1>11, <1>12 DEF CertsNext

LEMMA CertsStart == CertsInit => CertsInv
<1> SUFFICES ASSUME CertsInit PROVE CertsInv
  OBVIOUS
<1>1. \A a \in Issuers : ireqs[a] = IIdle
  BY DEF CertsInit
<1>2. IIdle.todo = {} /\ IIdle.at = "idle" /\ IIdle.host = NoRow /\ IIdle \in CertRequest
  BY DEF IIdle, CertRequest
<1>3. \A h \in CertHosts : certs[h] = NoRow
  BY DEF CertsInit
<1>4. CertsTypes
  BY <1>2 DEF CertsInit, CertsTypes
<1>5. RequestsPlaced /\ PassesListed /\ MeetingsKnown /\ AwaitedListed
  BY <1>1, <1>2, <1>3, CertsAssumption DEF RequestsPlaced, PassesListed, MeetingsKnown, AwaitedListed, WorksOn
<1> QED
  BY <1>4, <1>5 DEF CertsInv

CertsSpec == CertsInit /\ [][CertsNext]_ivars

\* A certificate that is awaited, valid or renewed is in Caddy's automation list once its request
\* is over, unless an outdated list dropped it, a step failed, two requests worked on it, or a late
\* report revived it: for every number of hostnames, requests, passes, restarts and failures of Caddy.
THEOREM AutomatedAlways == CertsSpec => []Automated
<1>1. CertsInv => Automated
  BY DEF CertsInv, AwaitedListed, Awaited, ListedOrExcused, Automated
<1> QED
  BY <1>1, CertsStart, CertsStep, PTL DEF CertsSpec

\* The tables of the certificates keep their shape.
LEMMA CertTablesKept == CertsInv => CertsTypeOK
<1> SUFFICES ASSUME CertsInv PROVE CertsTypeOK
  OBVIOUS
<1>1. CertsTypes
  BY DEF CertsInv
<1>2. \A a \in Issuers : ireqs[a].todo \subseteq CertHosts /\ ireqs[a].list \subseteq CertHosts
  BY <1>1 DEF CertsTypes, CertRequest
<1> QED
  BY <1>1, <1>2 DEF CertsTypes, CertsTypeOK

-----------------------------------------------------------------------------
(* Preview environments *)

PreviewRow == [dep : PDeps, host : PreviewHosts, up : Addresses, expired : BOOLEAN, deleted : BOOLEAN]
PreviewTarget == [id : PIds, dep : PDeps, host : PreviewHosts]
PreviewRoute == [host : PreviewHosts, up : Addresses, by : PDeps]

PushVisit == [at : {"push"}, dep : PDeps, host : PreviewHosts, up : Addresses, todo : {{}}]
UnrouteVisit == [at : {"unroute"}, dep : {NoRow}, todo : SUBSET PreviewTarget]
DropVisit == [at : {"drop"}, dep : PDeps, id : PIds, todo : SUBSET PreviewTarget]
Visit == {NoVisit} \union PushVisit \union UnrouteVisit \union DropVisit

PreviewTypes ==
    /\ prows \in [PIds -> PreviewRow \union {NoRow}]
    /\ visits \in [Visitors -> Visit]
    /\ \A t \in DOMAIN pcaddy : pcaddy[t] \in PreviewRoute

\* A row that reads see.
LiveRow(i) == prows[i] # NoRow /\ ~prows[i].deleted

\* A deployment has one live row.
OneLiveRow == \A i, j \in PIds : (LiveRow(i) /\ LiveRow(j) /\ prows[i].dep = prows[j].dep) => i = j

\* The hostnames of rows, of pushes and of what removals have read were given to their deployments.
HostsNamed ==
    /\ \A i \in PIds : prows[i] # NoRow => <<prows[i].dep, prows[i].host>> \in named
    /\ \A v \in Visitors : visits[v] \in PushVisit => <<visits[v].dep, visits[v].host>> \in named
    /\ \A v \in Visitors : visits[v] # NoVisit => \A r \in visits[v].todo : <<r.dep, r.host>> \in named

\* Two requests under way for a deployment are known to overlap, and a removal has read one row of a deployment.
OverlapsKnown ==
    /\ \A v, w \in Visitors, d \in PDeps : (v # w /\ Touches(v, d) /\ Touches(w, d)) => d \in troubled
    /\ \A v \in Visitors : visits[v] # NoVisit => \A r, s \in visits[v].todo : r.dep = s.dep => r = s
    /\ \A v \in Visitors : visits[v] \in DropVisit => \A r \in visits[v].todo : r.dep # visits[v].dep

\* Without trouble, what a removal has read of a row is still so.
ReadTrue(v) ==
    /\ visits[v] # NoVisit => \A r \in visits[v].todo :
        /\ prows[r.id] # NoRow /\ prows[r.id].dep = r.dep
        /\ r.dep \notin troubled => LiveRow(r.id) /\ prows[r.id].host = r.host
    /\ visits[v] \in DropVisit =>
        /\ prows[visits[v].id] # NoRow /\ prows[visits[v].id].dep = visits[v].dep
        /\ visits[v].dep \notin troubled => LiveRow(visits[v].id)

\* Without trouble, a push brings what the live row says.
PushTrue(v) ==
    (visits[v] \in PushVisit /\ visits[v].dep \notin troubled) =>
        \E i \in PIds : LiveRow(i) /\ prows[i].dep = visits[v].dep /\ prows[i].host = visits[v].host /\ prows[i].up = visits[v].up

\* Without trouble, the route of a row about to be deleted is gone.
RouteGone(v) ==
    (visits[v] \in DropVisit /\ visits[v].dep \notin troubled) => \A t \in DOMAIN pcaddy : pcaddy[t].by # visits[v].dep

VisitsTrue == \A v \in Visitors : ReadTrue(v) /\ PushTrue(v) /\ RouteGone(v)

\* A route is at the tag of its hostname and, without trouble, is that of a live row.
RoutesTrue ==
    \A t \in DOMAIN pcaddy :
        /\ t = SanitizeTag(pcaddy[t].host)
        /\ pcaddy[t].by \notin troubled => \E i \in PIds : LiveRow(i) /\ prows[i].dep = pcaddy[t].by /\ prows[i].host = pcaddy[t].host

\* The route of a row, and the hostnames that may take its tag.
RoutedRow(i) ==
    \/ /\ SanitizeTag(prows[i].host) \in DOMAIN pcaddy
       /\ pcaddy[SanitizeTag(prows[i].host)] = [host |-> prows[i].host, up |-> prows[i].up, by |-> prows[i].dep]
    \/ \E n \in named : n[1] # prows[i].dep /\ SameName(n[2], prows[i].host)

\* Without trouble, a live row that no request is about has its route, or a namesake.
RowsRouted ==
    \A i \in PIds : (LiveRow(i) /\ prows[i].dep \notin troubled /\ ~PreviewBusy(prows[i].dep)) => RoutedRow(i)

PreviewsInv == PreviewTypes /\ OneLiveRow /\ HostsNamed /\ OverlapsKnown /\ VisitsTrue /\ RoutesTrue /\ RowsRouted

\* Hostnames with the same tag differ in dots and dashes at most.
LEMMA TagsName ==
    ASSUME NEW g \in PreviewHosts, NEW h \in PreviewHosts, SanitizeTag(g) = SanitizeTag(h)
    PROVE  SameName(g, h)
<1>1. /\ g \in Seq(STRING) /\ SanitizeTag(g) = [k \in DOMAIN g |-> IF g[k] = "." THEN "-" ELSE g[k]]
      /\ h \in Seq(STRING) /\ SanitizeTag(h) = [k \in DOMAIN h |-> IF h[k] = "." THEN "-" ELSE h[k]]
  BY PreviewsAssumption DEF SanitizeTag
<1>2. DOMAIN g = DOMAIN h
  BY <1>1
<1>3. Len(g) = Len(h)
  <2>1. DOMAIN g = 1..Len(g) /\ DOMAIN h = 1..Len(h) /\ Len(g) \in Nat /\ Len(h) \in Nat
    BY <1>1
  <2>2. ASSUME NEW m \in Nat, NEW n \in Nat, 1..m = 1..n PROVE m <= n
    <3>1. CASE m = 0
      BY <3>1
    <3>2. CASE m > 0
      <4>1. m \in 1..m
        BY <3>2
      <4>2. m \in 1..n
        BY <2>2, <4>1
      <4> QED
        BY <4>2
    <3> QED
      BY <3>1, <3>2
  <2>3. Len(g) <= Len(h) /\ Len(h) <= Len(g)
    BY <1>2, <2>1, <2>2
  <2>4. Len(g) \in Nat /\ Len(h) \in Nat
    BY <2>1
  <2> QED
    BY <2>3, <2>4
<1>4. ASSUME NEW k \in DOMAIN g PROVE g[k] = h[k] \/ {g[k], h[k]} = {".", "-"}
  <2>1. (IF g[k] = "." THEN "-" ELSE g[k]) = SanitizeTag(g)[k]
    BY <1>1
  <2>2. (IF h[k] = "." THEN "-" ELSE h[k]) = SanitizeTag(h)[k]
    BY <1>1, <1>2
  <2>3. (IF g[k] = "." THEN "-" ELSE g[k]) = (IF h[k] = "." THEN "-" ELSE h[k])
    BY <2>1, <2>2
  <2>4. g[k] = h[k] \/ (g[k] = "." /\ h[k] = "-") \/ (g[k] = "-" /\ h[k] = ".")
    BY <2>3
  <2>5. CASE g[k] = "." /\ h[k] = "-"
    BY <2>5
  <2>6. CASE g[k] = "-" /\ h[k] = "."
    <3>1. {g[k], h[k]} = {"-", "."}
      BY <2>6
    <3>2. {"-", "."} = {".", "-"}
      OBVIOUS
    <3> QED
      BY <3>1, <3>2
  <2> QED
    BY <2>4, <2>5, <2>6
<1> QED
  BY <1>3, <1>4 DEF SameName

\* What a request has in hand by its position.
LEMMA VisitShape ==
    ASSUME PreviewTypes, NEW v \in Visitors
    PROVE  /\ NoVisit \notin PushVisit \union UnrouteVisit \union DropVisit
           /\ visits[v] \in {NoVisit} \union PushVisit \union UnrouteVisit \union DropVisit
           /\ visits[v] # NoVisit => visits[v].todo \subseteq PreviewTarget
           /\ (visits[v] # NoVisit /\ visits[v].at = "push") => visits[v] \in PushVisit
           /\ (visits[v] # NoVisit /\ visits[v].at = "unroute") => visits[v] \in UnrouteVisit
           /\ (visits[v] # NoVisit /\ visits[v].at = "drop") => visits[v] \in DropVisit
<1>1. visits[v] \in Visit
  BY DEF PreviewTypes
<1>2. NoVisit.at = "idle"
  BY DEF NoVisit
<1>3. \A q \in PushVisit : q.at = "push" /\ q.todo \subseteq PreviewTarget
  BY DEF PushVisit
<1>4. \A q \in UnrouteVisit : q.at = "unroute" /\ q.todo \subseteq PreviewTarget
  BY DEF UnrouteVisit
<1>5. \A q \in DropVisit : q.at = "drop" /\ q.todo \subseteq PreviewTarget
  BY DEF DropVisit
<1> QED
  BY <1>1, <1>2, <1>3, <1>4, <1>5 DEF Visit

\* What the requests under way know of each other, and of the hostnames, when one of them moves on.
LEMMA VisitMoves ==
    ASSUME PreviewsInv, NEW v \in Visitors, visits' \in [Visitors -> Visit], \A w \in Visitors \ {v} : visits'[w] = visits[w],
           troubled \subseteq troubled', named \subseteq named',
           \A d \in PDeps, w \in Visitors \ {v} : (Touches(v, d)' /\ ~Touches(v, d) /\ Touches(w, d)) => d \in troubled',
           visits'[v] # NoVisit => \A r, s \in visits'[v].todo : r.dep = s.dep => r = s,
           visits'[v] \in DropVisit => \A r \in visits'[v].todo : r.dep # visits'[v].dep,
           visits'[v] \in PushVisit => <<visits'[v].dep, visits'[v].host>> \in named',
           visits'[v] # NoVisit => \A r \in visits'[v].todo : <<r.dep, r.host>> \in named',
           \A i \in PIds : prows'[i] # NoRow => <<prows'[i].dep, prows'[i].host>> \in named'
    PROVE  HostsNamed' /\ OverlapsKnown'
<1>0. HostsNamed /\ OverlapsKnown
  BY DEF PreviewsInv
<1>1. HostsNamed'
  <2> SUFFICES ASSUME NEW w \in Visitors
               PROVE /\ visits'[w] \in PushVisit => <<visits'[w].dep, visits'[w].host>> \in named'
                     /\ visits'[w] # NoVisit => \A r \in visits'[w].todo : <<r.dep, r.host>> \in named'
    BY DEF HostsNamed, PushVisit, NoVisit
  <2>1. CASE w = v
    BY <2>1
  <2>2. CASE w # v
    BY <1>0, <2>2 DEF HostsNamed
  <2> QED
    BY <2>1, <2>2
<1>2. \A w \in Visitors \ {v}, d \in PDeps : Touches(w, d)' <=> Touches(w, d)
  BY DEF Touches, NoVisit
<1>3. ASSUME NEW x \in Visitors, NEW y \in Visitors, NEW d \in PDeps, x # y, Touches(x, d)', Touches(y, d)'
      PROVE d \in troubled'
  <2>1. CASE x # v /\ y # v
    BY <1>0, <1>2, <1>3, <2>1 DEF OverlapsKnown
  <2>2. ASSUME NEW w \in Visitors \ {v}, Touches(v, d)', Touches(w, d)' PROVE d \in troubled'
    <3>1. Touches(w, d)
      BY <1>2, <2>2
    <3>2. CASE Touches(v, d)
      BY <1>0, <3>1, <3>2 DEF OverlapsKnown
    <3>3. CASE ~Touches(v, d)
      BY <2>2, <3>1, <3>3
    <3> QED
      BY <3>2, <3>3
  <2> QED
    BY <1>3, <2>1, <2>2
<1>4. \A w \in Visitors : visits'[w] # NoVisit => \A r, s \in visits'[w].todo : r.dep = s.dep => r = s
  BY <1>0 DEF OverlapsKnown
<1>5. \A w \in Visitors : visits'[w] \in DropVisit => \A r \in visits'[w].todo : r.dep # visits'[w].dep
  BY <1>0 DEF OverlapsKnown
<1> QED
  BY <1>1, <1>3, <1>4, <1>5 DEF OverlapsKnown, NoVisit, DropVisit

\* A step of a request that leaves the routes alone. Rows change only of the deployments in D, whose
\* other requests then overlap with this one, and a deployment that it leaves otherwise is in trouble.
LEMMA PreviewMoves ==
    ASSUME PreviewsInv, NEW v \in Visitors, NEW D \in SUBSET PDeps, PreviewTypes', OneLiveRow', UNCHANGED pcaddy,
           \A w \in Visitors \ {v} : visits'[w] = visits[w], troubled \subseteq troubled', named \subseteq named',
           \A i \in PIds : prows[i] # NoRow => prows'[i] # NoRow /\ prows'[i].dep = prows[i].dep,
           \A i \in PIds : (prows[i] # NoRow /\ prows[i].dep \notin D) =>
                prows'[i].host = prows[i].host /\ prows'[i].up = prows[i].up /\ (LiveRow(i)' <=> LiveRow(i)),
           \A i \in PIds : (prows[i] = NoRow /\ prows'[i] # NoRow) => prows'[i].dep \in D,
           \A i \in PIds : prows'[i] # NoRow => <<prows'[i].dep, prows'[i].host>> \in named',
           \A d \in PDeps, w \in Visitors \ {v} : (Touches(v, d)' /\ ~Touches(v, d) /\ Touches(w, d)) => d \in troubled',
           visits'[v] # NoVisit => \A r, s \in visits'[v].todo : r.dep = s.dep => r = s,
           visits'[v] \in DropVisit => \A r \in visits'[v].todo : r.dep # visits'[v].dep,
           visits'[v] \in PushVisit => <<visits'[v].dep, visits'[v].host>> \in named',
           visits'[v] # NoVisit => \A r \in visits'[v].todo : <<r.dep, r.host>> \in named',
           \A d \in D, w \in Visitors \ {v} : Touches(w, d) => d \in troubled',
           \A e \in PDeps \ D : (Touches(v, e) /\ ~Touches(v, e)') => e \in troubled',
           \A t \in DOMAIN pcaddy : pcaddy[t].by \in D \ troubled' =>
                \E i \in PIds : LiveRow(i)' /\ prows'[i].dep = pcaddy[t].by /\ prows'[i].host = pcaddy[t].host,
           \A i \in PIds : (LiveRow(i)' /\ prows'[i].dep \in D \ troubled') => PreviewBusy(prows[i].dep)',
           ReadTrue(v)', PushTrue(v)', RouteGone(v)'
    PROVE  PreviewsInv'
<1>0. PreviewTypes /\ OneLiveRow /\ HostsNamed /\ OverlapsKnown /\ VisitsTrue /\ RoutesTrue /\ RowsRouted
  BY DEF PreviewsInv
<1>1. HostsNamed' /\ OverlapsKnown'
  BY VisitMoves DEF PreviewTypes
<1>2. \A w \in Visitors \ {v}, d \in PDeps : Touches(w, d)' <=> Touches(w, d)
  BY DEF Touches, NoVisit
<1>3. ASSUME NEW w \in Visitors \ {v} PROVE ReadTrue(w)' /\ PushTrue(w)' /\ RouteGone(w)'
  <2>0. ReadTrue(w) /\ PushTrue(w) /\ RouteGone(w) /\ visits'[w] = visits[w] /\ NoVisit' = NoVisit
    BY <1>0 DEF VisitsTrue, NoVisit
  <2>1. /\ visits[w] # NoVisit => \A r \in visits[w].todo : r.id \in PIds /\ r.dep \in PDeps /\ Touches(w, r.dep)
        /\ visits[w] \in DropVisit => visits[w].id \in PIds /\ visits[w].dep \in PDeps /\ Touches(w, visits[w].dep)
        /\ visits[w] \in PushVisit => visits[w].dep \in PDeps /\ Touches(w, visits[w].dep)
    BY <1>0, VisitShape DEF DropVisit, PushVisit, PreviewTarget, Touches
  <2>2. ReadTrue(w)'
    <3>1. ASSUME visits[w] # NoVisit, NEW r \in visits[w].todo
          PROVE /\ prows'[r.id] # NoRow /\ prows'[r.id].dep = r.dep
                /\ r.dep \notin troubled' => LiveRow(r.id)' /\ prows'[r.id].host = r.host
      <4>1. prows[r.id] # NoRow /\ prows[r.id].dep = r.dep /\ (r.dep \notin troubled => LiveRow(r.id) /\ prows[r.id].host = r.host)
        BY <2>0, <3>1 DEF ReadTrue
      <4>2. r.id \in PIds /\ r.dep \in PDeps /\ (r.dep \in D => r.dep \in troubled')
        BY <2>1, <3>1
      <4> QED
        BY <4>1, <4>2
    <3>2. ASSUME visits[w] \in DropVisit
          PROVE /\ prows'[visits[w].id] # NoRow /\ prows'[visits[w].id].dep = visits[w].dep
                /\ visits[w].dep \notin troubled' => LiveRow(visits[w].id)'
      <4>1. prows[visits[w].id] # NoRow /\ prows[visits[w].id].dep = visits[w].dep /\ (visits[w].dep \notin troubled => LiveRow(visits[w].id))
        BY <2>0, <3>2 DEF ReadTrue
      <4>2. visits[w].id \in PIds /\ (visits[w].dep \in D => visits[w].dep \in troubled')
        BY <2>1, <3>2
      <4> QED
        BY <4>1, <4>2
    <3>3. DropVisit' = DropVisit
      BY DEF DropVisit, PreviewTarget, PreviewHosts
    <3> QED
      BY <2>0, <3>1, <3>2, <3>3 DEF ReadTrue, LiveRow
  <2>3. PushTrue(w)'
    <3> SUFFICES ASSUME visits[w] \in PushVisit, visits[w].dep \notin troubled'
                 PROVE \E i \in PIds : LiveRow(i)' /\ prows'[i].dep = visits[w].dep /\ prows'[i].host = visits[w].host /\ prows'[i].up = visits[w].up
      BY <2>0 DEF PushTrue, LiveRow, PushVisit, PreviewHosts
    <3>1. PICK i \in PIds : LiveRow(i) /\ prows[i].dep = visits[w].dep /\ prows[i].host = visits[w].host /\ prows[i].up = visits[w].up
      BY <2>0 DEF PushTrue
    <3>2. visits[w].dep \notin D /\ prows[i] # NoRow
      BY <2>1, <3>1 DEF LiveRow
    <3> QED
      BY <3>1, <3>2
  <2>4. RouteGone(w)'
    BY <2>0 DEF RouteGone, DropVisit, PreviewTarget, PreviewHosts
  <2> QED
    BY <2>2, <2>3, <2>4
<1>4. VisitsTrue'
  BY <1>3 DEF VisitsTrue
<1>5. RoutesTrue'
  <2> SUFFICES ASSUME NEW t \in DOMAIN pcaddy
               PROVE /\ t = SanitizeTag(pcaddy[t].host)
                     /\ pcaddy[t].by \notin troubled' => \E i \in PIds : LiveRow(i)' /\ prows'[i].dep = pcaddy[t].by /\ prows'[i].host = pcaddy[t].host
    BY DEF RoutesTrue, LiveRow
  <2>1. t = SanitizeTag(pcaddy[t].host)
    BY <1>0 DEF RoutesTrue
  <2>2. CASE pcaddy[t].by \in D
    BY <2>1, <2>2
  <2>3. CASE pcaddy[t].by \notin D /\ pcaddy[t].by \notin troubled'
    <3>1. PICK i \in PIds : LiveRow(i) /\ prows[i].dep = pcaddy[t].by /\ prows[i].host = pcaddy[t].host
      BY <1>0, <2>3 DEF RoutesTrue
    <3>2. prows[i] # NoRow
      BY <3>1 DEF LiveRow
    <3> QED
      BY <2>1, <2>3, <3>1, <3>2
  <2> QED
    BY <2>1, <2>2, <2>3
<1>6. RowsRouted'
  <2> SUFFICES ASSUME NEW i \in PIds, LiveRow(i)', prows'[i].dep \notin troubled', ~PreviewBusy(prows[i].dep)'
               PROVE RoutedRow(i)'
    BY DEF RowsRouted
  <2>1. PICK e \in PDeps : e = prows'[i].dep
    BY DEF PreviewTypes, PreviewRow, LiveRow
  <2>2. \A w \in Visitors : ~Touches(w, e)'
    BY <2>1 DEF PreviewBusy, Touches
  <2>3. e \notin D /\ prows[i] # NoRow /\ prows'[i] # NoRow
    BY <2>1 DEF LiveRow
  <2>4. prows[i].dep = e /\ LiveRow(i) /\ prows'[i].host = prows[i].host /\ prows'[i].up = prows[i].up
    BY <2>1, <2>3
  <2>5. \A w \in Visitors : ~Touches(w, e)
    BY <1>2, <2>1, <2>2, <2>3
  <2>6. RoutedRow(i)
    BY <1>0, <2>1, <2>4, <2>5 DEF RowsRouted, PreviewBusy
  <2> QED
    BY <2>1, <2>4, <2>6 DEF RoutedRow
<1> QED
  BY <1>1, <1>4, <1>5, <1>6 DEF PreviewsInv

LEMMA PreviewsAreRows == NoRow \notin PreviewRow
<1>1. PreviewHosts \subseteq Seq(STRING)
  BY PreviewsAssumption
<1>2. PreviewRow \subseteq Preview
  BY <1>1 DEF PreviewRow, Preview
<1> QED
  BY <1>2, PreviewsAssumption

\* A row that is soft-deleted keeps its other columns; one that is not live stays as it is.
LEMMA PreviewDeleted ==
    ASSUME PreviewTypes, NEW i \in PIds, prows[i] # NoRow, prows' = SoftDelete(prows, i)
    PROVE  /\ prows' \in [PIds -> PreviewRow \union {NoRow}]
           /\ \A j \in PIds \ {i} : prows'[j] = prows[j]
           /\ prows'[i] # NoRow /\ prows'[i].deleted
           /\ prows'[i].dep = prows[i].dep /\ prows'[i].host = prows[i].host
<1> DEFINE row == prows[i]
           cols == {"dep", "host", "up", "expired", "deleted"}
           changed == [c \in DOMAIN row |-> IF c \in DOMAIN [deleted |-> TRUE] THEN [deleted |-> TRUE][c] ELSE row[c]]
<1>1. row \in PreviewRow /\ DOMAIN row = cols
  BY DEF PreviewTypes, PreviewRow
<1>2. CASE i \notin LiveIds(prows)
  <2>1. prows' = prows
    BY <1>2 DEF SoftDelete, Update
  <2>2. row.deleted
    BY <1>2, Zenon DEF LiveIds, PreviewTypes
  <2> QED
    BY <2>1, <2>2 DEF PreviewTypes
<1>3. CASE i \in LiveIds(prows)
  <2>1. DOMAIN [deleted |-> TRUE] = {"deleted"} /\ [deleted |-> TRUE]["deleted"] = TRUE
    OBVIOUS
  <2>2. changed = [c \in cols |-> IF c = "deleted" THEN TRUE ELSE row[c]]
    BY <1>1, <2>1
  <2>3. changed = [row EXCEPT !.deleted = TRUE]
    BY <1>1, <2>2 DEF PreviewRow
  <2>4. changed \in PreviewRow /\ changed.deleted /\ changed.dep = row.dep /\ changed.host = row.host
    BY <1>1, <2>3 DEF PreviewRow
  <2>5. prows' = [prows EXCEPT ![i] = changed]
    BY <1>3, Zenon DEF SoftDelete, Update
  <2> HIDE DEF changed
  <2> QED
    BY <2>4, <2>5, PreviewsAreRows DEF PreviewTypes
<1> QED
  BY <1>2, <1>3

\* A live row that is overwritten stays live.
LEMMA PreviewUpdated ==
    ASSUME PreviewTypes, NEW i \in PIds, LiveRow(i), NEW h \in PreviewHosts, NEW u \in Addresses,
           prows' = Update(prows, i, [host |-> h, up |-> u, expired |-> FALSE])
    PROVE  /\ prows' \in [PIds -> PreviewRow \union {NoRow}]
           /\ \A j \in PIds \ {i} : prows'[j] = prows[j]
           /\ LiveRow(i)' /\ prows'[i].dep = prows[i].dep /\ prows'[i].host = h /\ prows'[i].up = u
<1> DEFINE row == prows[i]
           cols == {"dep", "host", "up", "expired", "deleted"}
           vals == [host |-> h, up |-> u, expired |-> FALSE]
           changed == [c \in DOMAIN row |-> IF c \in DOMAIN vals THEN vals[c] ELSE row[c]]
<1>1. row \in PreviewRow /\ DOMAIN row = cols
  BY DEF PreviewTypes, PreviewRow, LiveRow
<1>2. i \in LiveIds(prows)
  BY Zenon DEF LiveIds, PreviewTypes, LiveRow
<1>3. DOMAIN vals = {"host", "up", "expired"} /\ vals["host"] = h /\ vals["up"] = u /\ vals["expired"] = FALSE
  OBVIOUS
<1> HIDE DEF vals
<1>4. /\ DOMAIN changed = cols /\ changed["dep"] = row["dep"] /\ changed["host"] = h /\ changed["up"] = u
      /\ changed["expired"] = FALSE /\ changed["deleted"] = row["deleted"]
  BY <1>1, <1>3
<1>5. changed = [row EXCEPT !.host = h, !.up = u, !.expired = FALSE]
  BY <1>1, <1>3 DEF PreviewRow
<1>6. changed \in PreviewRow /\ changed.dep = row.dep /\ changed.host = h /\ changed.up = u /\ changed.deleted = row.deleted
  BY <1>1, <1>5 DEF PreviewRow
<1>7. prows' = [prows EXCEPT ![i] = changed]
  BY <1>2, Zenon DEF Update, vals
<1>8. ~changed.deleted
  BY <1>6 DEF LiveRow
<1> HIDE DEF changed
<1> QED
  BY <1>6, <1>7, <1>8, PreviewsAreRows DEF PreviewTypes, LiveRow

LEMMA PreviewLives ==
    ASSUME PreviewTypes
    PROVE  LiveIds(prows) = {i \in PIds : LiveRow(i)} /\ \A d \in PDeps : LiveOf(d) = {i \in PIds : LiveRow(i) /\ prows[i].dep = d}
<1>1. DOMAIN prows = PIds
  BY DEF PreviewTypes
<1>2. LiveIds(prows) = {i \in PIds : LiveRow(i)}
  BY <1>1, Zenon DEF LiveIds, LiveRow
<1>3. \A d \in PDeps : LiveOf(d) = {i \in LiveIds(prows) : prows[i].dep = d}
  BY Zenon DEF LiveOf, Find
<1> QED
  BY <1>2, <1>3

\* Create: the row, and the push that comes.
LEMMA PreviewCreated ==
    ASSUME PreviewsInv, NEW v \in Visitors, NEW d \in PDeps, NEW h \in PreviewHosts, NEW u \in Addresses, CreatePreview(v, d, h, u)
    PROVE  PreviewsInv'
<1> DEFINE q == [at |-> "push", dep |-> d, host |-> h, up |-> u, todo |-> {}]
<1>0. PreviewTypes /\ OneLiveRow /\ HostsNamed /\ RoutesTrue
  BY DEF PreviewsInv
<1>1. q \in PushVisit /\ q.dep = d /\ q.host = h /\ q.up = u /\ q.todo = {} /\ q # NoVisit /\ q \notin DropVisit
  <2>1. q \in PushVisit /\ q.dep = d /\ q.host = h /\ q.up = u /\ q.todo = {} /\ q.at = "push"
    BY DEF PushVisit
  <2>2. \A x \in DropVisit : x.at = "drop"
    BY DEF DropVisit
  <2>3. NoVisit.at = "idle"
    BY DEF NoVisit
  <2> HIDE DEF q
  <2> QED
    BY <2>1, <2>2, <2>3
<1>2. visits[v] = NoVisit /\ visits' = [visits EXCEPT ![v] = q] /\ UNCHANGED pcaddy /\ named' = named \union {<<d, h>>}
  BY DEF CreatePreview, PCall
<1> HIDE DEF q
<1>3. visits' \in [Visitors -> Visit] /\ visits'[v] = q /\ \A w \in Visitors \ {v} : visits'[w] = visits[w]
  BY <1>0, <1>1, <1>2 DEF PreviewTypes, Visit
<1>4. \A e \in PDeps : ~Touches(v, e) /\ (Touches(v, e)' <=> e = d)
  BY <1>1, <1>2, <1>3 DEF Touches, NoVisit
<1>5. troubled \subseteq troubled' /\ \A w \in Visitors : Touches(w, d) => d \in troubled'
  BY DEF CreatePreview, UpsertPreview, Overlapping
<1>6. \E i \in PIds :
        /\ prows' \in [PIds -> PreviewRow \union {NoRow}]
        /\ \A j \in PIds \ {i} : prows'[j] = prows[j] /\ (LiveRow(j) => prows[j].dep # d)
        /\ LiveRow(i)' /\ prows'[i].dep = d /\ prows'[i].host = h /\ prows'[i].up = u
        /\ prows[i] # NoRow => LiveRow(i) /\ prows[i].dep = d /\ (d \notin troubled' => prows[i].host = h)
  <2>1. CASE /\ LiveOf(d) = {}
             /\ \E i \in PIds : /\ prows[i] = NoRow
                                /\ prows' = Insert(prows, i, [dep |-> d, host |-> h, up |-> u, expired |-> FALSE, deleted |-> FALSE])
    <3> DEFINE n == [dep |-> d, host |-> h, up |-> u, expired |-> FALSE, deleted |-> FALSE]
    <3>1. PICK i \in PIds : prows[i] = NoRow /\ prows' = [prows EXCEPT ![i] = n]
      BY <2>1 DEF Insert
    <3>2. n \in PreviewRow /\ n.dep = d /\ n.host = h /\ n.up = u /\ ~n.deleted
      BY DEF PreviewRow
    <3> HIDE DEF n
    <3>3. \A j \in PIds : LiveRow(j) => prows[j].dep # d
      BY <1>0, <2>1, PreviewLives
    <3>4. prows' \in [PIds -> PreviewRow \union {NoRow}] /\ prows'[i] = n /\ \A j \in PIds \ {i} : prows'[j] = prows[j]
      BY <1>0, <3>1, <3>2 DEF PreviewTypes
    <3>5. LiveRow(i)' /\ prows'[i].dep = d /\ prows'[i].host = h /\ prows'[i].up = u
      BY <3>2, <3>4, PreviewsAreRows DEF LiveRow
    <3> QED
      BY <3>1, <3>3, <3>4, <3>5
  <2>2. CASE \E i \in LiveOf(d) :
                /\ prows' = Update(prows, i, [host |-> h, up |-> u, expired |-> FALSE])
                /\ troubled' = troubled \union Overlapping(d) \union (IF prows[i].host # h THEN {d} ELSE {})
    <3>1. PICK i \in LiveOf(d) :
                /\ prows' = Update(prows, i, [host |-> h, up |-> u, expired |-> FALSE])
                /\ troubled' = troubled \union Overlapping(d) \union (IF prows[i].host # h THEN {d} ELSE {})
      BY <2>2
    <3>2. i \in PIds /\ LiveRow(i) /\ prows[i].dep = d
      BY <1>0, <3>1, PreviewLives
    <3>3. /\ prows' \in [PIds -> PreviewRow \union {NoRow}]
          /\ \A j \in PIds \ {i} : prows'[j] = prows[j]
          /\ LiveRow(i)' /\ prows'[i].dep = prows[i].dep /\ prows'[i].host = h /\ prows'[i].up = u
      BY <1>0, <3>1, <3>2, PreviewUpdated
    <3>4. \A j \in PIds \ {i} : LiveRow(j) => prows[j].dep # d
      BY <1>0, <3>2 DEF OneLiveRow
    <3>5. d \notin troubled' => prows[i].host = h
      BY <3>1
    <3> QED
      BY <3>2, <3>3, <3>4, <3>5
  <2> QED
    BY <2>1, <2>2 DEF CreatePreview, UpsertPreview
<1>7. PICK i \in PIds :
        /\ prows' \in [PIds -> PreviewRow \union {NoRow}]
        /\ \A j \in PIds \ {i} : prows'[j] = prows[j] /\ (LiveRow(j) => prows[j].dep # d)
        /\ LiveRow(i)' /\ prows'[i].dep = d /\ prows'[i].host = h /\ prows'[i].up = u
        /\ prows[i] # NoRow => LiveRow(i) /\ prows[i].dep = d /\ (d \notin troubled' => prows[i].host = h)
  BY <1>6
<1>8. prows'[i] # NoRow /\ \A j \in PIds \ {i} : LiveRow(j)' <=> LiveRow(j)
  BY <1>7 DEF LiveRow
<1>9. PreviewTypes'
  <2>1. \A t \in DOMAIN pcaddy' : pcaddy'[t] \in PreviewRoute
    BY <1>0, <1>2 DEF PreviewTypes
  <2> QED
    BY <1>3, <1>7, <2>1 DEF PreviewTypes
<1>10. OneLiveRow'
  BY <1>0, <1>7, <1>8 DEF OneLiveRow
<1>11. \A j \in PIds : prows'[j] # NoRow => <<prows'[j].dep, prows'[j].host>> \in named'
  BY <1>0, <1>2, <1>7 DEF HostsNamed
<1>12. \A t \in DOMAIN pcaddy : pcaddy[t].by \in {d} \ troubled' =>
          \E j \in PIds : LiveRow(j)' /\ prows'[j].dep = pcaddy[t].by /\ prows'[j].host = pcaddy[t].host
  <2> SUFFICES ASSUME NEW t \in DOMAIN pcaddy, pcaddy[t].by = d, d \notin troubled'
               PROVE  prows'[i].host = pcaddy[t].host
    BY <1>7
  <2>1. PICK j \in PIds : LiveRow(j) /\ prows[j].dep = d /\ prows[j].host = pcaddy[t].host
    BY <1>0, <1>5 DEF RoutesTrue
  <2>2. j = i /\ prows[j] # NoRow
    BY <1>7, <2>1 DEF LiveRow
  <2> QED
    BY <1>7, <2>1, <2>2
<1>13. \A j \in PIds : (LiveRow(j)' /\ prows'[j].dep \in {d} \ troubled') => PreviewBusy(prows[j].dep)'
  <2>1. Touches(v, d)'
    BY <1>4
  <2> QED
    BY <2>1 DEF PreviewBusy, Touches
<1>14. ReadTrue(v)' /\ PushTrue(v)' /\ RouteGone(v)'
  <2>1. ReadTrue(v)'
    BY <1>1, <1>3 DEF ReadTrue, DropVisit, PreviewTarget, PreviewHosts
  <2>2. PushTrue(v)'
    BY <1>1, <1>3, <1>7 DEF PushTrue
  <2>3. RouteGone(v)'
    BY <1>1, <1>3 DEF RouteGone, DropVisit, PreviewTarget, PreviewHosts
  <2> QED
    BY <2>1, <2>2, <2>3
<1>15. /\ \A j \in PIds : prows[j] # NoRow => prows'[j] # NoRow /\ prows'[j].dep = prows[j].dep
       /\ \A j \in PIds : (prows[j] # NoRow /\ prows[j].dep \notin {d}) =>
                prows'[j].host = prows[j].host /\ prows'[j].up = prows[j].up /\ (LiveRow(j)' <=> LiveRow(j))
       /\ \A j \in PIds : (prows[j] = NoRow /\ prows'[j] # NoRow) => prows'[j].dep \in {d}
  BY <1>7, <1>8
<1>16. named \subseteq named' /\ <<d, h>> \in named' /\ {d} \in SUBSET PDeps
  BY <1>2
<1>17. /\ \A e \in PDeps, w \in Visitors \ {v} : (Touches(v, e)' /\ ~Touches(v, e) /\ Touches(w, e)) => e \in troubled'
       /\ \A e \in {d}, w \in Visitors \ {v} : Touches(w, e) => e \in troubled'
       /\ \A e \in PDeps \ {d} : (Touches(v, e) /\ ~Touches(v, e)') => e \in troubled'
  BY <1>4, <1>5
<1>18. /\ visits'[v] # NoVisit => \A r, s \in visits'[v].todo : r.dep = s.dep => r = s
       /\ visits'[v] \in DropVisit => \A r \in visits'[v].todo : r.dep # visits'[v].dep
       /\ visits'[v] \in PushVisit => <<visits'[v].dep, visits'[v].host>> \in named'
       /\ visits'[v] # NoVisit => \A r \in visits'[v].todo : <<r.dep, r.host>> \in named'
  BY <1>1, <1>3, <1>16
<1> QED
  BY <1>2, <1>3, <1>5, <1>9, <1>10, <1>11, <1>12, <1>13, <1>14, <1>15, <1>16, <1>17, <1>18, PreviewMoves

\* A step of a request that leaves the rows and the routes alone.
LEMMA PreviewWaits ==
    ASSUME PreviewsInv, NEW v \in Visitors, UNCHANGED <<prows, pcaddy, named>>, visits' \in [Visitors -> Visit],
           \A w \in Visitors \ {v} : visits'[w] = visits[w], troubled \subseteq troubled',
           \A d \in PDeps, w \in Visitors \ {v} : (Touches(v, d)' /\ ~Touches(v, d) /\ Touches(w, d)) => d \in troubled',
           \A e \in PDeps : (Touches(v, e) /\ ~Touches(v, e)') => e \in troubled',
           visits'[v] # NoVisit => \A r, s \in visits'[v].todo : r.dep = s.dep => r = s,
           visits'[v] \in DropVisit => visits'[v].dep \in troubled' /\ \A r \in visits'[v].todo : r.dep # visits'[v].dep,
           visits'[v] \notin PushVisit,
           visits'[v] # NoVisit => \A r \in visits'[v].todo : <<r.dep, r.host>> \in named,
           ReadTrue(v)'
    PROVE  PreviewsInv'
<1>0. PreviewTypes /\ OneLiveRow /\ HostsNamed
  BY DEF PreviewsInv
<1>1. prows' = prows /\ \A i \in PIds : LiveRow(i)' <=> LiveRow(i)
  BY DEF LiveRow
<1>2. PreviewTypes' /\ OneLiveRow'
  <2>1. \A t \in DOMAIN pcaddy' : pcaddy'[t] \in PreviewRoute
    BY <1>0 DEF PreviewTypes
  <2> QED
    BY <1>0, <1>1, <2>1 DEF PreviewTypes, OneLiveRow
<1>3. PushTrue(v)' /\ RouteGone(v)'
  BY DEF PushTrue, RouteGone, PushVisit, DropVisit, PreviewTarget, PreviewHosts
<1>4. \A i \in PIds : prows'[i] # NoRow => <<prows'[i].dep, prows'[i].host>> \in named'
  BY <1>0 DEF HostsNamed
<1>5. {} \in SUBSET PDeps /\ pcaddy' = pcaddy /\ named' = named
  OBVIOUS
<1> QED
  BY <1>1, <1>2, <1>3, <1>4, <1>5, PreviewMoves

\* A removal begins: the rows it has read are live, one a deployment.
LEMMA RemovalBegins ==
    ASSUME PreviewsInv, NEW v \in Visitors, visits[v] = NoVisit, NEW ids \in SUBSET PIds, \A i \in ids : LiveRow(i), RemovePreviews(v, ids)
    PROVE  PreviewsInv'
<1> DEFINE q == [at |-> "unroute", dep |-> NoRow, todo |-> Targets(ids)]
<1>0. PreviewTypes /\ OneLiveRow /\ HostsNamed
  BY DEF PreviewsInv
<1>1. \A i \in ids : prows[i] \in PreviewRow /\ prows[i].dep \in PDeps /\ prows[i].host \in PreviewHosts
  BY <1>0 DEF PreviewTypes, LiveRow, PreviewRow
<1>2. \A r \in Targets(ids) : \E i \in ids : r = [id |-> i, dep |-> prows[i].dep, host |-> prows[i].host]
  BY DEF Targets
<1>3. \A r \in Targets(ids) : r \in PreviewTarget /\ r.id \in ids /\ r.dep = prows[r.id].dep /\ r.host = prows[r.id].host
  BY <1>1, <1>2 DEF PreviewTarget
<1>4. q \in UnrouteVisit /\ q.dep = NoRow /\ q.todo = Targets(ids) /\ q # NoVisit /\ q \notin DropVisit /\ q \notin PushVisit
  <2>1. q \in UnrouteVisit /\ q.dep = NoRow /\ q.todo = Targets(ids) /\ q.at = "unroute"
    BY <1>3 DEF UnrouteVisit
  <2>2. \A x \in DropVisit : x.at = "drop"
    BY DEF DropVisit
  <2>3. \A x \in PushVisit : x.at = "push"
    BY DEF PushVisit
  <2>4. NoVisit.at = "idle"
    BY DEF NoVisit
  <2> HIDE DEF q
  <2> QED
    BY <2>1, <2>2, <2>3, <2>4
<1>5. /\ visits' = [visits EXCEPT ![v] = q] /\ UNCHANGED <<prows, pcaddy, named>>
      /\ troubled' = troubled \union UNION {Overlapping(prows[i].dep) : i \in ids}
  BY DEF RemovePreviews
<1> HIDE DEF q
<1>6. visits' \in [Visitors -> Visit] /\ visits'[v] = q /\ \A w \in Visitors \ {v} : visits'[w] = visits[w]
  BY <1>0, <1>4, <1>5 DEF PreviewTypes, Visit
<1>7. ASSUME NEW d \in PDeps PROVE ~Touches(v, d) /\ (Touches(v, d)' => \E i \in ids : prows[i].dep = d)
  <2>1. Touches(v, d)' => \E r \in Targets(ids) : r.dep = d
    BY <1>4, <1>6, PreviewsAssumption DEF Touches
  <2> QED
    BY <1>3, <2>1 DEF Touches
<1>8. \A i \in ids, w \in Visitors : Touches(w, prows[i].dep) => prows[i].dep \in troubled'
  BY <1>5 DEF Overlapping
<1>9. troubled \subseteq troubled'
  BY <1>5
<1>10. \A r, s \in Targets(ids) : r.dep = s.dep => r = s
  <2> SUFFICES ASSUME NEW r \in Targets(ids), NEW s \in Targets(ids), r.dep = s.dep PROVE r = s
    OBVIOUS
  <2>1. r.id = s.id
    BY <1>0, <1>3 DEF OneLiveRow
  <2> QED
    BY <1>3, <2>1 DEF PreviewTarget
<1>11. \A r \in Targets(ids) : <<r.dep, r.host>> \in named
  BY <1>0, <1>3 DEF HostsNamed, LiveRow
<1>12. ReadTrue(v)'
  <2>1. \A r \in Targets(ids) : prows'[r.id] # NoRow /\ prows'[r.id].dep = r.dep /\ LiveRow(r.id)' /\ prows'[r.id].host = r.host
    BY <1>3, <1>5 DEF LiveRow
  <2> QED
    BY <1>4, <1>6, <2>1 DEF ReadTrue, DropVisit, PreviewTarget, PreviewHosts
<1>13. \A d \in PDeps, w \in Visitors \ {v} : (Touches(v, d)' /\ ~Touches(v, d) /\ Touches(w, d)) => d \in troubled'
  BY <1>7, <1>8
<1> QED
  BY <1>4, <1>5, <1>6, <1>7, <1>9, <1>10, <1>11, <1>12, <1>13, PreviewWaits

\* A request that ends with trouble, at its end or in the middle.
LEMMA PreviewEnds ==
    ASSUME PreviewsInv, NEW v \in Visitors, UNCHANGED <<prows, pcaddy, named>>, visits' = [visits EXCEPT ![v] = NoVisit],
           troubled \subseteq troubled', \A d \in PDeps : Touches(v, d) => d \in troubled'
    PROVE  PreviewsInv'
<1>1. visits' \in [Visitors -> Visit] /\ visits'[v] = NoVisit /\ \A w \in Visitors \ {v} : visits'[w] = visits[w]
  BY DEF PreviewsInv, PreviewTypes, Visit
<1>2. NoVisit \notin PushVisit /\ NoVisit \notin DropVisit
  BY VisitShape DEF PreviewsInv
<1>3. \A d \in PDeps : ~Touches(v, d)'
  BY <1>1 DEF Touches, NoVisit
<1>4. ReadTrue(v)'
  BY <1>1, <1>2 DEF ReadTrue, NoVisit, DropVisit, PreviewTarget, PreviewHosts
<1> QED
  BY <1>1, <1>2, <1>3, <1>4, PreviewWaits

\* What a request that leaves the rows alone keeps for the others, whatever it does to the routes.
LEMMA OthersKept ==
    ASSUME PreviewsInv, NEW v \in Visitors, UNCHANGED <<prows, named, troubled>>, NEW w \in Visitors \ {v}, visits'[w] = visits[w]
    PROVE  /\ ReadTrue(w)' /\ PushTrue(w)' /\ \A d \in PDeps : Touches(w, d)' <=> Touches(w, d)
           /\ (\A t \in DOMAIN pcaddy' : (t \in DOMAIN pcaddy /\ pcaddy'[t] = pcaddy[t]) \/ ~Touches(w, pcaddy'[t].by) \/ pcaddy'[t].by \in troubled)
                => RouteGone(w)'
<1>1. ReadTrue(w) /\ PushTrue(w) /\ RouteGone(w)
  BY DEF PreviewsInv, VisitsTrue
<1>2. ReadTrue(w)' /\ PushTrue(w)'
  BY <1>1 DEF ReadTrue, PushTrue, LiveRow, NoVisit, DropVisit, PushVisit, PreviewTarget, PreviewHosts
<1>3. \A d \in PDeps : Touches(w, d)' <=> Touches(w, d)
  BY DEF Touches, NoVisit
<1>4. visits[w] \in DropVisit => visits[w] # NoVisit
  BY VisitShape DEF PreviewsInv
<1>5. ASSUME \A t \in DOMAIN pcaddy' : (t \in DOMAIN pcaddy /\ pcaddy'[t] = pcaddy[t]) \/ ~Touches(w, pcaddy'[t].by) \/ pcaddy'[t].by \in troubled
      PROVE  RouteGone(w)'
  <2> SUFFICES ASSUME visits[w] \in DropVisit, visits[w].dep \notin troubled, NEW t \in DOMAIN pcaddy' PROVE pcaddy'[t].by # visits[w].dep
    BY DEF RouteGone, DropVisit, PreviewTarget, PreviewHosts
  <2>1. Touches(w, visits[w].dep)
    BY <1>4 DEF Touches
  <2>2. CASE t \in DOMAIN pcaddy /\ pcaddy'[t] = pcaddy[t]
    BY <1>1, <2>2 DEF RouteGone
  <2>3. CASE ~Touches(w, pcaddy'[t].by) \/ pcaddy'[t].by \in troubled
    BY <2>1, <2>3
  <2> QED
    BY <1>5, <2>2, <2>3
<1> QED
  BY <1>2, <1>3, <1>5

\* The route is pushed.
LEMMA PreviewPushed ==
    ASSUME PreviewsInv, NEW v \in Visitors, NEW q \in PushVisit, q = visits[v], UNCHANGED <<prows, named, troubled>>,
           visits' = [visits EXCEPT ![v] = NoVisit],
           pcaddy' = [t \in DOMAIN pcaddy \union {SanitizeTag(q.host)} |->
                            IF t = SanitizeTag(q.host) THEN [host |-> q.host, up |-> q.up, by |-> q.dep] ELSE pcaddy[t]]
    PROVE  PreviewsInv'
<1> DEFINE n == [host |-> q.host, up |-> q.up, by |-> q.dep]
           T == SanitizeTag(q.host)
<1>0. PreviewTypes /\ OneLiveRow /\ HostsNamed /\ OverlapsKnown /\ VisitsTrue /\ RoutesTrue /\ RowsRouted
  BY DEF PreviewsInv
<1>1. q.dep \in PDeps /\ q.host \in PreviewHosts /\ q.up \in Addresses /\ q.todo = {}
  BY DEF PushVisit
<1>2. n \in PreviewRoute /\ n.host = q.host /\ n.up = q.up /\ n.by = q.dep
  BY <1>1 DEF PreviewRoute
<1>3. /\ T \in DOMAIN pcaddy' /\ pcaddy'[T] = n
      /\ \A t \in DOMAIN pcaddy' : t # T => t \in DOMAIN pcaddy /\ pcaddy'[t] = pcaddy[t]
      /\ \A t \in DOMAIN pcaddy : t # T => t \in DOMAIN pcaddy' /\ pcaddy'[t] = pcaddy[t]
  OBVIOUS
<1>4. n = [host |-> q.host, up |-> q.up, by |-> q.dep] /\ T = SanitizeTag(q.host)
  OBVIOUS
<1> HIDE DEF n, T
<1>5. visits' \in [Visitors -> Visit] /\ visits'[v] = NoVisit /\ \A w \in Visitors \ {v} : visits'[w] = visits[w]
  BY <1>0 DEF PreviewTypes, Visit
<1>6. NoVisit \notin PushVisit /\ NoVisit \notin DropVisit
  BY <1>0, VisitShape
<1>7. \A d \in PDeps : ~Touches(v, d)' /\ (Touches(v, d) <=> d = q.dep)
  BY <1>1, <1>5, <1>6 DEF Touches, NoVisit
<1>8. PreviewTypes' /\ OneLiveRow'
  <2>1. \A t \in DOMAIN pcaddy' : pcaddy'[t] \in PreviewRoute
    BY <1>0, <1>2, <1>3 DEF PreviewTypes
  <2> QED
    BY <1>0, <1>5, <2>1 DEF PreviewTypes, OneLiveRow, LiveRow
<1>9. HostsNamed' /\ OverlapsKnown'
  <2>1. \A i \in PIds : prows'[i] # NoRow => <<prows'[i].dep, prows'[i].host>> \in named'
    BY <1>0 DEF HostsNamed
  <2> QED
    BY <1>5, <1>6, <1>7, <2>1, VisitMoves
<1>10. VisitsTrue'
  <2>1. ReadTrue(v)' /\ PushTrue(v)' /\ RouteGone(v)'
    BY <1>5, <1>6 DEF ReadTrue, PushTrue, RouteGone, NoVisit, DropVisit, PushVisit, PreviewTarget, PreviewHosts
  <2>2. ASSUME NEW w \in Visitors \ {v} PROVE ReadTrue(w)' /\ PushTrue(w)' /\ RouteGone(w)'
    <3>1. Touches(w, q.dep) => q.dep \in troubled
      BY <1>0, <1>1, <1>7 DEF OverlapsKnown
    <3>2. \A t \in DOMAIN pcaddy' : (t \in DOMAIN pcaddy /\ pcaddy'[t] = pcaddy[t]) \/ ~Touches(w, pcaddy'[t].by) \/ pcaddy'[t].by \in troubled
      BY <1>2, <1>3, <3>1
    <3> QED
      BY <1>5, <3>2, OthersKept
  <2> QED
    BY <2>1, <2>2 DEF VisitsTrue
<1>11. q.dep \notin troubled => \E i \in PIds : LiveRow(i) /\ prows[i].dep = q.dep /\ prows[i].host = q.host /\ prows[i].up = q.up
  BY <1>0 DEF VisitsTrue, PushTrue
<1>12. RoutesTrue'
  <2> SUFFICES ASSUME NEW t \in DOMAIN pcaddy'
               PROVE /\ t = SanitizeTag(pcaddy'[t].host)
                     /\ pcaddy'[t].by \notin troubled => \E i \in PIds : LiveRow(i) /\ prows[i].dep = pcaddy'[t].by /\ prows[i].host = pcaddy'[t].host
    BY DEF RoutesTrue, LiveRow
  <2>1. CASE t = T
    BY <1>2, <1>3, <1>4, <1>11, <2>1
  <2>2. CASE t # T
    <3>1. t \in DOMAIN pcaddy /\ pcaddy'[t] = pcaddy[t]
      BY <1>3, <2>2
    <3>2. /\ t = SanitizeTag(pcaddy[t].host)
          /\ pcaddy[t].by \notin troubled => \E i \in PIds : LiveRow(i) /\ prows[i].dep = pcaddy[t].by /\ prows[i].host = pcaddy[t].host
      BY <1>0, <3>1, Zenon DEF RoutesTrue
    <3> QED
      BY <3>1, <3>2
  <2> QED
    BY <2>1, <2>2
<1>13. RowsRouted'
  <2> SUFFICES ASSUME NEW i \in PIds, LiveRow(i), prows[i].dep \notin troubled, ~PreviewBusy(prows[i].dep)'
               PROVE RoutedRow(i)'
    BY DEF RowsRouted, LiveRow
  <2>0. prows[i] \in PreviewRow /\ prows[i].dep \in PDeps /\ prows[i].host \in PreviewHosts
    BY <1>0 DEF PreviewTypes, PreviewRow, LiveRow
  <2>1. CASE prows[i].dep = q.dep
    <3>1. PICK j \in PIds : LiveRow(j) /\ prows[j].dep = q.dep /\ prows[j].host = q.host /\ prows[j].up = q.up
      BY <1>11, <2>1
    <3>2. j = i
      BY <1>0, <2>1, <3>1 DEF OneLiveRow
    <3> QED
      BY <1>3, <1>4, <2>1, <3>1, <3>2 DEF RoutedRow
  <2>2. CASE prows[i].dep # q.dep
    <3>1. \A w \in Visitors : ~Touches(w, prows[i].dep)
      <4>1. \A w \in Visitors : ~Touches(w, prows[i].dep)'
        BY DEF PreviewBusy
      <4>2. \A w \in Visitors \ {v} : Touches(w, prows[i].dep)' <=> Touches(w, prows[i].dep)
        BY <1>5 DEF Touches, NoVisit
      <4> QED
        BY <1>7, <2>0, <2>2, <4>1, <4>2
    <3>2. RoutedRow(i)
      BY <1>0, <3>1 DEF RowsRouted, PreviewBusy
    <3>3. CASE SanitizeTag(prows[i].host) # T
      BY <1>3, <3>2, <3>3 DEF RoutedRow
    <3>4. CASE SanitizeTag(prows[i].host) = T
      <4>1. SameName(q.host, prows[i].host)
        BY <1>1, <1>4, <2>0, <3>4, TagsName
      <4>2. <<q.dep, q.host>> \in named
        BY <1>0 DEF HostsNamed
      <4>3. \E m \in named : m[1] # prows[i].dep /\ SameName(m[2], prows[i].host)
        BY <2>2, <4>1, <4>2
      <4> QED
        BY <4>3 DEF RoutedRow
    <3> QED
      BY <3>3, <3>4
  <2> QED
    BY <2>1, <2>2
<1> QED
  BY <1>8, <1>9, <1>10, <1>12, <1>13 DEF PreviewsInv

\* The route is deleted, by the tag of the hostname that was read.
LEMMA PreviewUnrouted ==
    ASSUME PreviewsInv, NEW v \in Visitors, visits[v] \in UnrouteVisit, NEW r \in visits[v].todo, UNCHANGED <<prows, named>>,
           troubled \subseteq troubled',
           visits' = [visits EXCEPT ![v] = [at |-> "drop", dep |-> r.dep, id |-> r.id, todo |-> visits[v].todo \ {r}]],
           \/ pcaddy' = [t \in DOMAIN pcaddy \ {SanitizeTag(r.host)} |-> pcaddy[t]] /\ troubled' = troubled
           \/ pcaddy' = pcaddy /\ r.dep \in troubled'
    PROVE  PreviewsInv'
<1> DEFINE q == [at |-> "drop", dep |-> r.dep, id |-> r.id, todo |-> visits[v].todo \ {r}]
<1>0. PreviewTypes /\ OneLiveRow /\ HostsNamed /\ OverlapsKnown /\ VisitsTrue /\ RoutesTrue /\ RowsRouted
  BY DEF PreviewsInv
<1>1. /\ visits[v].todo \subseteq PreviewTarget /\ visits[v] # NoVisit /\ visits[v].dep = NoRow
      /\ NoVisit \notin PushVisit \union UnrouteVisit \union DropVisit
  BY <1>0, VisitShape DEF UnrouteVisit
<1>2. r.id \in PIds /\ r.dep \in PDeps /\ r.host \in PreviewHosts
  BY <1>1 DEF PreviewTarget
<1>3. q \in DropVisit /\ q \notin PushVisit /\ q.dep = r.dep /\ q.id = r.id /\ q.todo = visits[v].todo \ {r}
  <2>1. q \in DropVisit /\ q.dep = r.dep /\ q.id = r.id /\ q.todo = visits[v].todo \ {r} /\ q.at = "drop"
    BY <1>1, <1>2 DEF DropVisit
  <2>2. \A x \in PushVisit : x.at = "push"
    BY DEF PushVisit
  <2> HIDE DEF q
  <2> QED
    BY <2>1, <2>2
<1>4. visits' = [visits EXCEPT ![v] = q]
  OBVIOUS
<1> HIDE DEF q
<1>5. visits' \in [Visitors -> Visit] /\ visits'[v] = q /\ \A w \in Visitors \ {v} : visits'[w] = visits[w]
  BY <1>0, <1>3, <1>4 DEF PreviewTypes, Visit
<1>6. \A d \in PDeps : Touches(v, d)' <=> Touches(v, d)
  BY <1>1, <1>3, <1>5, PreviewsAssumption DEF Touches
<1>7. /\ \A x, y \in q.todo : x.dep = y.dep => x = y
      /\ \A x \in q.todo : x.dep # q.dep
      /\ \A x \in q.todo : <<x.dep, x.host>> \in named
  BY <1>0, <1>1, <1>3 DEF OverlapsKnown, HostsNamed
<1>8. /\ \A x \in visits[v].todo : /\ prows[x.id] # NoRow /\ prows[x.id].dep = x.dep
                                   /\ x.dep \notin troubled => LiveRow(x.id) /\ prows[x.id].host = x.host
  BY <1>0, <1>1 DEF VisitsTrue, ReadTrue
<1>9. ReadTrue(v)'
  <2>1. \A i \in PIds : LiveRow(i)' <=> LiveRow(i)
    BY DEF LiveRow
  <2>2. \A x \in visits[v].todo : x.id \in PIds
    BY <1>1 DEF PreviewTarget
  <2>3. \A x \in q.todo : /\ prows'[x.id] # NoRow /\ prows'[x.id].dep = x.dep
                          /\ x.dep \notin troubled' => LiveRow(x.id)' /\ prows'[x.id].host = x.host
    BY <1>3, <1>8, <2>1, <2>2
  <2>4. prows'[r.id] # NoRow /\ prows'[r.id].dep = r.dep /\ (r.dep \notin troubled' => LiveRow(r.id)')
    BY <1>2, <1>8, <2>1
  <2>5. visits'[v].id = r.id /\ visits'[v].dep = r.dep /\ visits'[v].todo = q.todo
    BY <1>3, <1>5
  <2> QED
    BY <2>3, <2>4, <2>5 DEF ReadTrue, LiveRow
<1>10. CASE pcaddy' = pcaddy /\ r.dep \in troubled'
  <2>1. UNCHANGED <<prows, pcaddy, named>> /\ visits'[v] \notin PushVisit /\ visits'[v].dep \in troubled'
    BY <1>3, <1>5, <1>10
  <2>2. /\ \A x, y \in visits'[v].todo : x.dep = y.dep => x = y
        /\ \A x \in visits'[v].todo : x.dep # visits'[v].dep
        /\ \A x \in visits'[v].todo : <<x.dep, x.host>> \in named
    BY <1>5, <1>7
  <2>3. /\ \A d \in PDeps, w \in Visitors \ {v} : (Touches(v, d)' /\ ~Touches(v, d) /\ Touches(w, d)) => d \in troubled'
        /\ \A e \in PDeps : (Touches(v, e) /\ ~Touches(v, e)') => e \in troubled'
    BY <1>6
  <2>4. visits' \in [Visitors -> Visit] /\ (\A w \in Visitors \ {v} : visits'[w] = visits[w]) /\ troubled \subseteq troubled'
    BY <1>5
  <2> QED
    BY ONLY PreviewsInv, <1>9, <2>1, <2>2, <2>3, <2>4, PreviewWaits
<1>11. CASE pcaddy' = [t \in DOMAIN pcaddy \ {SanitizeTag(r.host)} |-> pcaddy[t]] /\ troubled' = troubled
  <2> DEFINE T == SanitizeTag(r.host)
  <2>1. /\ \A t \in DOMAIN pcaddy' : t # T /\ t \in DOMAIN pcaddy /\ pcaddy'[t] = pcaddy[t]
        /\ \A t \in DOMAIN pcaddy : t # T => t \in DOMAIN pcaddy' /\ pcaddy'[t] = pcaddy[t]
    BY <1>11
  <2>2. T = SanitizeTag(r.host) /\ troubled' = troubled
    BY <1>11
  <2> HIDE DEF T
  <2>3. PreviewTypes' /\ OneLiveRow'
    <3>1. \A t \in DOMAIN pcaddy' : pcaddy'[t] \in PreviewRoute
      BY <1>0, <2>1 DEF PreviewTypes
    <3>2. prows' = prows
      OBVIOUS
    <3> QED
      BY <1>0, <1>5, <3>1, <3>2 DEF PreviewTypes, OneLiveRow, LiveRow
  <2>4. HostsNamed' /\ OverlapsKnown'
    <3>1. \A i \in PIds : prows'[i] # NoRow => <<prows'[i].dep, prows'[i].host>> \in named'
      BY <1>0 DEF HostsNamed
    <3>2. named \subseteq named' /\ \A x \in q.todo : <<x.dep, x.host>> \in named'
      BY <1>7
    <3> QED
      BY <1>3, <1>5, <1>6, <1>7, <3>1, <3>2, VisitMoves, ZenonT(60)
  <2>5. VisitsTrue'
    <3>1. PushTrue(v)'
      BY <1>3, <1>5 DEF PushTrue, PushVisit, PreviewHosts
    <3>2. RouteGone(v)'
      <4> SUFFICES ASSUME r.dep \notin troubled, NEW t \in DOMAIN pcaddy', pcaddy'[t].by = r.dep PROVE FALSE
        BY <1>3, <1>5, <2>2 DEF RouteGone
      <4>1. t # T /\ t \in DOMAIN pcaddy /\ pcaddy[t].by = r.dep
        BY <2>1
      <4>2. t = SanitizeTag(pcaddy[t].host) /\ \E i \in PIds : LiveRow(i) /\ prows[i].dep = pcaddy[t].by /\ prows[i].host = pcaddy[t].host
        BY <1>0, <4>1 DEF RoutesTrue
      <4>3. PICK i \in PIds : LiveRow(i) /\ prows[i].dep = r.dep /\ prows[i].host = pcaddy[t].host
        BY <4>1, <4>2
      <4>4. LiveRow(r.id) /\ prows[r.id].host = r.host /\ prows[r.id].dep = r.dep
        BY <1>8
      <4>5. i = r.id
        BY <1>0, <1>2, <4>3, <4>4 DEF OneLiveRow
      <4> QED
        BY <2>2, <4>1, <4>2, <4>3, <4>4, <4>5
    <3>3. ASSUME NEW w \in Visitors \ {v} PROVE ReadTrue(w)' /\ PushTrue(w)' /\ RouteGone(w)'
      BY <1>5, <2>1, <2>2, OthersKept
    <3> QED
      BY <1>9, <3>1, <3>2, <3>3 DEF VisitsTrue
  <2>6. RoutesTrue'
    <3> SUFFICES ASSUME NEW t \in DOMAIN pcaddy'
                 PROVE /\ t = SanitizeTag(pcaddy'[t].host)
                       /\ pcaddy'[t].by \notin troubled => \E i \in PIds : LiveRow(i) /\ prows[i].dep = pcaddy'[t].by /\ prows[i].host = pcaddy'[t].host
      BY <2>2 DEF RoutesTrue, LiveRow
    <3>1. t \in DOMAIN pcaddy /\ pcaddy'[t] = pcaddy[t]
      BY <2>1
    <3>2. /\ t = SanitizeTag(pcaddy[t].host)
          /\ pcaddy[t].by \notin troubled => \E i \in PIds : LiveRow(i) /\ prows[i].dep = pcaddy[t].by /\ prows[i].host = pcaddy[t].host
      BY <1>0, <3>1, Zenon DEF RoutesTrue
    <3> QED
      BY <3>1, <3>2
  <2>7. RowsRouted'
    <3> SUFFICES ASSUME NEW i \in PIds, LiveRow(i), prows[i].dep \notin troubled, ~PreviewBusy(prows[i].dep)'
                 PROVE RoutedRow(i)'
      BY <2>2 DEF RowsRouted, LiveRow
    <3>0. prows[i] \in PreviewRow /\ prows[i].dep \in PDeps /\ prows[i].host \in PreviewHosts
      BY <1>0 DEF PreviewTypes, PreviewRow, LiveRow
    <3>1. \A w \in Visitors : ~Touches(w, prows[i].dep)
      <4>1. \A w \in Visitors : ~Touches(w, prows[i].dep)'
        BY DEF PreviewBusy
      <4>2. \A w \in Visitors \ {v} : Touches(w, prows[i].dep)' <=> Touches(w, prows[i].dep)
        BY <1>5 DEF Touches, NoVisit
      <4>3. Touches(v, prows[i].dep)' <=> Touches(v, prows[i].dep)
        <5>1. prows' = prows
          OBVIOUS
        <5> QED
          BY <1>1, <1>3, <1>5, <3>0, <5>1, PreviewsAssumption DEF Touches
      <4> QED
        BY <4>1, <4>2, <4>3
    <3>2. RoutedRow(i)
      BY <1>0, <3>1 DEF RowsRouted, PreviewBusy
    <3>3. CASE SanitizeTag(prows[i].host) # T
      BY <2>1, <3>2, <3>3 DEF RoutedRow
    <3>4. CASE SanitizeTag(prows[i].host) = T
      <4>1. SameName(r.host, prows[i].host)
        BY <1>2, <2>2, <3>0, <3>4, TagsName
      <4>2. <<r.dep, r.host>> \in named /\ r.dep # prows[i].dep
        BY <1>0, <1>1, <3>1 DEF HostsNamed, Touches
      <4>3. \E m \in named : m[1] # prows[i].dep /\ SameName(m[2], prows[i].host)
        BY <4>1, <4>2
      <4> QED
        BY <4>3 DEF RoutedRow
    <3> QED
      BY <3>3, <3>4
  <2> QED
    BY <2>3, <2>4, <2>5, <2>6, <2>7 DEF PreviewsInv
<1> QED
  BY <1>10, <1>11

\* The row is deleted, or that fails, and the removal goes on.
LEMMA PreviewDropped ==
    ASSUME PreviewsInv, NEW v \in Visitors, DropPreview(v)
    PROVE  PreviewsInv'
<1> DEFINE row == visits[v]
           q == IF row.todo = {} THEN NoVisit ELSE [at |-> "unroute", dep |-> NoRow, todo |-> row.todo]
<1>0. PreviewTypes /\ OneLiveRow /\ HostsNamed /\ OverlapsKnown /\ VisitsTrue /\ RoutesTrue /\ RowsRouted
  BY DEF PreviewsInv
<1>1. /\ row \in DropVisit /\ row # NoVisit /\ row.todo \subseteq PreviewTarget
      /\ NoVisit \notin PushVisit \union UnrouteVisit \union DropVisit
  BY <1>0, VisitShape DEF DropPreview
<1>2. row.dep \in PDeps /\ row.id \in PIds
  BY <1>1 DEF DropVisit
<1>3. visits' = [visits EXCEPT ![v] = q] /\ UNCHANGED <<pcaddy, named>> /\ troubled \subseteq troubled'
  BY DEF DropPreview
<1>4. q \in {NoVisit} \union UnrouteVisit /\ q \notin DropVisit /\ q \notin PushVisit /\ (q = NoVisit <=> row.todo = {})
  <2> DEFINE n == [at |-> "unroute", dep |-> NoRow, todo |-> row.todo]
  <2>1. n \in UnrouteVisit /\ n.at = "unroute"
    BY <1>1 DEF UnrouteVisit
  <2>2. \A x \in DropVisit : x.at = "drop"
    BY DEF DropVisit
  <2>3. \A x \in PushVisit : x.at = "push"
    BY DEF PushVisit
  <2>4. q = IF row.todo = {} THEN NoVisit ELSE n
    OBVIOUS
  <2> HIDE DEF n, q
  <2> QED
    BY <1>1, <2>1, <2>2, <2>3, <2>4
<1>5. q # NoVisit => q.todo = row.todo /\ q.dep = NoRow
  BY <1>4
<1> HIDE DEF q
<1>6. visits' \in [Visitors -> Visit] /\ visits'[v] = q /\ \A w \in Visitors \ {v} : visits'[w] = visits[w]
  BY <1>0, <1>3, <1>4 DEF PreviewTypes, Visit
<1>7. \A d \in PDeps : Touches(v, d) <=> d = row.dep \/ Touches(v, d)'
  <2> SUFFICES ASSUME NEW d \in PDeps PROVE Touches(v, d) <=> d = row.dep \/ Touches(v, d)'
    OBVIOUS
  <2>1. Touches(v, d) <=> d = row.dep \/ \E r \in row.todo : r.dep = d
    BY <1>1 DEF Touches
  <2>2. Touches(v, d)' <=> \E r \in row.todo : r.dep = d
    <3>1. Touches(v, d)' <=> visits'[v] # NoVisit /\ (visits'[v].dep = d \/ \E r \in visits'[v].todo : r.dep = d)
      BY DEF Touches, NoVisit
    <3> QED
      BY <1>4, <1>5, <1>6, <3>1, PreviewsAssumption
  <2> QED
    BY <2>1, <2>2
<1>8. /\ visits'[v] # NoVisit => \A r, s \in visits'[v].todo : r.dep = s.dep => r = s
      /\ visits'[v] \notin DropVisit /\ visits'[v] \notin PushVisit
      /\ visits'[v] # NoVisit => \A r \in visits'[v].todo : <<r.dep, r.host>> \in named
      /\ visits'[v] # NoVisit => visits'[v].todo = row.todo
  BY <1>0, <1>1, <1>4, <1>5, <1>6 DEF OverlapsKnown, HostsNamed
<1>9. /\ \A r \in row.todo : r.id \in PIds /\ r.dep # row.dep
      /\ \A r \in row.todo : /\ prows[r.id] # NoRow /\ prows[r.id].dep = r.dep
                             /\ r.dep \notin troubled => LiveRow(r.id) /\ prows[r.id].host = r.host
      /\ prows[row.id] # NoRow /\ prows[row.id].dep = row.dep /\ (row.dep \notin troubled => LiveRow(row.id))
  BY <1>0, <1>1 DEF VisitsTrue, ReadTrue, OverlapsKnown, PreviewTarget
<1>10. /\ prows' \in [PIds -> PreviewRow \union {NoRow}]
       /\ \A j \in PIds \ {row.id} : prows'[j] = prows[j]
       /\ prows'[row.id] # NoRow /\ prows'[row.id].dep = row.dep /\ prows'[row.id].host = prows[row.id].host
       /\ row.dep \notin troubled' => prows'[row.id].deleted
       /\ prows' = prows \/ prows'[row.id].deleted
  <2>1. CASE prows' = SoftDelete(prows, row.id)
    BY <1>0, <1>2, <1>9, <2>1, PreviewDeleted
  <2>2. CASE prows' = prows /\ row.dep \in troubled'
    BY <1>0, <1>2, <1>9, <2>2 DEF PreviewTypes
  <2>3. prows' = SoftDelete(prows, row.id) \/ (prows' = prows /\ row.dep \in troubled')
    BY DEF DropPreview
  <2> QED
    BY <2>1, <2>2, <2>3
<1>11. row = visits[v]
  OBVIOUS
<1> HIDE DEF row
<1>12. \A j \in PIds : /\ j # row.id => (LiveRow(j)' <=> LiveRow(j))
                       /\ LiveRow(j)' => LiveRow(j)
  BY <1>10 DEF LiveRow
<1>13. row.dep \notin troubled' => \A j \in PIds : LiveRow(j)' => prows'[j].dep # row.dep
  <2> SUFFICES ASSUME row.dep \notin troubled', NEW j \in PIds, LiveRow(j)', prows'[j].dep = row.dep PROVE FALSE
    OBVIOUS
  <2>1. j # row.id
    BY <1>10 DEF LiveRow
  <2>2. LiveRow(j) /\ prows[j].dep = row.dep /\ LiveRow(row.id)
    BY <1>3, <1>9, <1>10, <1>12, <2>1
  <2> QED
    BY <1>0, <1>2, <1>9, <2>1, <2>2 DEF OneLiveRow
<1>14. PreviewTypes' /\ OneLiveRow'
  <2>1. \A t \in DOMAIN pcaddy' : pcaddy'[t] \in PreviewRoute
    BY <1>0, <1>3 DEF PreviewTypes
  <2>2. \A j \in PIds : LiveRow(j)' => LiveRow(j) /\ prows'[j].dep = prows[j].dep
    BY <1>9, <1>10, <1>12
  <2>3. OneLiveRow'
    BY <1>0, <2>2 DEF OneLiveRow
  <2> QED
    BY <1>6, <1>10, <2>1, <2>3 DEF PreviewTypes
<1>15. \A j \in PIds : prows'[j] # NoRow => <<prows'[j].dep, prows'[j].host>> \in named'
  BY <1>0, <1>3, <1>9, <1>10 DEF HostsNamed
<1>16. ReadTrue(v)' /\ PushTrue(v)' /\ RouteGone(v)'
  <2>1. \A r \in row.todo : /\ prows'[r.id] # NoRow /\ prows'[r.id].dep = r.dep
                            /\ r.dep \notin troubled' => LiveRow(r.id)' /\ prows'[r.id].host = r.host
    <3> SUFFICES ASSUME NEW r \in row.todo
                 PROVE /\ prows'[r.id] # NoRow /\ prows'[r.id].dep = r.dep
                       /\ r.dep \notin troubled' => LiveRow(r.id)' /\ prows'[r.id].host = r.host
      OBVIOUS
    <3>1. r.id \in PIds /\ r.id # row.id
      BY <1>9
    <3> QED
      BY <1>3, <1>9, <1>10, <1>12, <3>1
  <2>2. ReadTrue(v)'
    BY <1>8, <2>1 DEF ReadTrue, LiveRow, NoVisit, DropVisit, PreviewTarget, PreviewHosts
  <2>3. PushTrue(v)' /\ RouteGone(v)'
    BY <1>8 DEF PushTrue, RouteGone, DropVisit, PushVisit, PreviewTarget, PreviewHosts
  <2> QED
    BY <2>2, <2>3
<1>17. \A w \in Visitors \ {v} : Touches(w, row.dep) => row.dep \in troubled'
  BY <1>0, <1>2, <1>3, <1>7 DEF OverlapsKnown
<1>18. row.dep \notin troubled' => \A t \in DOMAIN pcaddy : pcaddy[t].by # row.dep
  BY <1>0, <1>1, <1>3, <1>11 DEF VisitsTrue, RouteGone
<1>19. /\ \A d \in PDeps, w \in Visitors \ {v} : (Touches(v, d)' /\ ~Touches(v, d) /\ Touches(w, d)) => d \in troubled'
       /\ \A d \in {row.dep}, w \in Visitors \ {v} : Touches(w, d) => d \in troubled'
       /\ \A e \in PDeps \ {row.dep} : (Touches(v, e) /\ ~Touches(v, e)') => e \in troubled'
  BY <1>7, <1>17
<1>20. /\ \A j \in PIds : prows[j] # NoRow => prows'[j] # NoRow /\ prows'[j].dep = prows[j].dep
       /\ \A j \in PIds : (prows[j] # NoRow /\ prows[j].dep \notin {row.dep}) =>
                prows'[j].host = prows[j].host /\ prows'[j].up = prows[j].up /\ (LiveRow(j)' <=> LiveRow(j))
       /\ \A j \in PIds : (prows[j] = NoRow /\ prows'[j] # NoRow) => prows'[j].dep \in {row.dep}
  BY <1>9, <1>10, <1>12
<1>21. /\ \A t \in DOMAIN pcaddy : pcaddy[t].by \in {row.dep} \ troubled' =>
            \E j \in PIds : LiveRow(j)' /\ prows'[j].dep = pcaddy[t].by /\ prows'[j].host = pcaddy[t].host
       /\ \A j \in PIds : (LiveRow(j)' /\ prows'[j].dep \in {row.dep} \ troubled') => PreviewBusy(prows[j].dep)'
  BY <1>13, <1>18
<1>22. {row.dep} \in SUBSET PDeps /\ UNCHANGED pcaddy /\ named \subseteq named' /\ troubled \subseteq troubled'
  BY <1>2, <1>3
<1>23. /\ visits'[v] \in DropVisit => \A r \in visits'[v].todo : r.dep # visits'[v].dep
       /\ visits'[v] \in PushVisit => <<visits'[v].dep, visits'[v].host>> \in named'
       /\ visits'[v] # NoVisit => \A r \in visits'[v].todo : <<r.dep, r.host>> \in named'
  BY <1>3, <1>8
<1> QED
  BY ONLY PreviewsInv, <1>6, <1>8, <1>14, <1>15, <1>16, <1>19, <1>20, <1>21, <1>22, <1>23, PreviewMoves

\* The TTL of a preview passes: no column that the invariant reads changes.
LEMMA PreviewExpired ==
    ASSUME PreviewsInv, NEW i \in PIds, PreviewExpires(i)
    PROVE  PreviewsInv'
<1> DEFINE row == prows[i]
           n == [row EXCEPT !.expired = TRUE]
<1>0. PreviewTypes /\ OneLiveRow /\ HostsNamed /\ OverlapsKnown /\ VisitsTrue /\ RoutesTrue /\ RowsRouted
  BY DEF PreviewsInv
<1>1. LiveRow(i) /\ prows' = [prows EXCEPT ![i] = n] /\ UNCHANGED <<pcaddy, visits, troubled, named>>
  BY <1>0, PreviewLives DEF PreviewExpires
<1>2. row \in PreviewRow
  BY <1>0, <1>1 DEF PreviewTypes, LiveRow
<1>3. n \in PreviewRow /\ n.dep = row.dep /\ n.host = row.host /\ n.up = row.up /\ n.deleted = row.deleted
  BY <1>2 DEF PreviewRow
<1> HIDE DEF n
<1>4. /\ prows' \in [PIds -> PreviewRow \union {NoRow}]
      /\ \A j \in PIds : /\ prows'[j] = NoRow <=> prows[j] = NoRow
                         /\ prows'[j].dep = prows[j].dep /\ prows'[j].host = prows[j].host /\ prows'[j].up = prows[j].up
  BY <1>0, <1>1, <1>3, PreviewsAreRows DEF PreviewTypes, LiveRow
<1>5. \A j \in PIds : LiveRow(j)' <=> LiveRow(j)
  <2>1. CASE \E j \in PIds : j = i
    <3>1. prows'[i].deleted = prows[i].deleted /\ \A j \in PIds \ {i} : prows'[j] = prows[j]
      BY <1>0, <1>1, <1>3 DEF PreviewTypes
    <3> QED
      BY <1>4, <3>1 DEF LiveRow
  <2> QED
    BY <2>1
<1>6. PreviewTypes'
  <2>1. \A t \in DOMAIN pcaddy' : pcaddy'[t] \in PreviewRoute
    BY <1>0, <1>1 DEF PreviewTypes
  <2> QED
    BY <1>0, <1>1, <1>4, <2>1 DEF PreviewTypes
<1>7. OneLiveRow'
  BY <1>0, <1>4, <1>5 DEF OneLiveRow
<1>8. HostsNamed'
  BY <1>0, <1>1, <1>4 DEF HostsNamed, NoVisit, PushVisit, PreviewHosts
<1>9. OverlapsKnown'
  BY <1>0, <1>1 DEF OverlapsKnown, Touches, NoVisit, DropVisit, PreviewTarget, PreviewHosts
<1>10. VisitsTrue'
  <2> SUFFICES ASSUME NEW w \in Visitors PROVE ReadTrue(w)' /\ PushTrue(w)' /\ RouteGone(w)'
    BY DEF VisitsTrue
  <2>0. ReadTrue(w) /\ PushTrue(w) /\ RouteGone(w) /\ visits' = visits /\ troubled' = troubled /\ pcaddy' = pcaddy
    BY <1>0, <1>1 DEF VisitsTrue
  <2>1. /\ visits[w] # NoVisit => \A r \in visits[w].todo : r.id \in PIds
        /\ visits[w] \in DropVisit => visits[w].id \in PIds
    BY <1>0, VisitShape DEF DropVisit, PreviewTarget
  <2>2. ReadTrue(w)'
    <3>1. ASSUME visits[w] # NoVisit, NEW r \in visits[w].todo
          PROVE /\ prows'[r.id] # NoRow /\ prows'[r.id].dep = r.dep
                /\ r.dep \notin troubled => LiveRow(r.id)' /\ prows'[r.id].host = r.host
      BY <1>4, <1>5, <2>0, <2>1, <3>1 DEF ReadTrue
    <3>2. ASSUME visits[w] \in DropVisit
          PROVE /\ prows'[visits[w].id] # NoRow /\ prows'[visits[w].id].dep = visits[w].dep
                /\ visits[w].dep \notin troubled => LiveRow(visits[w].id)'
      <4>1. prows[visits[w].id] # NoRow /\ prows[visits[w].id].dep = visits[w].dep /\ (visits[w].dep \notin troubled => LiveRow(visits[w].id))
        BY <2>0, <3>2 DEF ReadTrue
      <4>2. visits[w].id \in PIds
        BY <2>1, <3>2
      <4>3. PICK j \in PIds : j = visits[w].id
        BY <4>2
      <4>4. visits[w].dep \notin troubled => LiveRow(j)'
        BY <1>5, <4>1, <4>3
      <4> QED
        BY <1>4, <2>0, <4>1, <4>3, <4>4 DEF LiveRow
    <3> QED
      BY <2>0, <3>1, <3>2 DEF ReadTrue, LiveRow, NoVisit, DropVisit, PreviewTarget, PreviewHosts
  <2>3. PushTrue(w)'
    <3> SUFFICES ASSUME visits[w] \in PushVisit, visits[w].dep \notin troubled
                 PROVE \E j \in PIds : LiveRow(j)' /\ prows'[j].dep = visits[w].dep /\ prows'[j].host = visits[w].host /\ prows'[j].up = visits[w].up
      BY <2>0 DEF PushTrue, LiveRow, PushVisit, PreviewHosts
    <3> QED
      BY <1>4, <1>5, <2>0 DEF PushTrue
  <2>4. RouteGone(w)'
    BY <2>0 DEF RouteGone, DropVisit, PreviewTarget, PreviewHosts
  <2> QED
    BY <2>2, <2>3, <2>4
<1>11. RoutesTrue'
  <2> SUFFICES ASSUME NEW t \in DOMAIN pcaddy
               PROVE /\ t = SanitizeTag(pcaddy[t].host)
                     /\ pcaddy[t].by \notin troubled => \E j \in PIds : LiveRow(j)' /\ prows'[j].dep = pcaddy[t].by /\ prows'[j].host = pcaddy[t].host
    BY <1>1 DEF RoutesTrue, LiveRow
  <2> QED
    BY <1>0, <1>4, <1>5 DEF RoutesTrue
<1>12. RowsRouted'
  <2> SUFFICES ASSUME NEW j \in PIds, LiveRow(j)', prows'[j].dep \notin troubled, ~PreviewBusy(prows[j].dep)'
               PROVE RoutedRow(j)'
    BY <1>1 DEF RowsRouted
  <2>1. prows'[j].dep = prows[j].dep /\ prows'[j].host = prows[j].host /\ prows'[j].up = prows[j].up /\ LiveRow(j)
    BY <1>4, <1>5
  <2>2. ~PreviewBusy(prows[j].dep)
    BY <1>1, <2>1 DEF PreviewBusy, Touches, NoVisit
  <2>3. RoutedRow(j)
    BY <1>0, <2>1, <2>2 DEF RowsRouted
  <2> QED
    BY <1>1, <2>1, <2>3 DEF RoutedRow
<1> QED
  BY <1>6, <1>7, <1>8, <1>9, <1>10, <1>11, <1>12 DEF PreviewsInv

\* One step per action.
LEMMA PreviewsStep == PreviewsInv /\ [PreviewsNext]_prevars => PreviewsInv'
<1> SUFFICES ASSUME PreviewsInv, [PreviewsNext]_prevars PROVE PreviewsInv'
  OBVIOUS
<1>0. PreviewTypes
  BY DEF PreviewsInv
<1>1. CASE UNCHANGED prevars
  <2>1. prows' = prows /\ pcaddy' = pcaddy /\ visits' = visits /\ troubled' = troubled /\ named' = named
    BY <1>1 DEF prevars
  <2> QED
    BY <2>1 DEF PreviewsInv, PreviewTypes, OneLiveRow, HostsNamed, OverlapsKnown, VisitsTrue, RoutesTrue, RowsRouted, LiveRow,
                ReadTrue, PushTrue, RouteGone, RoutedRow, PreviewBusy, Touches
<1>2. ASSUME NEW v \in Visitors, CleanupExpired(v)
      PROVE PreviewsInv'
  <2>1. visits[v] = NoVisit /\ RemovePreviews(v, ListExpired)
    BY <1>2 DEF CleanupExpired
  <2>2. ListExpired \subseteq LiveIds(prows)
    BY DEF ListExpired, Find
  <2>3. ListExpired \in SUBSET PIds /\ \A i \in ListExpired : LiveRow(i)
    BY <1>0, <2>2, PreviewLives
  <2> QED
    BY <2>1, <2>3, RemovalBegins
<1>3. ASSUME NEW v \in Visitors, NEW d \in PDeps, DeletePreview(v, d)
      PROVE PreviewsInv'
  <2>1. visits[v] = NoVisit /\ RemovePreviews(v, LiveOf(d))
    BY <1>3 DEF DeletePreview, PCall
  <2>2. LiveOf(d) \in SUBSET PIds /\ \A i \in LiveOf(d) : LiveRow(i)
    BY <1>0, PreviewLives
  <2> QED
    BY <2>1, <2>2, RemovalBegins
<1>4. ASSUME NEW v \in Visitors, PushPreview(v)
      PROVE PreviewsInv'
  <2>1. visits[v] \in PushVisit /\ visits[v] # NoVisit
    BY <1>0, <1>4, VisitShape DEF PushPreview
  <2>2. CASE UNCHANGED pcaddy /\ troubled' = troubled \union {visits[v].dep}
    <3>1. UNCHANGED <<prows, pcaddy, named>> /\ visits' = [visits EXCEPT ![v] = NoVisit] /\ troubled \subseteq troubled'
      BY <1>4, <2>2 DEF PushPreview
    <3>2. \A d \in PDeps : Touches(v, d) => d \in troubled'
      BY <2>1, <2>2 DEF Touches, PushVisit
    <3> QED
      BY <3>1, <3>2, PreviewEnds
  <2>3. CASE /\ UNCHANGED troubled
             /\ pcaddy' = [t \in DOMAIN pcaddy \union {SanitizeTag(visits[v].host)} |->
                    IF t = SanitizeTag(visits[v].host) THEN [host |-> visits[v].host, up |-> visits[v].up, by |-> visits[v].dep] ELSE pcaddy[t]]
    <3>1. UNCHANGED <<prows, named, troubled>> /\ visits' = [visits EXCEPT ![v] = NoVisit]
      BY <1>4, <2>3 DEF PushPreview
    <3> QED
      BY <2>1, <2>3, <3>1, PreviewPushed
  <2> QED
    BY <1>4, <2>2, <2>3 DEF PushPreview
<1>5. ASSUME NEW v \in Visitors, UnroutePreview(v)
      PROVE PreviewsInv'
  <2>1. visits[v] \in UnrouteVisit
    BY <1>0, <1>5, VisitShape DEF UnroutePreview
  <2>2. PICK r \in visits[v].todo :
            /\ \/ pcaddy' = [t \in DOMAIN pcaddy \ {SanitizeTag(r.host)} |-> pcaddy[t]] /\ troubled' = troubled
               \/ troubled' = troubled \union {r.dep} /\ pcaddy' = pcaddy
            /\ visits' = [visits EXCEPT ![v] = [at |-> "drop", dep |-> r.dep, id |-> r.id, todo |-> visits[v].todo \ {r}]]
    BY <1>5 DEF UnroutePreview
  <2>3. UNCHANGED <<prows, named>> /\ troubled \subseteq troubled'
    BY <1>5, <2>2 DEF UnroutePreview
  <2>4. \/ pcaddy' = [t \in DOMAIN pcaddy \ {SanitizeTag(r.host)} |-> pcaddy[t]] /\ troubled' = troubled
        \/ pcaddy' = pcaddy /\ r.dep \in troubled'
    BY <2>2
  <2> QED
    BY <2>1, <2>2, <2>3, <2>4, PreviewUnrouted
<1>6. ASSUME NEW v \in Visitors, PreviewRestart(v)
      PROVE PreviewsInv'
  BY <1>6, PreviewEnds DEF PreviewRestart
<1>7. ASSUME NEW v \in Visitors, NEW d \in PDeps, NEW u \in Addresses,
             (\E b \in Branches : CreatePreview(v, d, GenerateHostname(b), u)) \/ (\E h \in CustomHosts : CreatePreview(v, d, h, u))
      PROVE PreviewsInv'
  <2>1. PICK h \in PreviewHosts : CreatePreview(v, d, h, u)
    BY <1>7 DEF PreviewHosts
  <2> QED
    BY <2>1, PreviewCreated
<1> QED
  BY <1>1, <1>2, <1>3, <1>4, <1>5, <1>6, <1>7, PreviewDropped, PreviewExpired DEF PreviewsNext

LEMMA PreviewsStart == PreviewsInit => PreviewsInv
<1> SUFFICES ASSUME PreviewsInit PROVE PreviewsInv
  OBVIOUS
<1>1. /\ prows = [i \in PIds |-> NoRow] /\ visits = [v \in Visitors |-> NoVisit]
      /\ \A i \in PIds : prows[i] = NoRow /\ ~LiveRow(i)
      /\ \A v \in Visitors : visits[v] = NoVisit
      /\ DOMAIN pcaddy = {}
  BY DEF PreviewsInit, LiveRow
<1>2. PreviewTypes
  BY <1>1 DEF PreviewTypes, Visit
<1>3. \A v \in Visitors : NoVisit \notin PushVisit /\ NoVisit \notin DropVisit
  BY <1>2, VisitShape
<1>4. HostsNamed /\ OverlapsKnown /\ VisitsTrue
  BY <1>1, <1>3 DEF HostsNamed, OverlapsKnown, VisitsTrue, ReadTrue, PushTrue, RouteGone, Touches
<1>5. OneLiveRow /\ RoutesTrue /\ RowsRouted
  BY <1>1 DEF OneLiveRow, RoutesTrue, RowsRouted
<1> QED
  BY <1>2, <1>4, <1>5 DEF PreviewsInv

PreviewsSpec == PreviewsInit /\ [][PreviewsNext]_prevars

\* The previews and Caddy agree, but for overlapping requests, failures, changed hostnames and shared
\* tags: a live preview is served at its upstream, or a hostname of another deployment that differs in
\* dots and dashes at most took its tag, and a removed one is not served any more. For every number of
\* deployments, rows, requests at a time and faults, and for all hostnames of letters, digits, dashes and dots.
THEOREM PreviewsAgree == PreviewsSpec => []PreviewsTrue
<1>1. PreviewsInv => PreviewsTrue
  <2> SUFFICES ASSUME PreviewsInv PROVE PreviewServed /\ RemovedNotServed
    BY DEF PreviewsTrue
  <2>0. PreviewTypes /\ RoutesTrue /\ RowsRouted
    BY DEF PreviewsInv
  <2>1. LiveIds(prows) = {i \in PIds : LiveRow(i)} /\ \A d \in PDeps : LiveOf(d) = {i \in PIds : LiveRow(i) /\ prows[i].dep = d}
    BY <2>0, PreviewLives
  <2>2. PreviewServed
    <3> SUFFICES ASSUME NEW i \in PIds, LiveRow(i), prows[i].dep \notin troubled, ~PreviewBusy(prows[i].dep)
                 PROVE \/ \E t \in DOMAIN pcaddy : pcaddy[t] = [host |-> prows[i].host, up |-> prows[i].up, by |-> prows[i].dep]
                       \/ \E n \in named : n[1] # prows[i].dep /\ SameName(n[2], prows[i].host)
      BY <2>1 DEF PreviewServed
    <3>1. RoutedRow(i)
      BY <2>0 DEF RowsRouted
    <3> QED
      BY <3>1 DEF RoutedRow
  <2>3. RemovedNotServed
    <3> SUFFICES ASSUME NEW t \in DOMAIN pcaddy, pcaddy[t].by \notin troubled
                 PROVE \E i \in LiveOf(pcaddy[t].by) : prows[i].host = pcaddy[t].host
      BY DEF RemovedNotServed
    <3>1. pcaddy[t].by \in PDeps
      BY <2>0 DEF PreviewTypes, PreviewRoute
    <3>2. PICK i \in PIds : LiveRow(i) /\ prows[i].dep = pcaddy[t].by /\ prows[i].host = pcaddy[t].host
      BY <2>0 DEF RoutesTrue
    <3> QED
      BY <2>1, <3>1, <3>2
  <2> QED
    BY <2>2, <2>3
<1> QED
  BY <1>1, PreviewsStart, PreviewsStep, PTL DEF PreviewsSpec

\* A deployment has one live preview at most.
LEMMA PreviewTablesKept == PreviewsInv => OneLivePreview
<1> SUFFICES ASSUME PreviewsInv PROVE OneLivePreview
  OBVIOUS
<1>0. PreviewTypes /\ OneLiveRow
  BY DEF PreviewsInv
<1>1. \A i \in PIds : prows[i] # NoRow => prows[i].dep \in PDeps /\ prows[i].up \in Addresses /\ prows[i].host \in PreviewHosts
  BY <1>0 DEF PreviewTypes, PreviewRow
<1>2. \A h \in PreviewHosts : h # <<>>
  BY PreviewsAssumption
<1>3. ASSUME NEW d \in PDeps PROVE Cardinality(LiveOf(d)) <= 1
  <2>1. \A i, j \in LiveOf(d) : i = j
    BY <1>0, PreviewLives DEF OneLiveRow
  <2> QED
    BY <2>1, AtMostOne
<1> QED
  BY <1>1, <1>2, <1>3 DEF OneLivePreview

-----------------------------------------------------------------------------
(* The tables side by side *)

\* Each part keeps its invariant, and the parts that do not move keep theirs. The projects that
\* repositories are connected to are given.
ControlPlaneInv ==
    /\ part = "git" => ProjectsTypeOK /\ OneProjectPerSlug
    /\ part # "git" => ProjectsInv
    /\ GitInv /\ ConfigInv /\ DomainsInv /\ PreviewsInv /\ CertsInv /\ VerificationsInv

LEMMA ControlPlaneStart == MCInit => ControlPlaneInv
<1> SUFFICES ASSUME MCInit PROVE ControlPlaneInv
  OBVIOUS
<1>1. GitInv /\ ConfigInv /\ DomainsInv /\ PreviewsInv /\ CertsInv /\ VerificationsInv
  BY GitStart, ConfigStart, DomainsStart, PreviewsStart, CertsStart, VerificationsStart DEF MCInit
<1>2. part # "git" => ProjectsInv
  BY ProjectsStart DEF MCInit
<1>3. ASSUME part = "git" PROVE ProjectsTypeOK /\ OneProjectPerSlug
  <2>1. GitProjects
    BY <1>3 DEF MCInit
  <2>2. Cardinality(ProjIds) \in Nat
    BY ProjectsAssumption, FS_CardinalityType
  <2>3. \A p \in ProjIds : projects[p] \in [org : Orgs, slug : Bases \X (1..Cardinality(ProjIds)), status : {"active", "archived"}, deleted : {FALSE}]
    BY <2>1 DEF GitProjects
  <2>4. \A p \in ProjIds : projects[p] \in ProjectRow
    <3>1. Bases \X (1..Cardinality(ProjIds)) \subseteq Slugs
      BY <2>2 DEF Slugs
    <3> QED
      BY ONLY <2>3, <3>1, Zenon DEF ProjectRow
  <2> QED
    BY <2>1, <2>4 DEF GitProjects, ProjectsTypeOK
<1> QED
  BY <1>1, <1>2, <1>3 DEF ControlPlaneInv

LEMMA ControlPlaneStep ==
    ASSUME ControlPlaneInv, [MCNext]_<<part, gvars, cvars, dvars, prevars, ivars, vvars>>
    PROVE  ControlPlaneInv'
<1>0. /\ part = "git" => ProjectsTypeOK /\ OneProjectPerSlug
      /\ part # "git" => ProjectsInv
      /\ GitInv /\ ConfigInv /\ DomainsInv /\ PreviewsInv /\ CertsInv /\ VerificationsInv
  BY DEF ControlPlaneInv
<1>1. /\ [ConfigNext]_cvars /\ [DomainsNext]_dvars /\ [PreviewsNext]_prevars /\ [CertsNext]_ivars /\ [VerificationsNext]_vvars
      /\ UNCHANGED part
      /\ [GitNext]_gvars \/ UNCHANGED MCRest
      /\ part # "git" => [ProjectsNext]_pvars
      /\ part = "git" => [GitNext]_gvars
  BY DEF MCNext, gvars, pvars
<1>2. ConfigInv' /\ DomainsInv' /\ PreviewsInv' /\ CertsInv' /\ VerificationsInv'
  BY <1>0, <1>1, ConfigStep, DomainsStep, PreviewsStep, CertsStep, VerificationsStep
<1>3. GitInv'
  <2>1. CASE [GitNext]_gvars
    BY <1>0, <2>1, GitStep
  <2>2. CASE UNCHANGED MCRest
    BY <1>0, <2>2 DEF MCRest, GitInv, GitTypes, ReadsKnown, PassesRecorded, ConnectedOnce
  <2> QED
    BY <1>1, <2>1, <2>2
<1>4. part # "git" => ProjectsInv'
  BY <1>0, <1>1, ProjectsStep
<1>5. part = "git" => ProjectsTypeOK' /\ OneProjectPerSlug'
  <2>1. part = "git" => UNCHANGED projects
    BY <1>0, <1>1, GitStep
  <2> QED
    BY <1>0, <2>1 DEF ProjectsTypeOK, OneProjectPerSlug, LiveIds
<1> QED
  BY <1>1, <1>2, <1>3, <1>4, <1>5 DEF ControlPlaneInv

\* The tables of the control plane and of the proxy manager stay well formed, and the unique
\* indexes hold, for any rows, requests at a time, deliveries, calls and failures: one live
\* project per slug, one connection per project, one value per name, one domain per hostname,
\* one live preview per deployment.
THEOREM TablesKept == MCSpec => []TablesWellFormed
<1>1. ControlPlaneInv => TablesWellFormed
  <2> SUFFICES ASSUME ControlPlaneInv PROVE TablesWellFormed
    OBVIOUS
  <2>0. /\ part = "git" => ProjectsTypeOK /\ OneProjectPerSlug
        /\ part # "git" => ProjectsInv
        /\ GitInv /\ ConfigInv /\ DomainsInv /\ PreviewsInv /\ CertsInv /\ VerificationsInv
    BY DEF ControlPlaneInv
  <2>1. ProjectsTypeOK /\ OneProjectPerSlug
    BY <2>0 DEF ProjectsInv, ProjectsTypes, ProjectsTypeOK
  <2>2. ConfigTypeOK /\ OneValuePerName
    BY <2>0 DEF ConfigInv, ConfigTypes, ConfigTypeOK
  <2>3. DomainsTypeOK /\ OneDomainPerHost
    BY <2>0 DEF DomainsInv, DomainsTypes, JobsOfRows, DomainsTypeOK, DomainJobNames
  <2>4. VerificationsTypeOK
    BY <2>0 DEF VerificationsInv, VerificationsTypes, VerificationsTypeOK
  <2> QED
    BY <2>0, <2>1, <2>2, <2>3, <2>4, GitTablesKept, PreviewTablesKept, CertTablesKept DEF TablesWellFormed
<1> QED
  BY <1>1, ControlPlaneStart, ControlPlaneStep, PTL DEF MCSpec
=============================================================================
