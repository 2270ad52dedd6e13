------------------------------ MODULE Previews ------------------------------
(* Preview environments of one project (proxy/preview): rows of                 *)
(* proxy_previews, one live row a deployment, and their routes in Caddy, one an  *)
(* @id tag. A create writes the row and then the route, a removal deletes the    *)
(* route and then the row, and the clean-up does so for the rows it has listed.  *)
EXTENDS Naturals, Sequences, SequencesExt, FiniteSets, Rows

CONSTANTS
    PDeps,      \* deployments
    PIds,       \* row ids, given out in their order
    Addresses,  \* upstreams
    Branches,   \* branch names, as sequences of characters
    CustomHosts, \* hostnames that requests give, as sequences of characters
    Visitors,   \* requests and the reconciler's clean-up
    PMaxCalls,  \* bound on requests
    PMaxFaults  \* bound on failing requests to Caddy, statements and restarts

VARIABLES
    prows,    \* proxy_previews
    pcaddy,   \* routes: from tags to the host, the upstream and the deployment that pushed it
    visits,    \* what each request is doing
    troubled, \* deployments whose requests overlapped or failed, or that changed their host
    named,    \* hostnames that each deployment ever had
    pcalls, pfaults

prevars == <<prows, pcaddy, visits, troubled, named, pcalls, pfaults>>

Preview == [dep : PDeps, host : Seq(STRING), up : Addresses, expired : BOOLEAN, deleted : BOOLEAN]

NoVisit == [at |-> "idle"]

PreviewsInit ==
    /\ prows = [i \in PIds |-> NoRow]
    /\ pcaddy = [t \in {} |-> NoRow]
    /\ visits = [v \in Visitors |-> NoVisit]
    /\ troubled = {} /\ named = {} /\ pcalls = 0 /\ pfaults = 0

PFault == pfaults < PMaxFaults /\ pfaults' = pfaults + 1
PCall(v) == visits[v] = NoVisit /\ pcalls < PMaxCalls /\ pcalls' = pcalls + 1

-----------------------------------------------------------------------------
(* Names *)

Alphanumeric == {"a", "b", "p", "1"}
Separators == {"/", "_", "."}

\* slugify: separators become one dash, every other character, a dash too, is dropped.
Slugify(s) ==
    LET Step(c, out) ==
            IF c \in Alphanumeric THEN Append(out, c)
            ELSE IF c \in Separators /\ out # <<>> /\ Last(out) # "-" THEN Append(out, "-") ELSE out
        out == FoldLeft(LAMBDA acc, c : Step(c, acc), <<>>, s)
    IN  IF out # <<>> /\ Last(out) = "-" THEN Front(out) ELSE out

\* generateHostname: the same branch gives the same hostname.
GenerateHostname(branch) == (IF Slugify(branch) = <<>> THEN <<"p">> ELSE Slugify(branch)) \o <<"-", "1", ".", "a">>

MutSanitizeTag(h) == SelectSeq(h, LAMBDA c : c \in Alphanumeric \cup {"-"})

\* sanitizeTag: dots become dashes, and characters other than letters, digits and dashes go.
KeptInTag(h) == SelectSeq(h, LAMBDA c : c \in Alphanumeric \cup {"-", "."})

SanitizeTag(h) ==
    [k \in DOMAIN KeptInTag(h) |-> IF KeptInTag(h)[k] = "." THEN "-" ELSE KeptInTag(h)[k]]

\* The hostnames that requests lead to.
PreviewHosts == {GenerateHostname(b) : b \in Branches} \union CustomHosts

\* Hostnames are not empty, and are made of letters, digits, dashes and dots.
ASSUME PreviewsAssumption ==
    /\ NoRow \notin Preview /\ NoRow \notin PDeps
    /\ \A h \in PreviewHosts : h \in Seq(STRING) /\ h # <<>> /\ KeptInTag(h) = h

-----------------------------------------------------------------------------
(* Requests *)

LiveOf(d) == Find(prows, LAMBDA r : r.dep = d)

\* Requests that are under way for a deployment.
Touches(v, d) == visits[v] # NoVisit /\ (visits[v].dep = d \/ \E r \in visits[v].todo : r.dep = d)

Overlapping(d) == IF \E v \in Visitors : Touches(v, d) THEN {d} ELSE {}

\* UpsertPreview: a new row, or the live one of the deployment overwritten; it is then
\* not expired.
UpsertPreview(d, host, up) ==
    \/ /\ LiveOf(d) = {}
       /\ \E i \in PIds :
            /\ prows[i] = NoRow /\ \A j \in PIds : j < i => prows[j] # NoRow
            /\ prows' = Insert(prows, i, [dep |-> d, host |-> host, up |-> up, expired |-> FALSE, deleted |-> FALSE])
       /\ troubled' = troubled \cup Overlapping(d)
    \/ \E i \in LiveOf(d) :
        /\ prows' = Update(prows, i, [host |-> host, up |-> up, expired |-> FALSE])
        /\ troubled' = troubled \cup Overlapping(d) \cup (IF prows[i].host # host THEN {d} ELSE {})

\* Create: the custom hostname or the generated one.
CreatePreview(v, d, host, up) ==
    /\ PCall(v)
    /\ UpsertPreview(d, host, up)
    /\ visits' = [visits EXCEPT ![v] = [at |-> "push", dep |-> d, host |-> host, up |-> up, todo |-> {}]]
    /\ named' = named \cup {<<d, host>>}
    /\ UNCHANGED <<pcaddy, pfaults>>

\* UpsertRoute of Caddy; its error, and that of AutomateCert after it, is logged.
PushPreview(v) ==
    /\ visits[v] # NoVisit /\ visits[v].at = "push"
    /\ LET q == visits[v] IN
       \/ /\ pcaddy' = [t \in DOMAIN pcaddy \cup {SanitizeTag(q.host)} |->
                            IF t = SanitizeTag(q.host) THEN [host |-> q.host, up |-> q.up, by |-> q.dep] ELSE pcaddy[t]]
          /\ UNCHANGED <<troubled, pfaults>>
       \/ PFault /\ troubled' = troubled \cup {q.dep} /\ UNCHANGED pcaddy
    /\ visits' = [visits EXCEPT ![v] = NoVisit]
    /\ UNCHANGED <<prows, named, pcalls>>

\* What a removal keeps of the rows it read.
Targets(ids) == {[id |-> i, dep |-> prows[i].dep, host |-> prows[i].host] : i \in ids}

RemovePreviews(v, ids) ==
    /\ ids # {}
    /\ visits' = [visits EXCEPT ![v] = [at |-> "unroute", dep |-> NoRow, todo |-> Targets(ids)]]
    /\ troubled' = troubled \cup UNION {Overlapping(prows[i].dep) : i \in ids}
    /\ UNCHANGED <<prows, pcaddy, named, pfaults>>

\* Delete reads the live row of the deployment; without one there is nothing to do.
DeletePreview(v, d) == PCall(v) /\ RemovePreviews(v, LiveOf(d))

\* ListExpiredPreviews.
ListExpired == Find(prows, LAMBDA r : r.expired)

\* CleanupExpired, from the reconciler's loop.
CleanupExpired(v) == visits[v] = NoVisit /\ RemovePreviews(v, ListExpired) /\ UNCHANGED pcalls

\* DeleteRoute by the tag of the hostname that was read; its error is logged.
UnroutePreview(v) ==
    /\ visits[v] # NoVisit /\ visits[v].at = "unroute"
    /\ \E r \in visits[v].todo :
        /\ \/ pcaddy' = [t \in DOMAIN pcaddy \ {SanitizeTag(r.host)} |-> pcaddy[t]] /\ UNCHANGED <<troubled, pfaults>>
           \/ PFault /\ troubled' = troubled \cup {r.dep} /\ UNCHANGED pcaddy
        /\ visits' = [visits EXCEPT ![v] = [at |-> "drop", dep |-> r.dep, id |-> r.id, todo |-> @.todo \ {r}]]
    /\ UNCHANGED <<prows, named, pcalls>>

\* SoftDeletePreview by id; the clean-up goes on after an error.
DropPreview(v) ==
    /\ visits[v] # NoVisit /\ visits[v].at = "drop"
    /\ \/ prows' = SoftDelete(prows, visits[v].id) /\ UNCHANGED <<troubled, pfaults>>
       \/ PFault /\ troubled' = troubled \cup {visits[v].dep} /\ UNCHANGED prows
    /\ visits' = [visits EXCEPT ![v] = IF @.todo = {} THEN NoVisit ELSE [at |-> "unroute", dep |-> NoRow, todo |-> @.todo]]
    /\ UNCHANGED <<pcaddy, named, pcalls>>

\* The process stops in the middle of a request.
PreviewRestart(v) ==
    /\ visits[v] # NoVisit /\ PFault
    /\ troubled' = troubled \cup {d \in PDeps : Touches(v, d)}
    /\ visits' = [visits EXCEPT ![v] = NoVisit]
    /\ UNCHANGED <<prows, pcaddy, named, pcalls>>

\* The TTL of a live preview passes.
PreviewExpires(i) ==
    /\ i \in LiveIds(prows) /\ ~prows[i].expired
    /\ prows' = [prows EXCEPT ![i].expired = TRUE]
    /\ UNCHANGED <<pcaddy, visits, troubled, named, pcalls, pfaults>>

PreviewsNext ==
    \/ \E i \in PIds : PreviewExpires(i)
    \/ \E v \in Visitors :
        \/ CleanupExpired(v) \/ PushPreview(v) \/ UnroutePreview(v) \/ DropPreview(v) \/ PreviewRestart(v)
        \/ \E d \in PDeps : DeletePreview(v, d)
        \/ \E d \in PDeps, u \in Addresses :
            \/ \E b \in Branches : CreatePreview(v, d, GenerateHostname(b), u)
            \/ \E h \in CustomHosts : CreatePreview(v, d, h, u)

-----------------------------------------------------------------------------
(* Properties *)

PreviewBusy(d) == \E v \in Visitors : Touches(v, d)

\* Hostnames that differ at most in dots and dashes.
SameName(g, h) == Len(g) = Len(h) /\ \A k \in DOMAIN g : g[k] = h[k] \/ {g[k], h[k]} = {".", "-"}

\* A deployment has one live preview; rows of the table are never without a hostname.
OneLivePreview ==
    /\ \A i \in PIds : prows[i] # NoRow => prows[i].dep \in PDeps /\ prows[i].up \in Addresses /\ prows[i].host # <<>>
    /\ \A d \in PDeps : Cardinality(LiveOf(d)) <= 1

\* A live preview is served at its upstream. It loses its route only to another
\* deployment whose hostname differs from its own in dots and dashes at most, which the
\* same branch gives; else a request of its own overlapped, failed or changed the hostname.
PreviewServed ==
    \A i \in LiveIds(prows) :
        \/ prows[i].dep \in troubled \/ PreviewBusy(prows[i].dep)
        \/ \E t \in DOMAIN pcaddy : pcaddy[t] = [host |-> prows[i].host, up |-> prows[i].up, by |-> prows[i].dep]
        \/ \E n \in named : n[1] # prows[i].dep /\ SameName(n[2], prows[i].host)

\* A removed preview is not served any more, unless a request of its deployment
\* overlapped with the removal, failed, or had changed the hostname.
RemovedNotServed ==
    \A t \in DOMAIN pcaddy :
        LET r == pcaddy[t] IN
        r.by \in troubled \/ PreviewBusy(r.by) \/ \E i \in LiveOf(r.by) : prows[i].host = r.host

\* The rows and Caddy agree: previews that live are served, and those that were removed are
\* not, but for the named overlaps, failures and shared tags.
PreviewsTrue == PreviewServed /\ RemovedNotServed
=============================================================================
