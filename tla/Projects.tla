------------------------------ MODULE Projects ------------------------------
(* Projects of the control plane (controlplane/project): requests check slugs  *)
(* and rows in one statement and write in a later one.                        *)
EXTENDS Naturals, FiniteSets, Rows

CONSTANTS
    Orgs,       \* organizations
    ProjIds,    \* project rows
    Bases,      \* the slugs that names and slugs normalise to
    Clerks      \* requests served at the same time

VARIABLES
    projects,   \* controlplane_projects
    preqs       \* what each running request has read

pvars == <<projects, preqs>>

\* A slug and the number that Duplicate appends to it; 0 stands for none.
Slugs == Bases \X (0..Cardinality(ProjIds))

ProjectRow == [org : Orgs, slug : Slugs, status : {"active", "archived", "deleted"}, deleted : BOOLEAN]

ASSUME ProjectsAssumption == IsFiniteSet(ProjIds) /\ NoRow \notin ProjectRow

PIdle == [op |-> "idle"]

ProjectsInit ==
    /\ projects = [p \in ProjIds |-> NoRow]
    /\ preqs = [w \in Clerks |-> PIdle]

-----------------------------------------------------------------------------
(* Repository *)

\* GetByID: a live project of the organization.
ProjectFound(o, p) == p \in Find(projects, LAMBDA r : r.org = o)

\* SlugExists: whether a live project of the organization has the slug.
SlugExists(o, s) == Find(projects, LAMBDA r : r.org = o /\ r.slug = s) # {}

MutSlugUnique(o, s) == TRUE

\* controlplane_projects_org_slug_uniq.
SlugUnique(o, s) == \A p \in LiveIds(projects) : projects[p].org # o \/ projects[p].slug # s

\* IsLive: whether a project may be deployed.
IsLive(p) == projects[p].status = "active" /\ ~projects[p].deleted

Advance(w, req) == preqs' = [preqs EXCEPT ![w] = req]
Answer(w) == Advance(w, PIdle)

\* Create: the insert, which the unique index may refuse.
InsertProject(w, p) ==
    /\ preqs[w].op = "insert" /\ projects[p] = NoRow
    /\ projects' = IF ~SlugUnique(preqs[w].org, preqs[w].slug) THEN projects
                   ELSE Insert(projects, p, [org |-> preqs[w].org, slug |-> preqs[w].slug, status |-> "active", deleted |-> FALSE])
    /\ Answer(w)

MutUpdateProject(w) ==
    /\ preqs[w].op = "update2"
    /\ projects' = [projects EXCEPT ![preqs[w].id].status = IF preqs[w].vals = << >> THEN @ ELSE preqs[w].vals.status]
    /\ Answer(w)

\* Update: the statement goes by the id alone, over live rows.
UpdateProject2(w) ==
    /\ preqs[w].op = "update2"
    /\ projects' = Update(projects, preqs[w].id, preqs[w].vals)
    /\ Answer(w)

\* SoftDelete stamps the row, and then sets the status of a row that is no longer
\* live: the update finds none, and the request answers with an error.
SoftDeleteProject(w) ==
    /\ preqs[w].op = "delete2"
    /\ projects' = SoftDelete(projects, preqs[w].id)
    /\ Advance(w, [op |-> "update2", id |-> preqs[w].id, vals |-> [status |-> "deleted"]])

-----------------------------------------------------------------------------
(* Handlers and services *)

\* A route below /orgs/{orgID}: the caller's role in the organization allows it.
ProjectRoute(w, req) == preqs[w] = PIdle /\ Advance(w, req) /\ UNCHANGED projects

CreateProject(w, o, b) == ProjectRoute(w, [op |-> "create", org |-> o, slug |-> <<b, 0>>])

\* Update: columns that the other operations do not look at.
Changes == << >>

UpdateProject(w, o, p) == ProjectRoute(w, [op |-> "update", org |-> o, id |-> p, vals |-> Changes])

\* Archive and Restore are updates of the status.
Archive == [status |-> "archived"]
Restore == [status |-> "active"]

ArchiveProject(w, o, p) == ProjectRoute(w, [op |-> "update", org |-> o, id |-> p, vals |-> Archive])

RestoreProject(w, o, p) == ProjectRoute(w, [op |-> "update", org |-> o, id |-> p, vals |-> Restore])

DeleteProject(w, o, p) == ProjectRoute(w, [op |-> "delete", org |-> o, id |-> p])

DuplicateProject(w, o, p, b) == ProjectRoute(w, [op |-> "copy", org |-> o, id |-> p, slug |-> <<b, 0>>])

\* Create: the slug must be free; the row is written in a later statement.
CreateService(w) ==
    /\ preqs[w].op = "create"
    /\ IF SlugExists(preqs[w].org, preqs[w].slug) THEN Answer(w)
       ELSE Advance(w, [op |-> "insert", org |-> preqs[w].org, slug |-> preqs[w].slug])
    /\ UNCHANGED projects

\* Update, Archive, Restore and Delete look the project up in the organization first.
LookUp(w) ==
    /\ preqs[w].op \in {"update", "delete", "copy"}
    /\ IF ~ProjectFound(preqs[w].org, preqs[w].id) THEN Answer(w)
       ELSE Advance(w, [preqs[w] EXCEPT !.op = CASE @ = "update" -> "update2" [] @ = "delete" -> "delete2" [] @ = "copy" -> "probe"])
    /\ UNCHANGED projects

\* Duplicate tries <slug>, <slug>-1, <slug>-2, ... until one is free.
DuplicateProbe(w) ==
    /\ preqs[w].op = "probe"
    /\ LET s == preqs[w].slug IN
       IF SlugExists(preqs[w].org, s) THEN Advance(w, [preqs[w] EXCEPT !.slug = <<s[1], s[2] + 1>>])
       ELSE Advance(w, [op |-> "insert", org |-> preqs[w].org, slug |-> s])
    /\ UNCHANGED projects

\* The server dies, or a statement fails.
ProjectRequestFails(w) == preqs[w] # PIdle /\ Answer(w) /\ UNCHANGED projects

ProjectsNext ==
    \E w \in Clerks :
        \/ CreateService(w) \/ LookUp(w) \/ DuplicateProbe(w)
        \/ UpdateProject2(w) \/ SoftDeleteProject(w) \/ ProjectRequestFails(w)
        \/ \E o \in Orgs, b \in Bases : CreateProject(w, o, b)
        \/ \E o \in Orgs, p \in ProjIds :
            \/ UpdateProject(w, o, p) \/ ArchiveProject(w, o, p) \/ RestoreProject(w, o, p) \/ DeleteProject(w, o, p)
            \/ \E b \in Bases : DuplicateProject(w, o, p, b)
        \/ \E p \in ProjIds : InsertProject(w, p)

-----------------------------------------------------------------------------
(* Properties *)

\* The rows are those that project.Repository writes.
ProjectsTypeOK == \A p \in ProjIds : projects[p] # NoRow => projects[p] \in ProjectRow

\* However creations and duplications interleave, two live projects of an organization
\* never share a slug.
OneProjectPerSlug ==
    \A p, q \in LiveIds(projects) :
        (projects[p].org = projects[q].org /\ projects[p].slug = projects[q].slug) => p = q

\* A request that looked a project up before another one deleted it changes nothing of it,
\* and neither does the second statement of the deletion: the status stays what it was.
DeletedFrozen ==
    [][\A p \in ProjIds : (projects[p] # NoRow /\ projects[p].deleted) => projects'[p] = projects[p]]_pvars
=============================================================================
