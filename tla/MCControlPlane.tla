--------------------------- MODULE MCControlPlane ---------------------------
(* The tables of the control plane and of the proxy side by side: a behaviour  *)
(* is one of their modules' (projects alone, repositories and webhooks over     *)
(* given projects, configuration values, domains, previews, certificates,      *)
(* verifications).                                                            *)
EXTENDS GitWebhooks, ConfigValues, Domains, Previews, Certificates, Verifications

VARIABLE part

MCUrls == {<<"a">>, <<"a", "b">>}
MCDeliveries ==
    {[id |-> 1, provider |-> "github", sig |-> "good", event |-> "push", url |-> <<"a">>],
     [id |-> 2, provider |-> "gitlab", sig |-> "bad", event |-> "push", url |-> <<"a", "b">>]}
MCBranches == {<<"a">>}
MCCustomHosts == {<<"a", "-", "1", "-", "a">>, <<"a", "-", "1", "a">>}

MCRest == <<repos, recorded, passes, answers, received, deployments, greqs>>

MCInit ==
    /\ part \in {"projects", "git", "config", "domains", "previews", "certificates", "verifications"}
    /\ IF part = "git" THEN GitProjects ELSE ProjectsInit
    /\ GitInit /\ ConfigInit /\ DomainsInit /\ PreviewsInit /\ CertsInit /\ VerificationsInit

MCNext ==
    /\ UNCHANGED part
    /\ \/ part = "projects" /\ ProjectsNext /\ UNCHANGED <<MCRest, cvars, dvars, prevars, ivars, vvars>>
       \/ part = "git" /\ GitNext /\ UNCHANGED <<cvars, dvars, prevars, ivars, vvars>>
       \/ part = "config" /\ ConfigNext /\ UNCHANGED <<gvars, dvars, prevars, ivars, vvars>>
       \/ part = "domains" /\ DomainsNext /\ UNCHANGED <<gvars, cvars, prevars, ivars, vvars>>
       \/ part = "previews" /\ PreviewsNext /\ UNCHANGED <<gvars, cvars, dvars, ivars, vvars>>
       \/ part = "certificates" /\ CertsNext /\ UNCHANGED <<gvars, cvars, dvars, prevars, vvars>>
       \/ part = "verifications" /\ VerificationsNext /\ UNCHANGED <<gvars, cvars, dvars, prevars, ivars>>

MCSpec == MCInit /\ [][MCNext]_<<part, gvars, cvars, dvars, prevars, ivars, vvars>>

\* Model values are shared between the parts, so that the group stays small.
MCSymmetry == Permutations(ProjIds) \union Permutations(Clerks) \union Permutations(RepoIds)

\* The tables of the control plane and the proxy manager are well formed, and the unique
\* indexes of their schemas hold, however requests race to an insert: one live project per
\* slug, one connection per project, one value per name, one domain per hostname, one live
\* preview per deployment.
TablesWellFormed ==
    /\ ProjectsTypeOK /\ OneProjectPerSlug
    /\ GitTypeOK /\ OneConnection
    /\ ConfigTypeOK /\ OneValuePerName
    /\ DomainsTypeOK /\ OneDomainPerHost
    /\ OneLivePreview
    /\ CertsTypeOK
    /\ VerificationsTypeOK
=============================================================================
