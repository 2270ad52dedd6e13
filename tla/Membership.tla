----------------------------- MODULE Membership -----------------------------
(* An organization, its members, invitations and API keys                      *)
(* (identity/organization, member, rbac, apikey). A request reads the caller's  *)
(* role once, in OrgContext, and acts on it later, between the statements of    *)
(* other requests.                                                             *)
EXTENDS Naturals, Sequences, FiniteSets, Rows

CONSTANTS
    People,     \* users
    Founder,    \* the user who creates the organization
    GivenRoles, \* the roles that invitations and role changes ask for
    InvIds,     \* invitation tokens
    KeyIds,     \* API keys
    Workers,    \* requests served at the same time
    Secrets     \* what the random generator may return, as sequences of characters

VARIABLES
    org,        \* identity_organizations: the row
    members,    \* identity_members by user
    invites,    \* identity_invitations
    keys,       \* identity_api_keys
    reqs        \* what each running request has read

mvars == <<org, members, invites, keys, reqs>>

AllRoles == {"owner", "admin", "developer", "operator", "billing", "viewer"}

\* The columns that matter here; a member remembers which invitation it came from,
\* an invitation the role of its writer and how often it was taken up.
MemberRow == [role : AllRoles, status : {"active", "removed"}, from : InvIds \union {"founder"}]
InvitationRow == [role : AllRoles, inviter : AllRoles, state : {"pending", "accepted", "expired"}, uses : Nat]
KeyRow == [creator : People, secret : Secrets]

ASSUME MembershipAssumption ==
    /\ NoRow \notin MemberRow /\ NoRow \notin InvitationRow /\ NoRow \notin KeyRow
    /\ Founder \in People /\ GivenRoles \subseteq AllRoles /\ "founder" \notin InvIds

\* A request: what it is for, and what it has been given and has read so far.
Request(op) ==
    [op |-> op, user |-> NoRow, role |-> NoRow, grant |-> NoRow, target |-> NoRow, key |-> NoRow, inv |-> NoRow, seen |-> NoRow]
MIdle == Request("idle")

MembershipInit ==
    /\ org = "none"
    /\ members = [u \in People |-> NoRow]
    /\ invites = [i \in InvIds |-> NoRow]
    /\ keys = [k \in KeyIds |-> NoRow]
    /\ reqs = [w \in Workers |-> MIdle]

-----------------------------------------------------------------------------
(* Roles *)

AllPermissions ==
    {"org:read", "org:write", "org:delete", "member:read", "member:invite", "member:manage",
     "member:remove", "apikey:read", "apikey:manage", "session:read", "session:revoke",
     "billing:read", "billing:manage", "deploy:read", "deploy:write", "project:read", "project:write"}

RolePermissions ==
    [owner     |-> AllPermissions,
     admin     |-> AllPermissions \ {"org:delete", "billing:read", "billing:manage"},
     developer |-> {"org:read", "member:read", "apikey:read", "session:read", "session:revoke",
                    "deploy:read", "deploy:write", "project:read", "project:write"},
     operator  |-> {"org:read", "member:read", "deploy:read", "deploy:write", "project:read"},
     billing   |-> {"org:read", "billing:read", "billing:manage"},
     viewer    |-> {"org:read", "member:read", "deploy:read", "project:read"}]

\* HasPermission, RequirePermission.
HasPermission(role, perm) == role \in AllRoles /\ perm \in RolePermissions[role]

MutCanManageRole(actor, role) == actor \in {"owner", "admin"}

\* CanManageRole: an admin assigns anything but owner.
CanManageRole(actor, role) == actor = "owner" \/ (actor = "admin" /\ role # "owner")

\* GetActive: the membership that a user has now.
IsActive(u) == members[u] # NoRow /\ members[u].status = "active"

-----------------------------------------------------------------------------
(* Requests *)

\* Create: the organization, then its owner, in two statements.
CreateOrg(w) ==
    /\ reqs[w] = MIdle /\ org = "none"
    /\ org' = "live"
    /\ reqs' = [reqs EXCEPT ![w] = Request("addowner")]
    /\ UNCHANGED <<members, invites, keys>>

AddOwner(w) ==
    /\ reqs[w].op = "addowner"
    /\ members' = Insert(members, Founder, [role |-> "owner", status |-> "active", from |-> "founder"])
    /\ reqs' = [reqs EXCEPT ![w] = MIdle]
    /\ UNCHANGED <<org, invites, keys>>

\* FormatAPIKey joins the prefix "agn_<hex>" and the secret with an underscore.
KeyPrefix == <<"agn", "_", "hex">>
\* Mount: the permission that each route below /orgs/{orgID} requires.
RoutePermission ==
    [invite |-> "member:invite", remove |-> "member:remove", role |-> "member:manage", delete |-> "org:delete",
     keycreate |-> "apikey:manage", keyrotate |-> "apikey:manage", keydelete |-> "apikey:manage"]

\* OrgContext and RequirePermission: the caller's role is read here, once.
OrgRoute(w, u, req) ==
    /\ reqs[w] = MIdle /\ org # "none" /\ IsActive(u) /\ HasPermission(members[u].role, RoutePermission[req.op])
    /\ reqs' = [reqs EXCEPT ![w] = [req EXCEPT !.role = members[u].role, !.user = u]]
    /\ UNCHANGED <<org, members, invites, keys>>

InviteMember(w, u, role) == OrgRoute(w, u, [Request("invite") EXCEPT !.grant = role])

RemoveMember(w, u, target) == OrgRoute(w, u, [Request("remove") EXCEPT !.target = target])

UpdateMemberRole(w, u, target, role) == OrgRoute(w, u, [Request("role") EXCEPT !.target = target, !.grant = role])

DeleteOrg(w, u) == OrgRoute(w, u, Request("delete"))

KeyRequest(w, u, k, op) == OrgRoute(w, u, [Request(op) EXCEPT !.key = k])

-----------------------------------------------------------------------------
(* Services *)

\* Invite refuses a role that the caller may not assign; the token goes out by mail.
Invite(w, i) ==
    /\ reqs[w].op = "invite" /\ invites[i] = NoRow
    /\ invites' = IF ~CanManageRole(reqs[w].role, reqs[w].grant) THEN invites
                  ELSE Insert(invites, i, [role |-> reqs[w].grant, inviter |-> reqs[w].role, state |-> "pending", uses |-> 0])
    /\ reqs' = [reqs EXCEPT ![w] = MIdle]
    /\ UNCHANGED <<org, members, keys>>

\* Accept looks the token up; whoever is signed in may present it.
AcceptRead(w, u, i) ==
    /\ reqs[w] = MIdle /\ invites[i] # NoRow /\ invites[i].state = "pending"
    /\ reqs' = [reqs EXCEPT ![w] = [Request("accept") EXCEPT !.user = u, !.inv = i]]
    /\ UNCHANGED <<org, members, invites, keys>>

\* The transaction claims the invitation if nobody has accepted it; an expiry since the read does not matter.
ClaimInvitation(i) == invites[i].state # "accepted"

\* AcceptInvitation: the claim and the upsert, which takes the invitation's role over any other.
AcceptInvitation(w) ==
    /\ reqs[w].op = "accept"
    /\ LET i == reqs[w].inv IN
       IF ~ClaimInvitation(i) THEN UNCHANGED <<members, invites>>
       ELSE /\ invites' = [invites EXCEPT ![i].state = "accepted", ![i].uses = @ + 1]
            /\ members' = Insert(members, reqs[w].user, [role |-> invites[i].role, status |-> "active", from |-> i])
    /\ reqs' = [reqs EXCEPT ![w] = MIdle]
    /\ UNCHANGED <<org, keys>>

InvitationExpires(i) ==
    /\ invites[i] # NoRow /\ invites[i].state = "pending"
    /\ invites' = [invites EXCEPT ![i].state = "expired"]
    /\ UNCHANGED <<org, members, keys, reqs>>

MutRemovable(w) == IsActive(reqs[w].target) /\ CanManageRole(reqs[w].role, members[reqs[w].target].role)

\* Remove: the target is active and no owner, and the caller may manage its role.
Removable(w) ==
    LET t == reqs[w].target IN
    IsActive(t) /\ members[t].role # "owner" /\ CanManageRole(reqs[w].role, members[t].role)

\* UpdateRole: neither the new nor the present role is owner.
RoleAssignable(w) ==
    /\ CanManageRole(reqs[w].role, reqs[w].grant) /\ reqs[w].grant # "owner"
    /\ IsActive(reqs[w].target) /\ members[reqs[w].target].role # "owner"

\* Remove and UpdateRole read the target before they write it.
CheckTarget(w) ==
    /\ reqs[w].op \in {"remove", "role"}
    /\ \/ /\ IF reqs[w].op = "remove" THEN Removable(w) ELSE RoleAssignable(w)
          /\ reqs' = [reqs EXCEPT ![w].op = IF @ = "remove" THEN "remove2" ELSE "role2",
                                  ![w].seen = members[reqs[w].target]]
       \/ /\ IF reqs[w].op = "remove" THEN ~Removable(w) ELSE ~RoleAssignable(w)
          /\ reqs' = [reqs EXCEPT ![w] = MIdle]
    /\ UNCHANGED <<org, members, invites, keys>>

\* The statements go by the user and the active status only.
RemoveRow(w) ==
    /\ reqs[w].op = "remove2"
    /\ members' = IF IsActive(reqs[w].target) THEN [members EXCEPT ![reqs[w].target].status = "removed"] ELSE members
    /\ reqs' = [reqs EXCEPT ![w] = MIdle]
    /\ UNCHANGED <<org, invites, keys>>

UpdateRole(w) ==
    /\ reqs[w].op = "role2"
    /\ members' = IF IsActive(reqs[w].target) THEN [members EXCEPT ![reqs[w].target].role = reqs[w].grant] ELSE members
    /\ reqs' = [reqs EXCEPT ![w] = MIdle]
    /\ UNCHANGED <<org, invites, keys>>

\* Delete: the route's permission is the owner's alone; members and keys are left as they are.
SoftDeleteOrg(w) ==
    /\ reqs[w].op = "delete"
    /\ org' = IF reqs[w].role = "owner" THEN "deleted" ELSE org
    /\ reqs' = [reqs EXCEPT ![w] = MIdle]
    /\ UNCHANGED <<members, invites, keys>>

\* The services of the keys check the permission of the context again.
KeyPermitted(w, op) == reqs[w].op = op /\ HasPermission(reqs[w].role, "apikey:manage")

\* Create: a random secret in base64url.
CreateKey(w) ==
    /\ KeyPermitted(w, "keycreate") /\ keys[reqs[w].key] = NoRow
    /\ \E secret \in Secrets : keys' = Insert(keys, reqs[w].key, [creator |-> reqs[w].user, secret |-> secret])
    /\ reqs' = [reqs EXCEPT ![w] = MIdle]
    /\ UNCHANGED <<org, members, invites>>

\* Rotate: a new secret under the old prefix.
RotateKey(w) ==
    /\ KeyPermitted(w, "keyrotate")
    /\ IF keys[reqs[w].key] = NoRow THEN UNCHANGED keys
       ELSE \E secret \in Secrets : keys' = [keys EXCEPT ![reqs[w].key].secret = secret]
    /\ reqs' = [reqs EXCEPT ![w] = MIdle]
    /\ UNCHANGED <<org, members, invites>>

DeleteKey(w) ==
    /\ KeyPermitted(w, "keydelete")
    /\ keys' = Delete(keys, reqs[w].key)
    /\ reqs' = [reqs EXCEPT ![w] = MIdle]
    /\ UNCHANGED <<org, members, invites>>

\* The server dies, or a statement fails, between two statements.
RequestFails(w) ==
    /\ reqs[w] # MIdle
    /\ reqs' = [reqs EXCEPT ![w] = MIdle]
    /\ UNCHANGED <<org, members, invites, keys>>

MembershipNext ==
    \E w \in Workers :
        \/ CreateOrg(w) \/ AddOwner(w) \/ CheckTarget(w) \/ RemoveRow(w) \/ UpdateRole(w)
        \/ AcceptInvitation(w) \/ SoftDeleteOrg(w) \/ CreateKey(w) \/ RotateKey(w) \/ DeleteKey(w) \/ RequestFails(w)
        \/ \E u \in People, r \in GivenRoles : InviteMember(w, u, r)
        \/ \E u \in People, t \in People : RemoveMember(w, u, t)
        \/ \E u \in People, t \in People, r \in GivenRoles : UpdateMemberRole(w, u, t, r)
        \/ \E u \in People : DeleteOrg(w, u)
        \/ \E u \in People, k \in KeyIds, op \in {"keycreate", "keyrotate", "keydelete"} : KeyRequest(w, u, k, op)
        \/ \E i \in InvIds : Invite(w, i) \/ \E u \in People : AcceptRead(w, u, i)
        \/ \E i \in InvIds : InvitationExpires(i)

MembershipSpec == MembershipInit /\ [][MembershipNext]_mvars

-----------------------------------------------------------------------------
(* Properties *)

\* The rows are what the statements of identity/member, organization and apikey can write.
MembershipTypeOK ==
    /\ org \in {"none", "live", "deleted"}
    /\ \A u \in People : members[u] # NoRow => members[u] \in MemberRow
    /\ \A i \in InvIds : invites[i] # NoRow => invites[i] \in InvitationRow
    /\ \A k \in KeyIds : keys[k] # NoRow => keys[k] \in KeyRow

\* Whoever is an owner is the founder or took up an invitation that an owner wrote: no
\* chain of role changes, removals and invitations by admins makes one (CanManageRole).
OwnersGranted ==
    \A u \in People : (members[u] # NoRow /\ members[u].role = "owner") =>
        \/ members[u].from = "founder"
        \/ /\ members[u].from \in InvIds
           /\ invites[members[u].from].role = "owner" /\ invites[members[u].from].inviter = "owner"

\* An invitation makes at most one membership, however many accept it at once.
InvitationOnce == \A i \in InvIds : invites[i] # NoRow => invites[i].uses <= 1

\* An owner ceases to be one only by taking up an invitation, or by a removal or a role
\* change whose check had read the row before it was an owner's (Remove, UpdateRole).
OwnerFallsOnlyToRace ==
    [][\A u \in People :
        (members[u] # NoRow /\ members[u].role = "owner" /\ members[u].status = "active"
            /\ (members'[u].role # "owner" \/ members'[u].status # "active"))
        => \E w \in Workers :
            /\ reqs[w] # MIdle /\ reqs'[w] = MIdle
            /\ \/ reqs[w].op = "accept" /\ reqs[w].user = u
               \/ reqs[w].op \in {"remove2", "role2"} /\ reqs[w].target = u /\ reqs[w].seen.role # "owner"]_mvars
=============================================================================
