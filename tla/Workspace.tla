----------------------------- MODULE Workspace -----------------------------
(***************************************************************************)
(* One organisation workspace: its members and their roles, the custom     *)
(* roles laid over them, and the suspension of accounts                    *)
(* (service/admin, repository/postgres/workspace.go and workspace_role.go, *)
(* security/rbac).  A request first reads what it needs to decide and then *)
(* commits one transaction; other requests may commit in between.          *)
(***************************************************************************)
EXTENDS Integers, FiniteSets

CONSTANTS
    Users,
    Owners,         \* the users who are owners at the start
    Admins,         \* ... and the admins
    RoleIds,        \* custom role definitions that can exist
    AdminRequests,  \* administration requests in flight at one time
    AdminOps,       \* the operations this instance exercises
    MaxAdmin        \* bound: administration requests in all

ASSUME UsersAssumption == Owners \subseteq Users /\ Admins \subseteq Users \ Owners

VARIABLES
    role,        \* workspace_members: role[u], "none" without a row
    account,     \* users.status
    roleDef,     \* workspace_role_definitions
    assigned,    \* workspace_role_assignments: pairs <<user, role id>>
    userJob,     \* the newest search job of each user's document
    adm,         \* adm[q]: a request between its checks and its transaction
    admCount,    \* requests so far
    audit        \* audit[u]: the role the entries of the audit log add up to

workspaceVars == <<role, account, roleDef, assigned, userJob, adm, admCount, audit>>

Roles == {"owner", "admin", "member", "guest"}
Permissions == {"invite", "manage"}

IdleAdmin == [op |-> "idle"]
NoDefinition == [base |-> "none", perms |-> {}]

WorkspaceInit ==
    /\ role = [u \in Users |-> CASE u \in Owners -> "owner" [] u \in Admins -> "admin"
                                 [] OTHER -> "none"]
    /\ account = [u \in Users |-> "active"]
    /\ roleDef = [r \in RoleIds |-> NoDefinition]
    /\ assigned = {}
    /\ userJob = [u \in Users |-> IF u \in Owners \cup Admins THEN "upsert" ELSE "none"]
    /\ adm = [q \in AdminRequests |-> IdleAdmin]
    /\ admCount = 0
    /\ audit = role

-----------------------------------------------------------------------------
(* Permissions (security/rbac). *)

DefaultWorkspaceRole(r) ==
    CASE r \in {"owner", "admin"} -> Permissions
      [] OTHER -> {}

ListAssignedDefinitions(u) == {roleDef[r] : r \in {x \in RoleIds : <<u, x>> \in assigned}}

\* A definition counts while its base role is the member's own.
Resolve(u) ==
    DefaultWorkspaceRole(role[u])
      \cup UNION {d.perms : d \in {x \in ListAssignedDefinitions(u) : x.base = role[u]}}

requirePermission(u, p) == role[u] # "none" /\ p \in Resolve(u)

-----------------------------------------------------------------------------
(* What each operation checks before its transaction: a acts on t with x. *)

Senior(r) == r \in {"owner", "admin"}

InviteMemberCheck(a, t, x) ==
    /\ requirePermission(a, "invite")
    /\ Senior(x) => role[a] = "owner"
    /\ account[t] = "active" /\ role[t] = "none"

UpdateMemberRoleCheck(a, t, x) ==
    /\ requirePermission(a, "manage")
    /\ Senior(x) => role[a] = "owner"
    /\ ~(a = t /\ role[a] = "owner" /\ x # "owner")

RemoveMemberCheck(a, t) ==
    /\ requirePermission(a, "manage")
    /\ a # t /\ role[t] # "none"
    /\ role[t] = "owner" => role[a] = "owner"

SuspendUserCheck(a, t) ==
    /\ requirePermission(a, "manage")
    /\ role[t] # "none"
    /\ role[t] = "owner" => role[a] = "owner"
    /\ a # t

ReactivateUserCheck(a, t) == requirePermission(a, "manage") /\ role[t] # "none"

DefineRoleCheck(a) == requirePermission(a, "manage")

ManagesCustomRoles(a, t) ==
    /\ requirePermission(a, "manage")
    /\ role[t] # "none"
    /\ Senior(role[t]) => role[a] = "owner"

AssignMemberRoleCheck(a, t, x) ==
    /\ ManagesCustomRoles(a, t)
    /\ roleDef[x] # NoDefinition
    /\ role[t] = roleDef[x].base

AdminCheck(op, a, t, x) ==
    \/ op = "invite" /\ InviteMemberCheck(a, t, x)
    \/ op = "role" /\ UpdateMemberRoleCheck(a, t, x)
    \/ op = "remove" /\ RemoveMemberCheck(a, t)
    \/ op = "suspend" /\ SuspendUserCheck(a, t)
    \/ op = "reactivate" /\ ReactivateUserCheck(a, t)
    \/ op \in {"define", "undefine"} /\ t = a /\ DefineRoleCheck(a)
    \/ op = "assign" /\ AssignMemberRoleCheck(a, t, x)
    \/ op = "unassign" /\ ManagesCustomRoles(a, t)

ArgsOf(op) == CASE op \in {"invite", "role"} -> Roles
                [] op \in {"define", "undefine", "assign", "unassign"} -> RoleIds
                [] OTHER -> {"none"}

\* The request has passed its checks and is about to open its transaction.
AdminAsk(q) ==
    /\ adm[q] = IdleAdmin /\ admCount < MaxAdmin
    /\ \E op \in AdminOps, a, t \in Users : \E x \in ArgsOf(op) :
        /\ AdminCheck(op, a, t, x)
        /\ adm' = [adm EXCEPT ![q] = [op |-> op, by |-> a, on |-> t, arg |-> x]]
    /\ admCount' = admCount + 1
    /\ UNCHANGED <<role, account, roleDef, assigned, userJob, audit>>

-----------------------------------------------------------------------------
(* The transactions. *)

\* Mutant: the entry names the actor.
createAuditTx_Actor(r, to) == audit' = [audit EXCEPT ![r.by] = to]

\* The entry commits with the change it records; to is the role it names.
createAuditTx(r, to) == audit' = [audit EXCEPT ![r.on] = to]

CommitsRole(q, to) ==
    /\ adm' = [adm EXCEPT ![q] = IdleAdmin]
    /\ createAuditTx(adm[q], to)
    /\ UNCHANGED admCount

Commits(q) == CommitsRole(q, audit[adm[q].on])

AdminRollback(q) ==
    /\ adm[q] # IdleAdmin
    /\ adm' = [adm EXCEPT ![q] = IdleAdmin]
    /\ UNCHANGED <<role, account, roleDef, assigned, userJob, admCount, audit>>

\* syncUserSearchDocsTx: one job for each workspace the user is a member of,
\* read inside the transaction; ws is the membership it sees.
\* Mutant: the membership is the one the request checked, not the one it sees now.
syncUserSearchDocsTx_Assumed(u, op, ws) == userJob' = [userJob EXCEPT ![u] = op]

syncUserSearchDocsTx(u, op, ws) ==
    userJob' = IF ws[u] # "none" THEN [userJob EXCEPT ![u] = op] ELSE userJob

\* The unique constraint on (workspace_id, user_id) refuses a second row.
InviteMember(q) ==
    /\ adm[q].op = "invite" /\ role[adm[q].on] = "none"
    /\ role' = [role EXCEPT ![adm[q].on] = adm[q].arg]
    /\ syncUserSearchDocsTx(adm[q].on, "upsert", role')
    /\ CommitsRole(q, adm[q].arg)
    /\ UNCHANGED <<account, roleDef, assigned>>

UpdateMemberRole(q) ==
    /\ adm[q].op = "role" /\ role[adm[q].on] # "none"
    /\ role' = [role EXCEPT ![adm[q].on] = adm[q].arg]
    /\ CommitsRole(q, adm[q].arg)
    /\ UNCHANGED <<account, roleDef, assigned, userJob>>

\* Custom role assignments refer to the user, not to the membership: they stay.
RemoveMember(q) ==
    /\ adm[q].op = "remove" /\ role[adm[q].on] # "none"
    /\ role' = [role EXCEPT ![adm[q].on] = "none"]
    /\ userJob' = [userJob EXCEPT ![adm[q].on] = "delete"]
    /\ CommitsRole(q, "none")
    /\ UNCHANGED <<account, roleDef, assigned>>

SuspendUser(q) ==
    /\ adm[q].op = "suspend"
    /\ account' = [account EXCEPT ![adm[q].on] = "suspended"]
    /\ syncUserSearchDocsTx(adm[q].on, "delete", role)
    /\ Commits(q)
    /\ UNCHANGED <<role, roleDef, assigned>>

ReactivateUser(q) ==
    /\ adm[q].op = "reactivate"
    /\ account' = [account EXCEPT ![adm[q].on] = "active"]
    /\ syncUserSearchDocsTx(adm[q].on, "upsert", role)
    /\ Commits(q)
    /\ UNCHANGED <<role, roleDef, assigned>>

\* Create or update: base role and permissions are the caller's choice.
DefineRole(q) ==
    /\ adm[q].op = "define"
    /\ \E base \in Roles, perms \in SUBSET Permissions :
        roleDef' = [roleDef EXCEPT ![adm[q].arg] = [base |-> base, perms |-> perms]]
    /\ Commits(q)
    /\ UNCHANGED <<role, account, assigned, userJob>>

\* ON DELETE CASCADE takes the assignments along.
DeleteRoleDefinition(q) ==
    /\ adm[q].op = "undefine" /\ roleDef[adm[q].arg] # NoDefinition
    /\ roleDef' = [roleDef EXCEPT ![adm[q].arg] = NoDefinition]
    /\ assigned' = {p \in assigned : p[2] # adm[q].arg}
    /\ Commits(q)
    /\ UNCHANGED <<role, account, userJob>>

\* The foreign key to the definition and the unique constraint.
AssignMemberRole(q) ==
    /\ adm[q].op = "assign"
    /\ roleDef[adm[q].arg] # NoDefinition
    /\ <<adm[q].on, adm[q].arg>> \notin assigned
    /\ assigned' = assigned \cup {<<adm[q].on, adm[q].arg>>}
    /\ Commits(q)
    /\ UNCHANGED <<role, account, roleDef, userJob>>

UnassignMemberRole(q) ==
    /\ adm[q].op = "unassign"
    /\ <<adm[q].on, adm[q].arg>> \in assigned
    /\ assigned' = assigned \ {<<adm[q].on, adm[q].arg>>}
    /\ Commits(q)
    /\ UNCHANGED <<role, account, roleDef, userJob>>

WorkspaceNext ==
    \E q \in AdminRequests :
        \/ AdminAsk(q) \/ AdminRollback(q)
        \/ InviteMember(q) \/ UpdateMemberRole(q) \/ RemoveMember(q)
        \/ SuspendUser(q) \/ ReactivateUser(q)
        \/ DefineRole(q) \/ DeleteRoleDefinition(q)
        \/ AssignMemberRole(q) \/ UnassignMemberRole(q)

WorkspaceSpec == WorkspaceInit /\ [][WorkspaceNext]_workspaceVars

-----------------------------------------------------------------------------
\* A request that has passed its checks holds what it was asked for.
AdminRequestOK(r) ==
    \/ r = IdleAdmin
    \/ \E op \in AdminOps, a, t \in Users : \E x \in ArgsOf(op) :
        r = [op |-> op, by |-> a, on |-> t, arg |-> x]

WorkspaceTypeOK ==
    /\ role \in [Users -> Roles \cup {"none"}]
    /\ account \in [Users -> {"active", "suspended"}]
    /\ roleDef \in [RoleIds -> [base : Roles \cup {"none"}, perms : SUBSET Permissions]]
    /\ assigned \subseteq Users \X RoleIds
    /\ userJob \in [Users -> {"none", "upsert", "delete"}]
    /\ DOMAIN adm = AdminRequests /\ \A q \in AdminRequests : AdminRequestOK(adm[q])

\* A user who is no member of the workspace is not about to be found in it:
\* the newest job of the document is never an upsert.  A reactivation or an
\* invitation that checked the membership before a removal must not undo the
\* removal's delete job (syncUserSearchDocsTx lists the workspaces again).
RemovedAreUnlisted == \A u \in Users : role[u] = "none" => userJob[u] # "upsert"

\* The audit log explains every membership: read from the first entry to the
\* last it gives each user the role the workspace gives, although requests
\* that were checked against the same state commit one after the other.
AuditExplainsRoles == audit = role
=============================================================================
