------------------------------ MODULE AdminGuard ------------------------------
(***************************************************************************)
(* The guards that keep an administrator (services/user_guard.py) in the   *)
(* requests that change accounts: user management and conversion           *)
(* (routers/auth.py), sign-in and linking through SSO                      *)
(* (services/sso_provisioning.py), the SSO settings, and the setup that    *)
(* creates the first account (routers/setup.py).                           *)
(*                                                                         *)
(* A request is one transaction of REPEATABLE READ: all it reads and       *)
(* checks is one snapshot (Open), all it writes takes effect later         *)
(* (Commit), and an UPDATE names the columns that changed.  Passwords,     *)
(* the confirmations of the step-up, addresses and public registration     *)
(* (an ordinary account, like one create_user makes) are left out.         *)
(***************************************************************************)
EXTENDS Naturals, FiniteSets

CONSTANTS
    Users,     \* accounts there are or may be; an id is used once
    Requests   \* transactions that may be open at a time

VARIABLES
    account,   \* the rows of users
    sso,       \* whether a sign-in service (OIDC or LDAP) is enabled
    request,   \* what each open transaction is going to write
    founders   \* observer: the accounts the setup created

guardVars == <<account, sso, request, founders>>

Roles == {"admin", "user"}
Sources == {"local", "external"}
Accounts == [there : {"new", "yes", "gone"}, role : Roles, active : BOOLEAN, source : Sources]
NewAccount == [there |-> "new", role |-> "user", active |-> FALSE, source |-> "local"]

Pending == [open : BOOLEAN, target : Users, before : Accounts, after : Accounts,
            sets : {"keep", "on", "off"}, setup : BOOLEAN]

GuardTypeOK ==
    /\ account \in [Users -> Accounts] /\ sso \in {"on", "off"}
    /\ request \in [Requests -> Pending] /\ founders \subseteq Users

\* count_active_admins and count_active_local_admins.
IsActiveAdmin(a) == a.there = "yes" /\ a.role = "admin" /\ a.active
IsLocalAdmin(a) == IsActiveAdmin(a) /\ a.source = "local"
ActiveAdmins == {u \in Users : IsActiveAdmin(account[u])}
LocalAdmins == {u \in Users : IsLocalAdmin(account[u])}

Idle(t) == [open |-> FALSE, target |-> t, before |-> NewAccount, after |-> NewAccount,
            sets |-> "keep", setup |-> FALSE]

\* A fresh installation, or one whose administrator comes from the environment.
GuardInit ==
    /\ \/ account = [u \in Users |-> NewAccount]
       \/ \E first \in Users :
            account = [u \in Users |-> IF u = first
                                       THEN [there |-> "yes", role |-> "admin", active |-> TRUE, source |-> "local"]
                                       ELSE NewAccount]
    /\ sso = "off" /\ founders = {}
    /\ \E t \in Users : request = [r \in Requests |-> Idle(t)]

-----------------------------------------------------------------------------
\* (Mutant: an external administrator counts as the emergency access.)
KeepsLocalAdmin_any(t, after) ==
    IsLocalAdmin(account[t]) /\ ~IsLocalAdmin(after) /\ sso = "on" => ActiveAdmins \ {t} # {}

\* assert_keeps_active_admin and assert_keeps_local_admin, for the account t that
\* becomes "after" (or goes).
KeepsActiveAdmin(t, after) ==
    IsActiveAdmin(account[t]) /\ ~IsActiveAdmin(after) => ActiveAdmins \ {t} # {}
KeepsLocalAdmin(t, after) ==
    IsLocalAdmin(account[t]) /\ ~IsLocalAdmin(after) /\ sso = "on" => LocalAdmins \ {t} # {}

Open(r, t, after) ==
    /\ ~request[r].open
    /\ request' = [request EXCEPT ![r] = [Idle(t) EXCEPT !.open = TRUE, !.before = account[t], !.after = after]]
    /\ UNCHANGED <<account, sso, founders>>

create_user(r, admin, t) ==
    /\ admin \in ActiveAdmins /\ account[t].there = "new"
    /\ \E role \in Roles :
         Open(r, t, [there |-> "yes", role |-> role, active |-> TRUE, source |-> "local"])

\* Nobody demotes or deactivates himself.
update_user(r, admin, t) ==
    \E role \in Roles, active \in BOOLEAN :
      LET after == [account[t] EXCEPT !.role = role, !.active = active]
      IN /\ admin \in ActiveAdmins /\ account[t].there = "yes"
         /\ admin = t => after = account[t]
         /\ KeepsActiveAdmin(t, after) /\ KeepsLocalAdmin(t, after)
         /\ Open(r, t, after)

delete_user(r, admin, t) ==
    LET after == [account[t] EXCEPT !.there = "gone"]
    IN /\ admin \in ActiveAdmins /\ admin # t /\ account[t].there = "yes"
       /\ KeepsLocalAdmin(t, after)
       /\ Open(r, t, after)

convert_user_to_local(r, admin, t) ==
    /\ admin \in ActiveAdmins /\ admin # t
    /\ account[t].there = "yes" /\ account[t].source = "external"
    /\ Open(r, t, [account[t] EXCEPT !.source = "local"])

\* (Mutant: the groups decide, whoever is left.)
apply_role_unasked(t, role) == role

\* apply_role: the role the groups demand, unless it takes the last administrator.
apply_role(t, role) ==
    IF IsActiveAdmin(account[t]) /\ role = "user" /\ ActiveAdmins \ {t} = {}
    THEN "admin" ELSE role

\* Signing in through SSO: an account made on the way, or the role synchronised.
resolve_external_user(r, t) ==
    /\ sso = "on"
    /\ \E role \in Roles :
         \/ /\ account[t].there = "new"
            /\ Open(r, t, [there |-> "yes", role |-> role, active |-> TRUE, source |-> "external"])
         \/ /\ account[t].there = "yes" /\ account[t].active /\ account[t].source = "external"
            /\ Open(r, t, [account[t] EXCEPT !.role = apply_role(t, role)])

link_external_identity(r, t) ==
    \E role \in Roles :
      LET linked == [account[t] EXCEPT !.source = "external"]
      IN /\ sso = "on"
         /\ account[t].there = "yes" /\ account[t].active /\ account[t].source = "local"
         /\ KeepsLocalAdmin(t, linked)
         /\ Open(r, t, [linked EXCEPT !.role = apply_role(t, role)])

\* Enabling or disabling the services; no administrator is counted here.
update_sso_settings(r, admin) ==
    /\ admin \in ActiveAdmins /\ ~request[r].open
    /\ \E value \in {"on", "off"} :
         request' = [request EXCEPT ![r] = [Idle(admin) EXCEPT !.open = TRUE, !.before = account[admin],
                                                               !.after = account[admin], !.sets = value]]
    /\ UNCHANGED <<account, sso, founders>>

\* The count after the INSERT reads the same snapshot: it never sees another one.
register_first_user(r, t) ==
    /\ ~request[r].open /\ account[t].there = "new"
    /\ \A u \in Users : account[u].there # "yes"
    /\ request' = [request EXCEPT ![r] =
         [Idle(t) EXCEPT !.open = TRUE, !.before = account[t], !.setup = TRUE,
            !.after = [there |-> "yes", role |-> "admin", active |-> TRUE, source |-> "local"]]]
    /\ UNCHANGED <<account, sso, founders>>

\* The columns that changed are written; a row that is gone fails the UPDATE, one
\* that came meanwhile the INSERT.
Merged(row, before, after) ==
    [f \in DOMAIN row |-> IF after[f] # before[f] THEN after[f] ELSE row[f]]

Commit(r) ==
    LET p == request[r]
    IN /\ p.open /\ account[p.target].there = p.before.there
       /\ account' = [account EXCEPT ![p.target] = Merged(@, p.before, p.after)]
       /\ sso' = IF p.sets = "keep" THEN sso ELSE p.sets
       /\ founders' = IF p.setup THEN founders \cup {p.target} ELSE founders
       /\ request' = [request EXCEPT ![r] = Idle(p.target)]

Rollback(r) ==
    /\ request[r].open
    /\ request' = [request EXCEPT ![r] = Idle(request[r].target)]
    /\ UNCHANGED <<account, sso, founders>>

GuardNext ==
    \E r \in Requests :
      \/ Commit(r) \/ Rollback(r)
      \/ \E t \in Users : resolve_external_user(r, t) \/ link_external_identity(r, t) \/ register_first_user(r, t)
      \/ \E admin \in Users : update_sso_settings(r, admin)
      \/ \E admin, t \in Users :
           create_user(r, admin, t) \/ update_user(r, admin, t) \/ delete_user(r, admin, t)
           \/ convert_user_to_local(r, admin, t)

GuardSpec == GuardInit /\ [][GuardNext]_guardVars

-----------------------------------------------------------------------------
\* "Der letzte AKTIVE Admin kann weder deaktiviert noch herabgestuft werden"
\* (user_guard.py), whether user management, a deletion, SSO or the setup changes
\* accounts.  It holds while transactions come one after another.
AdminRemains == (\E u \in Users : account[u].there = "yes") => ActiveAdmins # {}

\* While a sign-in service stays enabled the last active local administrator, the
\* way in when that service fails, is not linked, demoted, deactivated or deleted.
\* It holds while transactions come one after another.
EmergencyKept ==
    [][sso = "on" /\ sso' = "on" /\ LocalAdmins # {} => LocalAdmins' # {}]_guardVars

\* The setup creates one account ("Race-sicher", routers/setup.py).  It holds while
\* transactions come one after another.
SetupOnce == Cardinality(founders) <= 1

===============================================================================
