------------------------------- MODULE UsersPage -------------------------------
(***************************************************************************)
(* The page of the accounts (pages/UsersPage.jsx) with the editor of the   *)
(* zones an account may use, while other administrators change them too.   *)
(* A grant is "read" or "manage".  The zones of a server that cannot be    *)
(* reached are missing in the list of zones, not in the grants.            *)
(***************************************************************************)
EXTENDS Naturals, FiniteSets

CONSTANTS Users, Zones,
          GrantOthers   \* bound: changes by other administrators

ASSUME UsersAssumption == GrantOthers \in Nat

Nobody == "nobody"
Grant == {"none", "read", "manage"}
Grants == [Zones -> Grant]

VARIABLES
    grants,    \* the grants of each account on the server
    rows,      \* the page: the grants listed, the zones that were found, loaded
    editor,    \* the editor: the account, the grants chosen, those it began with, zones unticked
    save,      \* the request of the editor
    newUser,    \* the dialog for a new account
    busyUser,  \* the account whose role or state is being changed
    otherGrants  \* changes by others so far

usersVars == <<grants, rows, editor, save, newUser, busyUser, otherGrants>>

Empty == [z \in Zones |-> "none"]
NoEditor == [user |-> Nobody, chosen |-> Empty, base |-> Empty, unticked |-> {}, error |-> FALSE]
NoZoneSave == [at |-> "none", user |-> Nobody, chosen |-> Empty, base |-> Empty, unticked |-> {}]

UsersTypeOK ==
    /\ grants \in [Users -> Grants]
    /\ rows \in [grants : [Users -> Grants], found : SUBSET Zones, loaded : BOOLEAN, error : BOOLEAN]
    /\ editor \in [user : Users \cup {Nobody}, chosen : Grants, base : Grants,
                   unticked : SUBSET Zones, error : BOOLEAN]
    /\ save \in [at : {"none", "sent", "done", "failed"}, user : Users \cup {Nobody},
                 chosen : Grants, base : Grants, unticked : SUBSET Zones]
    /\ newUser \in {"closed", "open", "sent", "error"}
    /\ busyUser \in Users \cup {Nobody} /\ otherGrants \in 0..GrantOthers

UsersInit ==
    /\ grants \in [Users -> Grants]
    /\ rows = [grants |-> [u \in Users |-> Empty], found |-> {}, loaded |-> FALSE, error |-> FALSE]
    /\ editor = NoEditor /\ save = NoZoneSave /\ newUser = "closed"
    /\ busyUser = Nobody /\ otherGrants = 0

-----------------------------------------------------------------------------
\* The list.

\* fetchData and applyData: accounts and zones together; a server that cannot
\* be reached takes its zones from the list, an error leaves the page as it is.
LoadData(found, ok) ==
    /\ rows' = IF ok THEN [grants |-> grants, found |-> found, loaded |-> TRUE, error |-> FALSE]
               ELSE [rows EXCEPT !.error = TRUE, !.loaded = TRUE]
    /\ UNCHANGED <<grants, editor, save, newUser, busyUser, otherGrants>>

Modal == editor.user # Nobody \/ newUser # "closed"
Saving == save.at # "none" \/ newUser = "sent"

\* toggleRole and toggleActive, one account at a time.
ChangeAccount(u) ==
    /\ rows.loaded /\ ~Modal /\ busyUser = Nobody
    /\ busyUser' = u
    /\ UNCHANGED <<grants, rows, editor, save, newUser, otherGrants>>

AccountChanged(ok) ==
    /\ busyUser # Nobody /\ busyUser' = Nobody
    /\ rows' = IF ok THEN [rows EXCEPT !.grants = grants] ELSE [rows EXCEPT !.error = TRUE]
    /\ UNCHANGED <<grants, editor, save, newUser, otherGrants>>

-----------------------------------------------------------------------------
\* The dialog for a new account; it cannot be left while its request runs.

OpenNewUser ==
    /\ rows.loaded /\ ~Modal /\ newUser' = "open"
    /\ UNCHANGED <<grants, rows, editor, save, busyUser, otherGrants>>

CloseNewUser ==
    /\ newUser \in {"open", "error"} /\ ~Saving /\ newUser' = "closed"
    /\ UNCHANGED <<grants, rows, editor, save, busyUser, otherGrants>>

SubmitNewUser ==
    /\ newUser \in {"open", "error"} /\ ~Saving /\ newUser' = "sent"
    /\ UNCHANGED <<grants, rows, editor, save, busyUser, otherGrants>>

NewUserAnswered(ok) ==
    /\ newUser = "sent" /\ newUser' = IF ok THEN "closed" ELSE "error"
    /\ UNCHANGED <<grants, rows, editor, save, busyUser, otherGrants>>

-----------------------------------------------------------------------------
\* The editor.

\* The rows: the zones found, and first those granted that were not found.
\* (Mutant: the grants for zones that were not found are left out.)
ChosenFrom_found(listed) == [z \in Zones |-> IF z \in rows.found THEN listed[z] ELSE "none"]
ChosenFrom(listed) == listed
OrphanZones == {z \in Zones : editor.base[z] # "none"} \ rows.found
ZoneRows == OrphanZones \cup rows.found

OpenZoneEditor(u) ==
    LET listed == rows.grants[u] IN
    /\ rows.loaded /\ ~Modal
    /\ editor' = [user |-> u, chosen |-> ChosenFrom(listed), base |-> listed,
                  unticked |-> {}, error |-> FALSE]
    /\ UNCHANGED <<grants, rows, save, newUser, busyUser, otherGrants>>

\* The cross works while a save is on the way, "cancel" and a click beside the
\* dialog do not.
CloseZoneEditor ==
    /\ editor.user # Nobody
    /\ editor' = NoEditor
    /\ UNCHANGED <<grants, rows, save, newUser, busyUser, otherGrants>>

\* A zone that is ticked anew gets "manage", also one that had "read".
ToggleZone(z) ==
    /\ editor.user # Nobody /\ z \in ZoneRows
    /\ editor' = [editor EXCEPT
                    !.chosen[z] = IF @ = "none" THEN "manage" ELSE "none",
                    !.unticked = IF editor.chosen[z] = "none" THEN @ \ {z} ELSE @ \cup {z}]
    /\ UNCHANGED <<grants, rows, save, newUser, busyUser, otherGrants>>

SetZonePermission(z, perm) ==
    /\ editor.user # Nobody /\ z \in ZoneRows /\ editor.chosen[z] # "none" /\ perm # "none"
    /\ editor' = [editor EXCEPT !.chosen[z] = perm]
    /\ UNCHANGED <<grants, rows, save, newUser, busyUser, otherGrants>>

SaveZones ==
    /\ editor.user # Nobody /\ ~Saving
    /\ save' = [at |-> "sent", user |-> editor.user, chosen |-> editor.chosen,
                base |-> editor.base, unticked |-> editor.unticked]
    /\ editor' = [editor EXCEPT !.error = FALSE]
    /\ UNCHANGED <<grants, rows, newUser, busyUser, otherGrants>>

\* update_user_zones: all grants of the account are replaced.
UpdateUserZones ==
    /\ save.at = "sent"
    /\ grants' = [grants EXCEPT ![save.user] = save.chosen]
    /\ save' = [save EXCEPT !.at = "done"]
    /\ UNCHANGED <<rows, editor, newUser, busyUser, otherGrants>>

ZoneSaveFails ==
    /\ save.at \in {"sent", "done"} /\ save' = [save EXCEPT !.at = "failed"]
    /\ UNCHANGED <<grants, rows, editor, newUser, busyUser, otherGrants>>

\* The answer closes the editor, whichever is open by now; an error stands in it.
SaveAnswered ==
    /\ save.at \in {"done", "failed"} /\ save' = NoZoneSave
    /\ editor' = IF save.at = "done" THEN NoEditor
                 ELSE [editor EXCEPT !.error = editor.user # Nobody]
    /\ UNCHANGED <<grants, rows, newUser, busyUser, otherGrants>>

\* Another administrator grants or takes a zone.
OtherGrants(u, z, perm) ==
    /\ otherGrants < GrantOthers /\ perm # grants[u][z]
    /\ grants' = [grants EXCEPT ![u][z] = perm] /\ otherGrants' = otherGrants + 1
    /\ UNCHANGED <<rows, editor, save, newUser, busyUser>>

UsersNext ==
    \/ \E found \in SUBSET Zones, ok \in BOOLEAN : LoadData(found, ok)
    \/ \E u \in Users : ChangeAccount(u) \/ OpenZoneEditor(u)
    \/ \E ok \in BOOLEAN : AccountChanged(ok) \/ NewUserAnswered(ok)
    \/ OpenNewUser \/ CloseNewUser \/ SubmitNewUser
    \/ CloseZoneEditor \/ SaveZones \/ UpdateUserZones \/ ZoneSaveFails \/ SaveAnswered
    \/ \E z \in Zones : ToggleZone(z) \/ \E p \in Grant : SetZonePermission(z, p)
    \/ \E u \in Users, z \in Zones, p \in Grant : OtherGrants(u, z, p)

UsersSpec == UsersInit /\ [][UsersNext]_usersVars

-----------------------------------------------------------------------------
\* A save takes away no grant the administrator saw in the list and left ticked,
\* be its server off line or its zone not found: only what was unticked goes,
\* and what another administrator granted since the list was loaded.
TakesOnlyUnticked ==
    save.at = "sent" /\ save'.at = "done" =>
      \A z \in Zones : /\ grants[save.user][z] # "none" /\ grants'[save.user][z] = "none"
                       /\ save.base[z] # "none"
                       => z \in save.unticked

=============================================================================
